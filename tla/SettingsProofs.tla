--------------------------- MODULE SettingsProofs ---------------------------
(***************************************************************************)
(* Theorems about Settings, for any number of screens, visits, edits,      *)
(* saves and commands: what a form shows, what a save changes, and what    *)
(* the connection screen knows of the profile that runs.                   *)
(***************************************************************************)
EXTENDS Settings, SequenceTheorems, TLAPS

-----------------------------------------------------------------------------
(* The records of the screens, and the operators over sequences.           *)

Names ==
  {"screen", "form", "needsRestart", "notice", "get", "read", "puts", "command",
   "touched", "stale", "crossed", "raced", "seen", "pressed"}

IsRecord(r) == r = [x \in Names |-> r[x]]

LEMMA UpdatedFits ==
  ASSUME NEW new, NEW r, IsRecord(r)
  PROVE  /\ IsRecord(Updated(r, new))
         /\ \A x \in Names : Updated(r, new)[x] = IF x \in DOMAIN new THEN new[x] ELSE r[x]
<1>1. DOMAIN r = Names
  BY DEF IsRecord
<1> QED
  BY <1>1 DEF Updated, IsRecord

LEMMA OpenedFits ==
  ASSUME NEW s
  PROVE  /\ IsRecord(Opened(s))
         /\ Opened(s).screen = s /\ Opened(s).form = DefaultForm(s)
         /\ Opened(s).needsRestart = FALSE /\ Opened(s).notice = "none"
         /\ Opened(s).get = IF s \in Kind THEN "sent" ELSE "done"
         /\ Opened(s).read = Defaults /\ Opened(s).puts = <<>> /\ Opened(s).command = "none"
         /\ Opened(s).touched = {} /\ Opened(s).stale = TRUE /\ Opened(s).crossed = FALSE
         /\ Opened(s).raced = FALSE /\ Opened(s).seen = 0 /\ Opened(s).pressed = 0
<1>1. PICK r : r = Opened(s)
  OBVIOUS
<1>2. r = [x \in Names |-> r[x]]
  BY <1>1 DEF Opened, Names
<1> QED
  BY <1>1, <1>2 DEF IsRecord, Opened

LEMMA Greater ==
  ASSUME NEW a \in Nat, NEW b \in Nat
  PROVE  /\ Max({a, b}) \in Nat /\ a <= Max({a, b}) /\ b <= Max({a, b})
         /\ Max({a, b}) = a \/ Max({a, b}) = b
<1>1. \E x \in {a, b} : \A y \in {a, b} : x >= y
  <2>1. CASE a >= b
    BY <2>1
  <2>2. CASE ~(a >= b)
    BY <2>2
  <2> QED
    BY <2>1, <2>2
<1>2. Max({a, b}) \in {a, b} /\ \A y \in {a, b} : Max({a, b}) >= y
  BY <1>1 DEF Max
<1> QED
  BY <1>2

LEMMA Removed ==
  ASSUME NEW S, NEW s \in Seq(S), NEW n \in DOMAIN s
  PROVE  /\ RemoveAt(s, n) \in Seq(S) /\ Len(RemoveAt(s, n)) = Len(s) - 1
         /\ \A i \in DOMAIN RemoveAt(s, n) : \E j \in DOMAIN s : RemoveAt(s, n)[i] = s[j]
<1>1. Len(s) \in Nat /\ DOMAIN s = 1..Len(s) /\ \A i \in 1..Len(s) : s[i] \in S
  BY LenProperties, ElementOfSeq
<1>0. n \in Nat /\ n >= 1 /\ n <= Len(s)
  BY <1>1
<1>2. PICK u : u = SubSeq(s, 1, n - 1)
  OBVIOUS
<1>3. PICK v : v = SubSeq(s, n + 1, Len(s))
  OBVIOUS
<1>4. u \in Seq(S) /\ Len(u) = n - 1 /\ \A i \in 1..Len(u) : u[i] = s[i]
  BY <1>1, <1>2, SubSeqProperties
<1>5. v \in Seq(S) /\ Len(v) = Len(s) - n /\ \A i \in 1..Len(v) : v[i] = s[n + i]
  BY <1>1, <1>3, SubSeqProperties
<1>6. PICK w : w = u \o v
  OBVIOUS
<1>7. /\ w \in Seq(S) /\ Len(w) = Len(u) + Len(v)
      /\ \A i \in 1..(Len(u) + Len(v)) :
           w[i] = IF i <= Len(u) THEN u[i] ELSE v[i - Len(u)]
  BY <1>4, <1>5, <1>6, ConcatProperties
<1>8. DOMAIN w = 1..Len(w)
  BY <1>7, LenProperties
<1>9. ASSUME NEW i \in DOMAIN w PROVE \E j \in DOMAIN s : w[i] = s[j]
  <2>1. CASE i <= Len(u)
    <3>1. i \in 1..Len(u) /\ i \in DOMAIN s
      BY <1>1, <1>4, <1>7, <1>8, <1>9, <2>1
    <3> QED
      BY <1>4, <1>7, <1>8, <1>9, <2>1, <3>1
  <2>2. CASE ~(i <= Len(u))
    <3>1. i - Len(u) \in 1..Len(v) /\ n + (i - Len(u)) \in DOMAIN s
      BY <1>1, <1>4, <1>5, <1>7, <1>8, <1>9, <2>2, SMTT(30)
    <3>2. w[i] = v[i - Len(u)] /\ v[i - Len(u)] = s[n + (i - Len(u))]
      BY <1>4, <1>5, <1>7, <1>8, <1>9, <2>2, <3>1
    <3> QED
      BY <3>1, <3>2
  <2> QED
    BY <2>1, <2>2
<1>10. RemoveAt(s, n) = w
  BY <1>2, <1>3, <1>6 DEF RemoveAt
<1>11. w \in Seq(S) /\ Len(w) = Len(s) - 1
  BY <1>1, <1>4, <1>5, <1>7
<1> QED
  BY <1>9, <1>10, <1>11, Zenon

-----------------------------------------------------------------------------
(* The types.                                                              *)

\* Only the folder can be blank, so that the row never gets a blank field.
Filled == {v \in Form : v["rest"] # Blank}
FilledPut == [at: {"sent", "answered"}, kind: Kind, values: Filled, typed: SUBSET Field,
              version: Nat, running: BOOLEAN]

PageType(r) ==
  /\ IsRecord(r)
  /\ r.screen \in Kind \cup {"monitor", "none"} /\ r.form \in Filled
  /\ r.get \in {"done", "sent", "answered"} /\ r.read \in Filled
  /\ (r.get = "answered" => r.screen \in Kind)
  /\ (r.get = "sent" => r.screen \in Kind)
  /\ r.puts \in Seq(FilledPut) /\ r.command \in Commands
  /\ r.notice \in {"none", "saved", "restarted"}
  /\ r.touched \subseteq Field
  /\ r.needsRestart \in BOOLEAN /\ r.stale \in BOOLEAN /\ r.crossed \in BOOLEAN /\ r.raced \in BOOLEAN
  /\ r.seen \in Nat /\ r.pressed \in Nat

ServerType ==
  /\ row \in [Kind -> [Field -> Value \ {Blank}]] /\ version \in [Kind -> Nat]
  /\ running \in BOOLEAN /\ active \in 0..version["connection"]

BoundsType == visits \in Nat /\ edits \in Nat /\ submits \in Nat /\ commands \in Nat

PagesType == page = [p \in Page |-> page[p]] /\ \A p \in Page : PageType(page[p])

TypeInv == ServerType /\ BoundsType /\ PagesType

LEMMA FilledValues ==
  /\ Defaults \in Filled /\ \A s \in Kind \cup {"monitor", "none"} : DefaultForm(s) \in Filled
  /\ \A k \in Kind : [Field -> Value \ {Blank}] \subseteq Filled
  /\ \A v \in Filled : v["place"] # Blank => v \in [Field -> Value \ {Blank}]
<1>1. MaxEdits \in Nat
  BY SettingsAssumption DEF SettingsAssumption
<1>2. Defaults \in Filled
  BY <1>1 DEF Defaults, Filled, Form, Field, Value, Blank
<1>3. \A s \in Kind \cup {"monitor", "none"} : DefaultForm(s) \in Filled
  BY <1>1, <1>2 DEF Defaults, DefaultForm, Filled, Form, Field, Value, Blank
<1>4. [Field -> Value \ {Blank}] \subseteq Filled
  BY DEF Filled, Form, Field, Value, Blank
<1>5. \A v \in Filled : v["place"] # Blank => v \in [Field -> Value \ {Blank}]
  BY DEF Filled, Form, Field, Value, Blank
<1> QED
  BY <1>2, <1>3, <1>4, <1>5

LEMMA FilledPuts ==
  ASSUME NEW s \in Seq(FilledPut)
  PROVE  /\ s \in Seq(Put) /\ Len(s) \in Nat /\ DOMAIN s = 1..Len(s)
         /\ \A n \in DOMAIN s : s[n] \in FilledPut
<1>1. Len(s) \in Nat /\ DOMAIN s = 1..Len(s) /\ \A n \in DOMAIN s : s[n] \in FilledPut
  BY LenProperties, ElementOfSeq
<1>2. FilledPut \subseteq Put
  BY DEF FilledPut, Put, Filled
<1>3. s \in [1..Len(s) -> Put]
  BY <1>1, <1>2, LenProperties
<1> QED
  BY <1>1, <1>3, SeqDef

LEMMA TypesGiveTypeOK == TypeInv => TypeOK
<1> SUFFICES ASSUME TypeInv PROVE TypeOK
  OBVIOUS
<1>1. ASSUME NEW p \in Page
      PROVE  /\ page[p].screen \in Kind \cup {"monitor", "none"} /\ page[p].form \in Form
             /\ page[p].get \in {"done", "sent", "answered"} /\ page[p].read \in Form
             /\ page[p].puts \in Seq(Put) /\ page[p].command \in Commands
             /\ page[p].notice \in {"none", "saved", "restarted"}
             /\ page[p].touched \subseteq Field
             /\ {page[p].needsRestart, page[p].stale, page[p].crossed, page[p].raced} \subseteq BOOLEAN
             /\ {page[p].seen, page[p].pressed} \subseteq Nat
  <2>1. PageType(page[p])
    BY <1>1 DEF TypeInv, PagesType
  <2>2. page[p].puts \in Seq(Put)
    BY <2>1, FilledPuts DEF PageType
  <2> QED
    BY <2>1, <2>2 DEF PageType, Filled
<1> QED
  BY <1>1 DEF TypeInv, ServerType, BoundsType, TypeOK

LEMMA BecomesFits ==
  ASSUME TypeInv, NEW p \in Page, NEW new, Becomes(p, new)
  PROVE  /\ page' = [q \in Page |-> page'[q]] /\ IsRecord(page'[p])
         /\ \A q \in Page : q # p => page'[q] = page[q]
         /\ \A x \in Names : page'[p][x] = IF x \in DOMAIN new THEN new[x] ELSE page[p][x]
<1>1. page = [q \in Page |-> page[q]] /\ IsRecord(page[p])
  BY DEF TypeInv, PagesType, PageType
<1>2. PICK r : r = Updated(page[p], new)
  OBVIOUS
<1>3. IsRecord(r) /\ \A x \in Names : r[x] = IF x \in DOMAIN new THEN new[x] ELSE page[p][x]
  BY <1>1, <1>2, UpdatedFits
<1>4. page' = [page EXCEPT ![p] = r]
  BY <1>2 DEF Becomes
<1>5. /\ page' = [q \in Page |-> page'[q]] /\ page'[p] = r
      /\ \A q \in Page : q # p => page'[q] = page[q]
  BY <1>1, <1>4
<1> QED
  BY <1>3, <1>5

\* Only screen p changes.
Only(p) ==
  /\ page' = [q \in Page |-> page'[q]] /\ IsRecord(page'[p])
  /\ \A q \in Page : q # p => page'[q] = page[q]

LEMMA TypesKept ==
  ASSUME TypeInv, NEW p \in Page, Only(p), PageType(page'[p]), (ServerType /\ BoundsType)'
  PROVE  TypeInv'
BY ZenonT(30) DEF TypeInv, PagesType, Only, PageType, IsRecord

LEMMA OpenFits ==
  ASSUME TypeInv, NEW p \in Page, NEW s \in Kind \cup {"monitor"}, Open(p, s)
  PROVE  Only(p) /\ page'[p] = Opened(s) /\ TypeInv'
<1>1. PICK new : new = Opened(s)
  OBVIOUS
<1>2. Becomes(p, new) /\ UNCHANGED server /\ visits' = visits + 1 /\ UNCHANGED <<edits, submits, commands>>
  BY <1>1 DEF Open
<1>3. Only(p) /\ \A x \in Names : page'[p][x] = IF x \in DOMAIN new THEN new[x] ELSE page[p][x]
  BY <1>2, BecomesFits DEF Only
<1>4. /\ IsRecord(new) /\ new.screen = s /\ new.form = DefaultForm(s)
      /\ new.needsRestart = FALSE /\ new.notice = "none"
      /\ new.get = IF s \in Kind THEN "sent" ELSE "done"
      /\ new.read = Defaults /\ new.puts = <<>> /\ new.command = "none"
      /\ new.touched = {} /\ new.stale = TRUE /\ new.crossed = FALSE
      /\ new.raced = FALSE /\ new.seen = 0 /\ new.pressed = 0
  BY <1>1, OpenedFits
<1>5. page'[p] = new
  BY <1>3, <1>4 DEF IsRecord, Only
<1>6. Defaults \in Filled /\ DefaultForm(s) \in Filled /\ <<>> \in Seq(FilledPut)
  BY FilledValues, EmptySeq
<1>7. PageType(new)
  <2>1. new.screen \in Kind \cup {"monitor", "none"} /\ new.form \in Filled /\ new.read \in Filled
    BY <1>4, <1>6
  <2>2. /\ new.get \in {"done", "sent", "answered"} /\ new.notice \in {"none", "saved", "restarted"}
        /\ (new.get = "answered" => new.screen \in Kind) /\ (new.get = "sent" => new.screen \in Kind)
    BY <1>4, <1>6
  <2>3. new.puts \in Seq(FilledPut) /\ new.command \in Commands /\ new.touched \subseteq Field
    BY <1>4, <1>6 DEF Commands
  <2>4. /\ new.needsRestart \in BOOLEAN /\ new.stale \in BOOLEAN /\ new.crossed \in BOOLEAN
        /\ new.raced \in BOOLEAN
    BY <1>4, Zenon
  <2>5. new.seen \in Nat /\ new.pressed \in Nat
    BY <1>4
  <2> QED
    BY <1>4, <2>1, <2>2, <2>3, <2>4, <2>5 DEF PageType
<1>8. (ServerType /\ BoundsType)'
  BY <1>2 DEF TypeInv, ServerType, BoundsType, server
<1> QED
  BY <1>1, <1>3, <1>5, <1>7, <1>8, TypesKept

LEMMA LeaveFits ==
  ASSUME TypeInv, NEW p \in Page, Leave(p)
  PROVE  /\ Only(p) /\ TypeInv'
         /\ page'[p].screen = "none" /\ page'[p].notice = "none" /\ page'[p].stale = TRUE
         /\ page'[p].get = "done" /\ page'[p].puts = page[p].puts /\ page'[p].command = page[p].command
<1>1. PICK r : r = NoPage
  OBVIOUS
<1>2. /\ IsRecord(r) /\ r.screen = "none" /\ r.form = DefaultForm("none")
      /\ r.needsRestart = FALSE /\ r.notice = "none" /\ r.get = "done"
      /\ r.read = Defaults /\ r.touched = {} /\ r.stale = TRUE /\ r.crossed = FALSE
      /\ r.raced = FALSE /\ r.seen = 0 /\ r.pressed = 0
  BY <1>1, OpenedFits DEF NoPage, Kind
<1>3. PICK new : new = [r EXCEPT !.puts = page[p].puts, !.command = page[p].command]
  OBVIOUS
<1>4. /\ IsRecord(new) /\ new.puts = page[p].puts /\ new.command = page[p].command
      /\ new.screen = "none" /\ new.form = DefaultForm("none")
      /\ new.needsRestart = FALSE /\ new.notice = "none" /\ new.get = "done"
      /\ new.read = Defaults /\ new.touched = {} /\ new.stale = TRUE /\ new.crossed = FALSE
      /\ new.raced = FALSE /\ new.seen = 0 /\ new.pressed = 0
  BY <1>2, <1>3 DEF IsRecord, Names
<1>5. Becomes(p, new) /\ UNCHANGED server /\ UNCHANGED bounds
  BY <1>1, <1>3 DEF Leave
<1>6. Only(p) /\ \A x \in Names : page'[p][x] = IF x \in DOMAIN new THEN new[x] ELSE page[p][x]
  BY <1>5, BecomesFits DEF Only
<1>7. page'[p] = new
  BY <1>4, <1>6 DEF IsRecord, Only
<1>8. PageType(page[p]) /\ ServerType /\ BoundsType
  BY DEF TypeInv, PagesType
<1>9. Defaults \in Filled /\ DefaultForm("none") \in Filled
  BY FilledValues
<1>10. PageType(new)
  <2>1. new.screen \in Kind \cup {"monitor", "none"} /\ new.form \in Filled /\ new.read \in Filled
    BY <1>4, <1>8, <1>9
  <2>2. /\ new.get \in {"done", "sent", "answered"} /\ new.notice \in {"none", "saved", "restarted"}
        /\ (new.get = "answered" => new.screen \in Kind) /\ (new.get = "sent" => new.screen \in Kind)
    BY <1>4, <1>8, <1>9
  <2>3. new.puts \in Seq(FilledPut) /\ new.command \in Commands /\ new.touched \subseteq Field
    BY <1>4, <1>8, <1>9 DEF PageType
  <2>4. /\ new.needsRestart \in BOOLEAN /\ new.stale \in BOOLEAN /\ new.crossed \in BOOLEAN
        /\ new.raced \in BOOLEAN
    BY <1>4, Zenon
  <2>5. new.seen \in Nat /\ new.pressed \in Nat
    BY <1>4
  <2> QED
    BY <1>4, <2>1, <2>2, <2>3, <2>4, <2>5 DEF PageType
<1>11. (ServerType /\ BoundsType)'
  BY <1>5, <1>8 DEF ServerType, BoundsType, server, bounds
<1> QED
  BY <1>4, <1>6, <1>7, <1>10, <1>11, TypesKept

LEMMA AnswerGetFits ==
  ASSUME TypeInv, NEW p \in Page, AnswerGet(p)
  PROVE  /\ Only(p) /\ TypeInv'
         /\ page'[p].get = "answered" /\ page'[p].read = row[page[p].screen]
         /\ page'[p].stale = FALSE
         /\ page'[p].screen = page[p].screen /\ page'[p].form = page[p].form
         /\ page'[p].needsRestart = page[p].needsRestart
         /\ page'[p].notice = page[p].notice /\ page'[p].puts = page[p].puts
         /\ page'[p].command = page[p].command /\ page'[p].touched = page[p].touched
         /\ page'[p].crossed = page[p].crossed /\ page'[p].raced = page[p].raced
         /\ page'[p].seen = page[p].seen /\ page'[p].pressed = page[p].pressed
<1>1. PICK new : new = [get |-> "answered", read |-> row[page[p].screen], stale |-> FALSE]
  OBVIOUS
<1>2. Becomes(p, new) /\ UNCHANGED server /\ UNCHANGED bounds /\ page[p].get = "sent"
  BY <1>1 DEF AnswerGet
<1>3. Only(p) /\ \A x \in Names : page'[p][x] = IF x \in DOMAIN new THEN new[x] ELSE page[p][x]
  BY <1>2, BecomesFits DEF Only
<1>4. /\ page'[p].get = "answered" /\ page'[p].read = row[page[p].screen]
      /\ page'[p].stale = FALSE
  BY <1>1, <1>3 DEF Names
<1>5. /\ page'[p].screen = page[p].screen /\ page'[p].form = page[p].form
      /\ page'[p].needsRestart = page[p].needsRestart
      /\ page'[p].notice = page[p].notice /\ page'[p].puts = page[p].puts
      /\ page'[p].command = page[p].command /\ page'[p].touched = page[p].touched
      /\ page'[p].crossed = page[p].crossed /\ page'[p].raced = page[p].raced
      /\ page'[p].seen = page[p].seen /\ page'[p].pressed = page[p].pressed
  BY <1>1, <1>3 DEF Names
<1>6. PageType(page[p]) /\ ServerType /\ BoundsType
  BY DEF TypeInv, PagesType
<1>7. page[p].screen \in Kind /\ row[page[p].screen] \in Filled
  BY <1>2, <1>6, FilledValues DEF PageType, ServerType, Kind
<1>8. PageType(page'[p])
  BY <1>2, <1>3, <1>4, <1>5, <1>6, <1>7 DEF PageType, Only
<1>9. (ServerType /\ BoundsType)'
  BY <1>2, <1>6 DEF ServerType, BoundsType, server, bounds
<1> QED
  BY <1>3, <1>4, <1>5, <1>8, <1>9, TypesKept

LEMMA GetArrivesFits ==
  ASSUME TypeInv, NEW p \in Page, GetArrives(p)
  PROVE  /\ Only(p) /\ TypeInv'
         /\ page'[p].get = "done" /\ page'[p].read = Defaults
         /\ page'[p].form = page[p].read /\ page'[p].touched = {}
         /\ page'[p].screen = page[p].screen
         /\ page'[p].needsRestart = page[p].needsRestart
         /\ page'[p].notice = page[p].notice /\ page'[p].puts = page[p].puts
         /\ page'[p].command = page[p].command /\ page'[p].stale = page[p].stale
         /\ page'[p].crossed = page[p].crossed /\ page'[p].raced = page[p].raced
         /\ page'[p].seen = page[p].seen /\ page'[p].pressed = page[p].pressed
<1>1. PICK new : new = [get |-> "done", read |-> Defaults, form |-> page[p].read, touched |-> {}]
  OBVIOUS
<1>2. Becomes(p, new) /\ UNCHANGED server /\ UNCHANGED bounds /\ page[p].get = "answered"
  BY <1>1 DEF GetArrives
<1>3. Only(p) /\ \A x \in Names : page'[p][x] = IF x \in DOMAIN new THEN new[x] ELSE page[p][x]
  BY <1>2, BecomesFits DEF Only
<1>4. /\ page'[p].get = "done" /\ page'[p].read = Defaults
      /\ page'[p].form = page[p].read /\ page'[p].touched = {}
  BY <1>1, <1>3 DEF Names
<1>5. /\ page'[p].screen = page[p].screen
      /\ page'[p].needsRestart = page[p].needsRestart
      /\ page'[p].notice = page[p].notice /\ page'[p].puts = page[p].puts
      /\ page'[p].command = page[p].command /\ page'[p].stale = page[p].stale
      /\ page'[p].crossed = page[p].crossed /\ page'[p].raced = page[p].raced
      /\ page'[p].seen = page[p].seen /\ page'[p].pressed = page[p].pressed
  BY <1>1, <1>3 DEF Names
<1>6. PageType(page[p]) /\ ServerType /\ BoundsType
  BY DEF TypeInv, PagesType
<1>7. Defaults \in Filled
  BY FilledValues
<1>8. PageType(page'[p])
  BY <1>2, <1>3, <1>4, <1>5, <1>6, <1>7 DEF PageType, Only
<1>9. (ServerType /\ BoundsType)'
  BY <1>2, <1>6 DEF ServerType, BoundsType, server, bounds
<1> QED
  BY <1>3, <1>4, <1>5, <1>8, <1>9, TypesKept

LEMMA GetFailsFits ==
  ASSUME TypeInv, NEW p \in Page, GetFails(p)
  PROVE  /\ Only(p) /\ TypeInv'
         /\ page'[p].get = "done" /\ page'[p].read = Defaults /\ page'[p].stale = TRUE
         /\ page'[p].screen = page[p].screen /\ page'[p].form = page[p].form
         /\ page'[p].needsRestart = page[p].needsRestart
         /\ page'[p].notice = page[p].notice /\ page'[p].puts = page[p].puts
         /\ page'[p].command = page[p].command /\ page'[p].touched = page[p].touched
         /\ page'[p].crossed = page[p].crossed /\ page'[p].raced = page[p].raced
         /\ page'[p].seen = page[p].seen /\ page'[p].pressed = page[p].pressed
<1>1. PICK new : new = [get |-> "done", read |-> Defaults, stale |-> TRUE]
  OBVIOUS
<1>2. Becomes(p, new) /\ UNCHANGED server /\ UNCHANGED bounds /\ page[p].get # "done"
  BY <1>1 DEF GetFails
<1>3. Only(p) /\ \A x \in Names : page'[p][x] = IF x \in DOMAIN new THEN new[x] ELSE page[p][x]
  BY <1>2, BecomesFits DEF Only
<1>4. /\ page'[p].get = "done" /\ page'[p].read = Defaults /\ page'[p].stale = TRUE
  BY <1>1, <1>3 DEF Names
<1>5. /\ page'[p].screen = page[p].screen /\ page'[p].form = page[p].form
      /\ page'[p].needsRestart = page[p].needsRestart
      /\ page'[p].notice = page[p].notice /\ page'[p].puts = page[p].puts
      /\ page'[p].command = page[p].command /\ page'[p].touched = page[p].touched
      /\ page'[p].crossed = page[p].crossed /\ page'[p].raced = page[p].raced
      /\ page'[p].seen = page[p].seen /\ page'[p].pressed = page[p].pressed
  BY <1>1, <1>3 DEF Names
<1>6. PageType(page[p]) /\ ServerType /\ BoundsType
  BY DEF TypeInv, PagesType
<1>7. Defaults \in Filled
  BY FilledValues
<1>8. PageType(page'[p])
  BY <1>2, <1>3, <1>4, <1>5, <1>6, <1>7 DEF PageType, Only
<1>9. (ServerType /\ BoundsType)'
  BY <1>2, <1>6 DEF ServerType, BoundsType, server, bounds
<1> QED
  BY <1>3, <1>4, <1>5, <1>8, <1>9, TypesKept

LEMMA EditFits ==
  ASSUME TypeInv, NEW p \in Page, NEW f \in Field, Edit(p, f)
  PROVE  /\ Only(p) /\ TypeInv'
         /\ page'[p].form = [page[p].form EXCEPT ![f] = edits + 1]
         /\ page'[p].touched = page[p].touched \cup {f}
         /\ page'[p].screen = page[p].screen
         /\ page'[p].needsRestart = page[p].needsRestart
         /\ page'[p].notice = page[p].notice /\ page'[p].get = page[p].get
         /\ page'[p].read = page[p].read /\ page'[p].puts = page[p].puts
         /\ page'[p].command = page[p].command /\ page'[p].stale = page[p].stale
         /\ page'[p].crossed = page[p].crossed /\ page'[p].raced = page[p].raced
         /\ page'[p].seen = page[p].seen /\ page'[p].pressed = page[p].pressed
<1>1. PICK new : new = [form |-> [page[p].form EXCEPT ![f] = edits + 1], touched |-> page[p].touched \cup {f}]
  OBVIOUS
<1>2. Becomes(p, new) /\ UNCHANGED server /\ edits' = edits + 1 /\ UNCHANGED <<visits, submits, commands>> /\ edits < MaxEdits
  BY <1>1 DEF Edit
<1>3. Only(p) /\ \A x \in Names : page'[p][x] = IF x \in DOMAIN new THEN new[x] ELSE page[p][x]
  BY <1>2, BecomesFits DEF Only
<1>4. /\ page'[p].form = [page[p].form EXCEPT ![f] = edits + 1]
      /\ page'[p].touched = page[p].touched \cup {f}
  BY <1>1, <1>3 DEF Names
<1>5. /\ page'[p].screen = page[p].screen
      /\ page'[p].needsRestart = page[p].needsRestart
      /\ page'[p].notice = page[p].notice /\ page'[p].get = page[p].get
      /\ page'[p].read = page[p].read /\ page'[p].puts = page[p].puts
      /\ page'[p].command = page[p].command /\ page'[p].stale = page[p].stale
      /\ page'[p].crossed = page[p].crossed /\ page'[p].raced = page[p].raced
      /\ page'[p].seen = page[p].seen /\ page'[p].pressed = page[p].pressed
  BY <1>1, <1>3 DEF Names
<1>6. PageType(page[p]) /\ ServerType /\ BoundsType
  BY DEF TypeInv, PagesType
<1>7. [page[p].form EXCEPT ![f] = edits + 1] \in Filled
  BY <1>2, <1>6, SettingsAssumption DEF PageType, BoundsType, Filled, Form, Value, Field, Blank, SettingsAssumption
<1>8. PageType(page'[p])
  BY <1>2, <1>3, <1>4, <1>5, <1>6, <1>7 DEF PageType, Only
<1>9. (ServerType /\ BoundsType)'
  BY <1>2, <1>6 DEF ServerType, BoundsType, server
<1> QED
  BY <1>3, <1>4, <1>5, <1>8, <1>9, TypesKept

\* What a screen sends when it is submitted.
Sent(p) ==
  [at |-> "sent", kind |-> page[p].screen, values |-> page[p].form,
   typed |-> page[p].touched, version |-> 0, running |-> FALSE]

LEMMA SubmitFits ==
  ASSUME TypeInv, NEW p \in Page, Submit(p)
  PROVE  \E put \in FilledPut :
           /\ put = Sent(p)
           /\ Only(p) /\ TypeInv' /\ page[p].screen \in Kind
           /\ (page[p].screen = "storage" => page[p].puts = <<>>)
           /\ page'[p].puts = Append(page[p].puts, put) /\ page'[p].notice = "none"
           /\ page'[p].crossed = (\/ page[p].crossed \/ page[p].get # "done"
                                  \/ page[p].screen = "connection" /\ page[p].puts # <<>>)
           /\ page'[p].screen = page[p].screen /\ page'[p].form = page[p].form
           /\ page'[p].needsRestart = page[p].needsRestart /\ page'[p].get = page[p].get
           /\ page'[p].read = page[p].read /\ page'[p].command = page[p].command
           /\ page'[p].touched = page[p].touched /\ page'[p].stale = page[p].stale
           /\ page'[p].raced = page[p].raced /\ page'[p].seen = page[p].seen
           /\ page'[p].pressed = page[p].pressed
<1>1. PICK put : put = Sent(p)
  OBVIOUS
<1>2. PICK c : c = (\/ page[p].crossed \/ page[p].get # "done"
                    \/ page[p].screen = "connection" /\ page[p].puts # <<>>)
  OBVIOUS
<1>3. PICK new : new = [puts |-> Append(page[p].puts, put), notice |-> "none", crossed |-> c]
  OBVIOUS
<1>4. /\ Becomes(p, new) /\ UNCHANGED server /\ submits' = submits + 1
      /\ UNCHANGED <<visits, edits, commands>> /\ page[p].screen \in Kind
      /\ (page[p].screen = "storage" => page[p].puts = <<>>)
  BY <1>1, <1>2, <1>3 DEF Submit, Sent, CanSubmit
<1>5. Only(p) /\ \A x \in Names : page'[p][x] = IF x \in DOMAIN new THEN new[x] ELSE page[p][x]
  BY <1>4, BecomesFits DEF Only
<1>6. page'[p].puts = Append(page[p].puts, put) /\ page'[p].notice = "none" /\ page'[p].crossed = c
  BY <1>3, <1>5 DEF Names
<1>7. /\ page'[p].screen = page[p].screen /\ page'[p].form = page[p].form
      /\ page'[p].needsRestart = page[p].needsRestart /\ page'[p].get = page[p].get
      /\ page'[p].read = page[p].read /\ page'[p].command = page[p].command
      /\ page'[p].touched = page[p].touched /\ page'[p].stale = page[p].stale
      /\ page'[p].raced = page[p].raced /\ page'[p].seen = page[p].seen
      /\ page'[p].pressed = page[p].pressed
  BY <1>3, <1>5 DEF Names
<1>8. PageType(page[p]) /\ ServerType /\ BoundsType
  BY DEF TypeInv, PagesType
<1>9. put \in FilledPut
  BY <1>1, <1>4, <1>8 DEF Sent, FilledPut, PageType
<1>10. Append(page[p].puts, put) \in Seq(FilledPut)
  BY <1>8, <1>9, AppendProperties DEF PageType
<1>11. c \in BOOLEAN
  BY <1>2, <1>8 DEF PageType
<1>12. PageType(page'[p])
  BY <1>5, <1>6, <1>7, <1>8, <1>10, <1>11 DEF PageType, Only
<1>13. (ServerType /\ BoundsType)'
  BY <1>4, <1>8 DEF ServerType, BoundsType, server
<1>14. TypeInv'
  BY <1>5, <1>12, <1>13, TypesKept
<1> QED
  BY <1>1, <1>2, <1>4, <1>5, <1>6, <1>7, <1>9, <1>14

LEMMA PutFailsFits ==
  ASSUME TypeInv, NEW p \in Page, NEW n \in DOMAIN page[p].puts, PutFails(p, n)
  PROVE  /\ Only(p) /\ TypeInv'
         /\ page'[p].puts = RemoveAt(page[p].puts, n)
         /\ page'[p].screen = page[p].screen /\ page'[p].form = page[p].form
         /\ page'[p].needsRestart = page[p].needsRestart
         /\ page'[p].notice = page[p].notice /\ page'[p].get = page[p].get
         /\ page'[p].read = page[p].read /\ page'[p].command = page[p].command
         /\ page'[p].touched = page[p].touched /\ page'[p].stale = page[p].stale
         /\ page'[p].crossed = page[p].crossed /\ page'[p].raced = page[p].raced
         /\ page'[p].seen = page[p].seen /\ page'[p].pressed = page[p].pressed
<1>1. PICK new : new = [puts |-> RemoveAt(page[p].puts, n)]
  OBVIOUS
<1>2. Becomes(p, new) /\ UNCHANGED server /\ UNCHANGED bounds
  BY <1>1 DEF PutFails
<1>3. Only(p) /\ \A x \in Names : page'[p][x] = IF x \in DOMAIN new THEN new[x] ELSE page[p][x]
  BY <1>2, BecomesFits DEF Only
<1>4. /\ page'[p].puts = RemoveAt(page[p].puts, n)
  BY <1>1, <1>3 DEF Names
<1>5. /\ page'[p].screen = page[p].screen /\ page'[p].form = page[p].form
      /\ page'[p].needsRestart = page[p].needsRestart
      /\ page'[p].notice = page[p].notice /\ page'[p].get = page[p].get
      /\ page'[p].read = page[p].read /\ page'[p].command = page[p].command
      /\ page'[p].touched = page[p].touched /\ page'[p].stale = page[p].stale
      /\ page'[p].crossed = page[p].crossed /\ page'[p].raced = page[p].raced
      /\ page'[p].seen = page[p].seen /\ page'[p].pressed = page[p].pressed
  BY <1>1, <1>3 DEF Names
<1>6. PageType(page[p]) /\ ServerType /\ BoundsType
  BY DEF TypeInv, PagesType
<1>7. RemoveAt(page[p].puts, n) \in Seq(FilledPut)
  BY <1>6, Removed DEF PageType
<1>8. PageType(page'[p])
  BY <1>2, <1>3, <1>4, <1>5, <1>6, <1>7 DEF PageType, Only
<1>9. (ServerType /\ BoundsType)'
  BY <1>2, <1>6 DEF ServerType, BoundsType, server, bounds
<1> QED
  BY <1>3, <1>4, <1>5, <1>8, <1>9, TypesKept

LEMMA PressFits ==
  ASSUME TypeInv, NEW p \in Page, NEW c \in {"start", "stop"}, Press(p, c)
  PROVE  /\ Only(p) /\ TypeInv'
         /\ page'[p].command = IF page[p].screen = "connection" THEN "restart" ELSE c
         /\ page'[p].pressed = page[p].seen
         /\ page'[p].screen = page[p].screen /\ page'[p].form = page[p].form
         /\ page'[p].needsRestart = page[p].needsRestart
         /\ page'[p].notice = page[p].notice /\ page'[p].get = page[p].get
         /\ page'[p].read = page[p].read /\ page'[p].puts = page[p].puts
         /\ page'[p].touched = page[p].touched /\ page'[p].stale = page[p].stale
         /\ page'[p].crossed = page[p].crossed /\ page'[p].raced = page[p].raced
         /\ page'[p].seen = page[p].seen
<1>1. PICK new : new = [command |-> IF page[p].screen = "connection" THEN "restart" ELSE c, pressed |-> page[p].seen]
  OBVIOUS
<1>2. Becomes(p, new) /\ UNCHANGED server /\ commands' = commands + 1 /\ UNCHANGED <<visits, edits, submits>> /\ c \in Commands
  BY <1>1 DEF Press, Commands
<1>3. Only(p) /\ \A x \in Names : page'[p][x] = IF x \in DOMAIN new THEN new[x] ELSE page[p][x]
  BY <1>2, BecomesFits DEF Only
<1>4. /\ page'[p].command = IF page[p].screen = "connection" THEN "restart" ELSE c
      /\ page'[p].pressed = page[p].seen
  BY <1>1, <1>3 DEF Names
<1>5. /\ page'[p].screen = page[p].screen /\ page'[p].form = page[p].form
      /\ page'[p].needsRestart = page[p].needsRestart
      /\ page'[p].notice = page[p].notice /\ page'[p].get = page[p].get
      /\ page'[p].read = page[p].read /\ page'[p].puts = page[p].puts
      /\ page'[p].touched = page[p].touched /\ page'[p].stale = page[p].stale
      /\ page'[p].crossed = page[p].crossed /\ page'[p].raced = page[p].raced
      /\ page'[p].seen = page[p].seen
  BY <1>1, <1>3 DEF Names
<1>6. PageType(page[p]) /\ ServerType /\ BoundsType
  BY DEF TypeInv, PagesType
<1>7. (IF page[p].screen = "connection" THEN "restart" ELSE c) \in Commands
  BY <1>2 DEF Commands
<1>8. PageType(page'[p])
  BY <1>2, <1>3, <1>4, <1>5, <1>6, <1>7 DEF PageType, Only
<1>9. (ServerType /\ BoundsType)'
  BY <1>2, <1>6 DEF ServerType, BoundsType, server
<1> QED
  BY <1>3, <1>4, <1>5, <1>8, <1>9, TypesKept

LEMMA AnswerStopFits ==
  ASSUME TypeInv, NEW p \in Page, AnswerStop(p)
  PROVE  /\ Only(p) /\ TypeInv'
         /\ page'[p].command = IF page[p].command = "restart" THEN "stopped" ELSE "ended"
         /\ page'[p].screen = page[p].screen /\ page'[p].form = page[p].form
         /\ page'[p].needsRestart = page[p].needsRestart
         /\ page'[p].notice = page[p].notice /\ page'[p].get = page[p].get
         /\ page'[p].read = page[p].read /\ page'[p].puts = page[p].puts
         /\ page'[p].touched = page[p].touched /\ page'[p].stale = page[p].stale
         /\ page'[p].crossed = page[p].crossed /\ page'[p].raced = page[p].raced
         /\ page'[p].seen = page[p].seen /\ page'[p].pressed = page[p].pressed
<1>1. PICK new : new = [command |-> IF page[p].command = "restart" THEN "stopped" ELSE "ended"]
  OBVIOUS
<1>2. Becomes(p, new) /\ UNCHANGED <<row, version, active>> /\ UNCHANGED bounds /\ running' = FALSE
  BY <1>1 DEF AnswerStop
<1>3. Only(p) /\ \A x \in Names : page'[p][x] = IF x \in DOMAIN new THEN new[x] ELSE page[p][x]
  BY <1>2, BecomesFits DEF Only
<1>4. /\ page'[p].command = IF page[p].command = "restart" THEN "stopped" ELSE "ended"
  BY <1>1, <1>3 DEF Names
<1>5. /\ page'[p].screen = page[p].screen /\ page'[p].form = page[p].form
      /\ page'[p].needsRestart = page[p].needsRestart
      /\ page'[p].notice = page[p].notice /\ page'[p].get = page[p].get
      /\ page'[p].read = page[p].read /\ page'[p].puts = page[p].puts
      /\ page'[p].touched = page[p].touched /\ page'[p].stale = page[p].stale
      /\ page'[p].crossed = page[p].crossed /\ page'[p].raced = page[p].raced
      /\ page'[p].seen = page[p].seen /\ page'[p].pressed = page[p].pressed
  BY <1>1, <1>3 DEF Names
<1>6. PageType(page[p]) /\ ServerType /\ BoundsType
  BY DEF TypeInv, PagesType
<1>7. (IF page[p].command = "restart" THEN "stopped" ELSE "ended") \in Commands
  BY DEF Commands
<1>8. PageType(page'[p])
  BY <1>2, <1>3, <1>4, <1>5, <1>6, <1>7 DEF PageType, Only
<1>9. (ServerType /\ BoundsType)'
  BY <1>2, <1>6 DEF ServerType, BoundsType, bounds
<1> QED
  BY <1>3, <1>4, <1>5, <1>8, <1>9, TypesKept

LEMMA StopArrivesFits ==
  ASSUME TypeInv, NEW p \in Page, StopArrives(p)
  PROVE  /\ Only(p) /\ TypeInv'
         /\ page'[p].command = "start"
         /\ page'[p].screen = page[p].screen /\ page'[p].form = page[p].form
         /\ page'[p].needsRestart = page[p].needsRestart
         /\ page'[p].notice = page[p].notice /\ page'[p].get = page[p].get
         /\ page'[p].read = page[p].read /\ page'[p].puts = page[p].puts
         /\ page'[p].touched = page[p].touched /\ page'[p].stale = page[p].stale
         /\ page'[p].crossed = page[p].crossed /\ page'[p].raced = page[p].raced
         /\ page'[p].seen = page[p].seen /\ page'[p].pressed = page[p].pressed
<1>1. PICK new : new = [command |-> "start"]
  OBVIOUS
<1>2. Becomes(p, new) /\ UNCHANGED server /\ UNCHANGED bounds
  BY <1>1 DEF StopArrives
<1>3. Only(p) /\ \A x \in Names : page'[p][x] = IF x \in DOMAIN new THEN new[x] ELSE page[p][x]
  BY <1>2, BecomesFits DEF Only
<1>4. /\ page'[p].command = "start"
  BY <1>1, <1>3 DEF Names
<1>5. /\ page'[p].screen = page[p].screen /\ page'[p].form = page[p].form
      /\ page'[p].needsRestart = page[p].needsRestart
      /\ page'[p].notice = page[p].notice /\ page'[p].get = page[p].get
      /\ page'[p].read = page[p].read /\ page'[p].puts = page[p].puts
      /\ page'[p].touched = page[p].touched /\ page'[p].stale = page[p].stale
      /\ page'[p].crossed = page[p].crossed /\ page'[p].raced = page[p].raced
      /\ page'[p].seen = page[p].seen /\ page'[p].pressed = page[p].pressed
  BY <1>1, <1>3 DEF Names
<1>6. PageType(page[p]) /\ ServerType /\ BoundsType
  BY DEF TypeInv, PagesType
<1>7. "start" \in Commands
  BY DEF Commands
<1>8. PageType(page'[p])
  BY <1>2, <1>3, <1>4, <1>5, <1>6, <1>7 DEF PageType, Only
<1>9. (ServerType /\ BoundsType)'
  BY <1>2, <1>6 DEF ServerType, BoundsType, server, bounds
<1> QED
  BY <1>3, <1>4, <1>5, <1>8, <1>9, TypesKept

LEMMA AnswerStartFits ==
  ASSUME TypeInv, NEW p \in Page, NEW ok \in BOOLEAN, AnswerStart(p, ok)
  PROVE  /\ Only(p) /\ TypeInv'
         /\ page'[p].command = IF ok THEN "started" ELSE "refused"
         /\ page'[p].screen = page[p].screen /\ page'[p].form = page[p].form
         /\ page'[p].needsRestart = page[p].needsRestart
         /\ page'[p].notice = page[p].notice /\ page'[p].get = page[p].get
         /\ page'[p].read = page[p].read /\ page'[p].puts = page[p].puts
         /\ page'[p].touched = page[p].touched /\ page'[p].stale = page[p].stale
         /\ page'[p].crossed = page[p].crossed /\ page'[p].raced = page[p].raced
         /\ page'[p].seen = page[p].seen /\ page'[p].pressed = page[p].pressed
<1>1. PICK new : new = [command |-> IF ok THEN "started" ELSE "refused"]
  OBVIOUS
<1>2. Becomes(p, new) /\ UNCHANGED <<row, version>> /\ UNCHANGED bounds /\ running' = TRUE /\ active' = Profile
  BY <1>1 DEF AnswerStart
<1>3. Only(p) /\ \A x \in Names : page'[p][x] = IF x \in DOMAIN new THEN new[x] ELSE page[p][x]
  BY <1>2, BecomesFits DEF Only
<1>4. /\ page'[p].command = IF ok THEN "started" ELSE "refused"
  BY <1>1, <1>3 DEF Names
<1>5. /\ page'[p].screen = page[p].screen /\ page'[p].form = page[p].form
      /\ page'[p].needsRestart = page[p].needsRestart
      /\ page'[p].notice = page[p].notice /\ page'[p].get = page[p].get
      /\ page'[p].read = page[p].read /\ page'[p].puts = page[p].puts
      /\ page'[p].touched = page[p].touched /\ page'[p].stale = page[p].stale
      /\ page'[p].crossed = page[p].crossed /\ page'[p].raced = page[p].raced
      /\ page'[p].seen = page[p].seen /\ page'[p].pressed = page[p].pressed
  BY <1>1, <1>3 DEF Names
<1>6. PageType(page[p]) /\ ServerType /\ BoundsType
  BY DEF TypeInv, PagesType
<1>7. (IF ok THEN "started" ELSE "refused") \in Commands
  BY DEF Commands
<1>8. PageType(page'[p])
  BY <1>2, <1>3, <1>4, <1>5, <1>6, <1>7 DEF PageType, Only
<1>9. (ServerType /\ BoundsType)'
  BY <1>2, <1>6 DEF ServerType, BoundsType, Profile, Kind, bounds
<1> QED
  BY <1>3, <1>4, <1>5, <1>8, <1>9, TypesKept

LEMMA CommandFailsFits ==
  ASSUME TypeInv, NEW p \in Page, CommandFails(p)
  PROVE  /\ Only(p) /\ TypeInv'
         /\ page'[p].command = "none"
         /\ page'[p].screen = page[p].screen /\ page'[p].form = page[p].form
         /\ page'[p].needsRestart = page[p].needsRestart
         /\ page'[p].notice = page[p].notice /\ page'[p].get = page[p].get
         /\ page'[p].read = page[p].read /\ page'[p].puts = page[p].puts
         /\ page'[p].touched = page[p].touched /\ page'[p].stale = page[p].stale
         /\ page'[p].crossed = page[p].crossed /\ page'[p].raced = page[p].raced
         /\ page'[p].seen = page[p].seen /\ page'[p].pressed = page[p].pressed
<1>1. PICK new : new = [command |-> "none", needsRestart |-> page[p].needsRestart]
  OBVIOUS
<1>2. Becomes(p, new) /\ UNCHANGED server /\ UNCHANGED bounds
  BY <1>1 DEF CommandFails, Hint
<1>3. Only(p) /\ \A x \in Names : page'[p][x] = IF x \in DOMAIN new THEN new[x] ELSE page[p][x]
  BY <1>2, BecomesFits DEF Only
<1>4. /\ page'[p].command = "none"
  BY <1>1, <1>3 DEF Names
<1>5. /\ page'[p].screen = page[p].screen /\ page'[p].form = page[p].form
      /\ page'[p].needsRestart = page[p].needsRestart
      /\ page'[p].notice = page[p].notice /\ page'[p].get = page[p].get
      /\ page'[p].read = page[p].read /\ page'[p].puts = page[p].puts
      /\ page'[p].touched = page[p].touched /\ page'[p].stale = page[p].stale
      /\ page'[p].crossed = page[p].crossed /\ page'[p].raced = page[p].raced
      /\ page'[p].seen = page[p].seen /\ page'[p].pressed = page[p].pressed
  BY <1>1, <1>3 DEF Names
<1>6. PageType(page[p]) /\ ServerType /\ BoundsType
  BY DEF TypeInv, PagesType
<1>7. "none" \in Commands
  BY DEF Commands
<1>8. PageType(page'[p])
  BY <1>2, <1>3, <1>4, <1>5, <1>6, <1>7 DEF PageType, Only
<1>9. (ServerType /\ BoundsType)'
  BY <1>2, <1>6 DEF ServerType, BoundsType, server, bounds
<1> QED
  BY <1>3, <1>4, <1>5, <1>8, <1>9, TypesKept

LEMMA CommandEndsFits ==
  ASSUME TypeInv, NEW p \in Page, CommandEnds(p)
  PROVE  /\ Only(p) /\ TypeInv' /\ page[p].command \in {"started", "ended"} /\ UNCHANGED server
         /\ page'[p].command = "none"
         /\ page[p].screen = "connection" =>
              page'[p].needsRestart = FALSE /\ page'[p].notice = "restarted"
         /\ page[p].screen # "connection" =>
              page'[p].needsRestart = page[p].needsRestart /\ page'[p].notice = page[p].notice
         /\ page'[p].screen = page[p].screen /\ page'[p].form = page[p].form
         /\ page'[p].get = page[p].get /\ page'[p].read = page[p].read
         /\ page'[p].puts = page[p].puts /\ page'[p].touched = page[p].touched
         /\ page'[p].stale = page[p].stale /\ page'[p].crossed = page[p].crossed
         /\ page'[p].raced = page[p].raced /\ page'[p].seen = page[p].seen
         /\ page'[p].pressed = page[p].pressed
<1>1. PICK new : new = IF page[p].screen = "connection"
                       THEN [command |-> "none", needsRestart |-> FALSE, notice |-> "restarted"]
                       ELSE [command |-> "none"]
  OBVIOUS
<1>2. /\ Becomes(p, new) /\ UNCHANGED server /\ UNCHANGED bounds
      /\ page[p].command \in {"started", "ended"}
  BY <1>1 DEF CommandEnds
<1>3. Only(p) /\ \A x \in Names : page'[p][x] = IF x \in DOMAIN new THEN new[x] ELSE page[p][x]
  BY <1>2, BecomesFits DEF Only
<1>4. /\ page'[p].command = "none"
      /\ page[p].screen = "connection" =>
           page'[p].needsRestart = FALSE /\ page'[p].notice = "restarted"
      /\ page[p].screen # "connection" =>
           page'[p].needsRestart = page[p].needsRestart /\ page'[p].notice = page[p].notice
  BY <1>1, <1>3 DEF Names
<1>5. /\ page'[p].screen = page[p].screen /\ page'[p].form = page[p].form
      /\ page'[p].get = page[p].get /\ page'[p].read = page[p].read
      /\ page'[p].puts = page[p].puts /\ page'[p].touched = page[p].touched
      /\ page'[p].stale = page[p].stale /\ page'[p].crossed = page[p].crossed
      /\ page'[p].raced = page[p].raced /\ page'[p].seen = page[p].seen
      /\ page'[p].pressed = page[p].pressed
  <2>1. CASE page[p].screen = "connection"
    BY <1>1, <1>3, <2>1 DEF Names
  <2>2. CASE page[p].screen # "connection"
    BY <1>1, <1>3, <2>2 DEF Names
  <2> QED
    BY <2>1, <2>2
<1>6. PageType(page[p]) /\ ServerType /\ BoundsType
  BY DEF TypeInv, PagesType
<1>7. "none" \in Commands
  BY DEF Commands
<1>8. page'[p].needsRestart \in BOOLEAN /\ page'[p].notice \in {"none", "saved", "restarted"}
  BY <1>4, <1>6 DEF PageType
<1>9. PageType(page'[p])
  BY <1>3, <1>4, <1>5, <1>6, <1>7, <1>8 DEF PageType, Only
<1>10. (ServerType /\ BoundsType)'
  BY <1>2, <1>6 DEF ServerType, BoundsType, server, bounds
<1> QED
  BY <1>2, <1>3, <1>4, <1>5, <1>9, <1>10, TypesKept

LEMMA PutArrivesFits ==
  ASSUME TypeInv, NEW p \in Page, NEW n \in DOMAIN page[p].puts, PutArrives(p, n)
  PROVE  \E put \in FilledPut :
           /\ put = page[p].puts[n] /\ put.at = "answered"
           /\ Only(p) /\ TypeInv' /\ UNCHANGED server
           /\ page'[p].puts = RemoveAt(page[p].puts, n)
           /\ page[p].screen # "none" =>
                /\ page'[p].form = put.values /\ page'[p].touched = {} /\ page'[p].notice = "saved"
                /\ page'[p].seen = Max({page[p].seen, put.version})
                /\ page'[p].needsRestart = (page[p].screen = "connection" /\ put.running)
           /\ page[p].screen = "none" =>
                /\ page'[p].form = page[p].form /\ page'[p].touched = page[p].touched
                /\ page'[p].notice = page[p].notice /\ page'[p].seen = page[p].seen
                /\ page'[p].needsRestart = page[p].needsRestart
           /\ page'[p].screen = page[p].screen /\ page'[p].get = page[p].get
           /\ page'[p].read = page[p].read /\ page'[p].command = page[p].command
           /\ page'[p].stale = page[p].stale /\ page'[p].crossed = page[p].crossed
           /\ page'[p].raced = page[p].raced /\ page'[p].pressed = page[p].pressed
<1>1. PICK put : put = page[p].puts[n]
  OBVIOUS
<1>2. PICK new :
        new = IF page[p].screen = "none" THEN [puts |-> RemoveAt(page[p].puts, n)]
              ELSE [puts |-> RemoveAt(page[p].puts, n), form |-> put.values, touched |-> {},
                    seen |-> Max({page[p].seen, put.version}),
                    needsRestart |-> page[p].screen = "connection" /\ put.running,
                    notice |-> "saved"]
  OBVIOUS
<1>3. Becomes(p, new) /\ UNCHANGED server /\ UNCHANGED bounds /\ put.at = "answered"
  BY <1>1, <1>2 DEF PutArrives
<1>4. Only(p) /\ \A x \in Names : page'[p][x] = IF x \in DOMAIN new THEN new[x] ELSE page[p][x]
  BY <1>3, BecomesFits DEF Only
<1>5. page[p].screen # "none" =>
        /\ page'[p].form = put.values /\ page'[p].touched = {} /\ page'[p].notice = "saved"
        /\ page'[p].seen = Max({page[p].seen, put.version})
        /\ page'[p].needsRestart = (page[p].screen = "connection" /\ put.running)
  <2> SUFFICES ASSUME page[p].screen # "none"
               PROVE  /\ page'[p].form = put.values /\ page'[p].touched = {} /\ page'[p].notice = "saved"
                      /\ page'[p].seen = Max({page[p].seen, put.version})
                      /\ page'[p].needsRestart = (page[p].screen = "connection" /\ put.running)
    OBVIOUS
  <2>1. new = [puts |-> RemoveAt(page[p].puts, n), form |-> put.values, touched |-> {},
               seen |-> Max({page[p].seen, put.version}),
               needsRestart |-> page[p].screen = "connection" /\ put.running,
               notice |-> "saved"]
    BY <1>2
  <2> QED
    BY <1>4, <2>1 DEF Names
<1>6. page[p].screen = "none" =>
        /\ page'[p].form = page[p].form /\ page'[p].touched = page[p].touched
        /\ page'[p].notice = page[p].notice /\ page'[p].seen = page[p].seen
        /\ page'[p].needsRestart = page[p].needsRestart
  BY <1>2, <1>4 DEF Names
<1>7. /\ page'[p].puts = RemoveAt(page[p].puts, n)
      /\ page'[p].screen = page[p].screen /\ page'[p].get = page[p].get
      /\ page'[p].read = page[p].read /\ page'[p].command = page[p].command
      /\ page'[p].stale = page[p].stale /\ page'[p].crossed = page[p].crossed
      /\ page'[p].raced = page[p].raced /\ page'[p].pressed = page[p].pressed
  <2>1. CASE page[p].screen = "none"
    BY <1>2, <1>4, <2>1 DEF Names
  <2>2. CASE page[p].screen # "none"
    BY <1>2, <1>4, <2>2 DEF Names
  <2> QED
    BY <2>1, <2>2
<1>8. PageType(page[p]) /\ ServerType /\ BoundsType
  BY DEF TypeInv, PagesType
<1>9. put \in FilledPut /\ RemoveAt(page[p].puts, n) \in Seq(FilledPut)
  BY <1>1, <1>8, Removed, FilledPuts DEF PageType
<1>10. /\ page'[p].form \in Filled /\ page'[p].touched \subseteq Field
       /\ page'[p].notice \in {"none", "saved", "restarted"} /\ page'[p].needsRestart \in BOOLEAN
  BY <1>5, <1>6, <1>8, <1>9 DEF PageType, FilledPut
<1>11. page'[p].seen \in Nat
  <2>1. put.version \in Nat /\ page[p].seen \in Nat
    BY <1>8, <1>9 DEF PageType, FilledPut
  <2>2. Max({page[p].seen, put.version}) \in Nat
    BY <2>1, Greater
  <2> QED
    BY <1>5, <1>6, <2>1, <2>2
<1>12. PageType(page'[p])
  BY <1>4, <1>7, <1>8, <1>9, <1>10, <1>11 DEF PageType, Only
<1>13. (ServerType /\ BoundsType)'
  BY <1>3, <1>8 DEF ServerType, BoundsType, server, bounds
<1>14. TypeInv'
  BY <1>4, <1>12, <1>13, TypesKept
<1> QED
  BY <1>1, <1>3, <1>4, <1>5, <1>6, <1>7, <1>9, <1>14

\* The answer to a save that is handled now.
Answer(put) ==
  [put EXCEPT !.at = "answered", !.values = put.values, !.version = version[put.kind] + 1,
              !.running = running]

\* The save that put is answered, and what that changes.
PutHandled(p, n, put, answer) ==
  /\ put = page[p].puts[n] /\ put.at = "sent" /\ answer.at = "answered"
  /\ answer.kind = put.kind /\ answer.values = put.values /\ answer.typed = put.typed
  /\ answer.version = version[put.kind] + 1 /\ answer.running = running
  /\ row' = [row EXCEPT ![put.kind] = put.values]
  /\ version' = [version EXCEPT ![put.kind] = version[put.kind] + 1]
  /\ UNCHANGED <<running, active>>
  /\ page'[p].puts = [page[p].puts EXCEPT ![n] = answer]
  /\ page'[p].stale = (page[p].screen = "none")
  /\ page'[p].raced = (page[p].raced \/ (put.kind = "connection" /\ StartDue))
  /\ page'[p].screen = page[p].screen /\ page'[p].form = page[p].form
  /\ page'[p].needsRestart = page[p].needsRestart
  /\ page'[p].notice = page[p].notice /\ page'[p].get = page[p].get
  /\ page'[p].read = page[p].read /\ page'[p].command = page[p].command
  /\ page'[p].touched = page[p].touched /\ page'[p].crossed = page[p].crossed
  /\ page'[p].seen = page[p].seen /\ page'[p].pressed = page[p].pressed
  /\ \A q \in Page : q # p =>
       /\ page'[q].stale = (page[q].stale \/ page[q].screen = put.kind)
       /\ page'[q].screen = page[q].screen /\ page'[q].form = page[q].form
       /\ page'[q].needsRestart = page[q].needsRestart
       /\ page'[q].notice = page[q].notice /\ page'[q].get = page[q].get
       /\ page'[q].read = page[q].read /\ page'[q].puts = page[q].puts
       /\ page'[q].command = page[q].command
       /\ page'[q].touched = page[q].touched
       /\ page'[q].crossed = page[q].crossed /\ page'[q].raced = page[q].raced
       /\ page'[q].seen = page[q].seen /\ page'[q].pressed = page[q].pressed

LEMMA AnswerPutFits ==
  ASSUME TypeInv, NEW p \in Page, NEW n \in DOMAIN page[p].puts, AnswerPut(p, n)
  PROVE  \E put \in FilledPut, answer \in FilledPut :
           PutHandled(p, n, put, answer) /\ TypeInv'
<1>1. PICK put : put = page[p].puts[n]
  OBVIOUS
<1>2. PICK answer : answer = Answer(put)
  OBVIOUS
<1>3. PageType(page[p]) /\ ServerType /\ BoundsType
  BY DEF TypeInv, PagesType
<1>4. put \in FilledPut
  BY <1>1, <1>3, FilledPuts DEF PageType
<1>5. /\ put.at = "sent" /\ put.values["place"] # Blank
      /\ row' = [row EXCEPT ![put.kind] = put.values]
      /\ version' = [version EXCEPT ![put.kind] = version[put.kind] + 1]
      /\ UNCHANGED <<running, active>> /\ UNCHANGED bounds
  BY <1>1 DEF AnswerPut, Valid, Saved, Written
<1>6. page' = [q \in Page |->
         IF q = p THEN [page[q] EXCEPT !.puts[n] = answer, !.stale = page[q].screen = "none",
                                       !.raced = @ \/ (put.kind = "connection" /\ StartDue)]
         ELSE [page[q] EXCEPT !.stale = @ \/ page[q].screen = put.kind]]
  BY <1>1, <1>2 DEF AnswerPut, Answer, Written
<1>7. /\ answer.at = "answered" /\ answer.kind = put.kind /\ answer.values = put.values
      /\ answer.typed = put.typed /\ answer.version = version[put.kind] + 1
      /\ answer.running = running /\ answer \in FilledPut
  <2>1. PICK v : v = version[put.kind] + 1
    OBVIOUS
  <2>2. v \in Nat /\ running \in BOOLEAN
    BY <1>3, <1>4, <2>1 DEF FilledPut, ServerType
  <2>3. answer = [put EXCEPT !.at = "answered", !.values = put.values, !.version = v,
                             !.running = running]
    BY <1>2, <2>1 DEF Answer
  <2> QED
    BY <1>4, <2>1, <2>2, <2>3 DEF FilledPut
<1>8. PICK r : r = [page[p] EXCEPT !.puts[n] = answer, !.stale = page[p].screen = "none",
                                   !.raced = @ \/ (put.kind = "connection" /\ StartDue)]
  OBVIOUS
<1>9. /\ IsRecord(r) /\ r.puts = [page[p].puts EXCEPT ![n] = answer]
      /\ r.stale = (page[p].screen = "none")
      /\ r.raced = (page[p].raced \/ (put.kind = "connection" /\ StartDue))
      /\ r.screen = page[p].screen /\ r.form = page[p].form
      /\ r.needsRestart = page[p].needsRestart /\ r.notice = page[p].notice
      /\ r.get = page[p].get /\ r.read = page[p].read /\ r.command = page[p].command
      /\ r.touched = page[p].touched /\ r.crossed = page[p].crossed
      /\ r.seen = page[p].seen /\ r.pressed = page[p].pressed
  BY <1>3, <1>8 DEF PageType, IsRecord, Names
<1>10. PageType(r)
  <2>1. [page[p].puts EXCEPT ![n] = answer] \in Seq(FilledPut)
    BY <1>3, <1>7, ExceptSeq DEF PageType
  <2>2. r.stale \in BOOLEAN /\ r.raced \in BOOLEAN
    BY <1>3, <1>9 DEF PageType
  <2> QED
    BY <1>3, <1>9, <2>1, <2>2 DEF PageType
<1>11. page'[p] = r
  BY <1>6, <1>8
<1>12. ASSUME NEW q \in Page, q # p
       PROVE  /\ page'[q].stale = (page[q].stale \/ page[q].screen = put.kind)
              /\ page'[q].screen = page[q].screen /\ page'[q].form = page[q].form
              /\ page'[q].needsRestart = page[q].needsRestart
              /\ page'[q].notice = page[q].notice /\ page'[q].get = page[q].get
              /\ page'[q].read = page[q].read /\ page'[q].puts = page[q].puts
              /\ page'[q].command = page[q].command
              /\ page'[q].touched = page[q].touched
              /\ page'[q].crossed = page[q].crossed /\ page'[q].raced = page[q].raced
              /\ page'[q].seen = page[q].seen /\ page'[q].pressed = page[q].pressed
              /\ PageType(page'[q])
  <2>1. PICK u : u = [page[q] EXCEPT !.stale = @ \/ page[q].screen = put.kind]
    OBVIOUS
  <2>2. page'[q] = u
    BY <1>6, <1>12, <2>1
  <2>3. PageType(page[q])
    BY DEF TypeInv, PagesType
  <2>4. /\ IsRecord(u) /\ u.stale = (page[q].stale \/ page[q].screen = put.kind)
        /\ u.screen = page[q].screen /\ u.form = page[q].form
        /\ u.needsRestart = page[q].needsRestart /\ u.notice = page[q].notice
        /\ u.get = page[q].get /\ u.read = page[q].read /\ u.puts = page[q].puts
        /\ u.command = page[q].command /\ u.touched = page[q].touched
        /\ u.crossed = page[q].crossed /\ u.raced = page[q].raced
        /\ u.seen = page[q].seen /\ u.pressed = page[q].pressed
    BY <2>1, <2>3 DEF PageType, IsRecord, Names
  <2>5. u.stale \in BOOLEAN
    BY <2>3, <2>4 DEF PageType
  <2>6. PageType(u)
    BY <2>3, <2>4, <2>5 DEF PageType
  <2> QED
    BY <2>2, <2>4, <2>6
<1>13. (ServerType /\ BoundsType)'
  <2>1. put.values \in [Field -> Value \ {Blank}] /\ put.kind \in Kind
    BY <1>4, <1>5, FilledValues DEF FilledPut
  <2> QED
    BY <1>3, <1>5, <2>1 DEF ServerType, BoundsType, bounds, Kind
<1>14. TypeInv'
  <2>1. page' = [q \in Page |-> page'[q]]
    BY <1>6
  <2>2. \A q \in Page : PageType(page'[q])
    BY <1>10, <1>11, <1>12
  <2>3. PagesType'
    BY <2>1, <2>2 DEF PagesType, PageType, IsRecord
  <2> QED
    BY <1>13, <2>3 DEF TypeInv
<1>15. PutHandled(p, n, put, answer)
  <2>1. /\ page'[p].puts = [page[p].puts EXCEPT ![n] = answer]
        /\ page'[p].stale = (page[p].screen = "none")
        /\ page'[p].raced = (page[p].raced \/ (put.kind = "connection" /\ StartDue))
        /\ page'[p].screen = page[p].screen /\ page'[p].form = page[p].form
        /\ page'[p].needsRestart = page[p].needsRestart
        /\ page'[p].notice = page[p].notice /\ page'[p].get = page[p].get
        /\ page'[p].read = page[p].read /\ page'[p].command = page[p].command
        /\ page'[p].touched = page[p].touched /\ page'[p].crossed = page[p].crossed
        /\ page'[p].seen = page[p].seen /\ page'[p].pressed = page[p].pressed
    BY <1>9, <1>11
  <2>2. /\ put = page[p].puts[n] /\ put.at = "sent" /\ answer.at = "answered"
        /\ answer.kind = put.kind /\ answer.values = put.values /\ answer.typed = put.typed
        /\ answer.version = version[put.kind] + 1 /\ answer.running = running
        /\ row' = [row EXCEPT ![put.kind] = put.values]
        /\ version' = [version EXCEPT ![put.kind] = version[put.kind] + 1]
        /\ UNCHANGED <<running, active>>
    BY <1>1, <1>5, <1>7
  <2>3. \A q \in Page : q # p =>
          /\ page'[q].stale = (page[q].stale \/ page[q].screen = put.kind)
          /\ page'[q].screen = page[q].screen /\ page'[q].form = page[q].form
          /\ page'[q].needsRestart = page[q].needsRestart
          /\ page'[q].notice = page[q].notice /\ page'[q].get = page[q].get
          /\ page'[q].read = page[q].read /\ page'[q].puts = page[q].puts
          /\ page'[q].command = page[q].command
          /\ page'[q].touched = page[q].touched
          /\ page'[q].crossed = page[q].crossed /\ page'[q].raced = page[q].raced
          /\ page'[q].seen = page[q].seen /\ page'[q].pressed = page[q].pressed
    BY <1>12
  <2> QED
    BY <2>1, <2>2, <2>3, Zenon DEF PutHandled
<1> QED
  BY <1>4, <1>7, <1>14, <1>15, Zenon

LEMMA TypeInitial == Init => TypeInv
<1> SUFFICES ASSUME Init PROVE TypeInv
  OBVIOUS
<1>1. Defaults \in [Field -> Value \ {Blank}]
  BY SettingsAssumption DEF Defaults, Value, Blank, SettingsAssumption
<1>2. ServerType /\ BoundsType
  <2>1. row \in [Kind -> [Field -> Value \ {Blank}]]
    BY <1>1 DEF Init
  <2>2. version = [k \in Kind |-> 0] /\ "connection" \in Kind /\ active = 0
    BY DEF Init, Kind
  <2>3. version \in [Kind -> Nat] /\ active \in 0..version["connection"]
    BY <2>2
  <2> QED
    BY <2>1, <2>3 DEF Init, ServerType, BoundsType
<1>3. PICK r : r = Opened("none")
  OBVIOUS
<1>4. /\ IsRecord(r) /\ r.screen = "none" /\ r.form = DefaultForm("none")
      /\ r.needsRestart = FALSE /\ r.notice = "none" /\ r.get = "done"
      /\ r.read = Defaults /\ r.puts = <<>> /\ r.command = "none" /\ r.touched = {}
      /\ r.stale = TRUE /\ r.crossed = FALSE /\ r.raced = FALSE /\ r.seen = 0 /\ r.pressed = 0
  BY <1>3, OpenedFits DEF Kind
<1>5. Defaults \in Filled /\ DefaultForm("none") \in Filled /\ <<>> \in Seq(FilledPut)
  BY FilledValues, EmptySeq
<1>6. PageType(r)
  <2>1. r.screen \in Kind \cup {"monitor", "none"} /\ r.form \in Filled /\ r.read \in Filled
    BY <1>4, <1>5
  <2>2. /\ r.get \in {"done", "sent", "answered"} /\ r.notice \in {"none", "saved", "restarted"}
        /\ (r.get = "answered" => r.screen \in Kind) /\ (r.get = "sent" => r.screen \in Kind)
    BY <1>4
  <2>3. r.puts \in Seq(FilledPut) /\ r.command \in Commands /\ r.touched \subseteq Field
    BY <1>4, <1>5 DEF Commands
  <2>4. r.needsRestart \in BOOLEAN /\ r.stale \in BOOLEAN /\ r.crossed \in BOOLEAN /\ r.raced \in BOOLEAN
    BY <1>4, Zenon
  <2>5. r.seen \in Nat /\ r.pressed \in Nat
    BY <1>4
  <2> QED
    BY <1>4, <2>1, <2>2, <2>3, <2>4, <2>5 DEF PageType
<1>7. page = [p \in Page |-> r]
  BY <1>3 DEF Init, NoPage
<1>8. PagesType
  BY <1>6, <1>7 DEF PagesType
<1> QED
  BY <1>2, <1>8 DEF TypeInv

LEMMA TypeInductive == TypeInv /\ [Next]_vars => TypeInv'
<1> SUFFICES ASSUME TypeInv, [Next]_vars PROVE TypeInv'
  OBVIOUS
<1>1. CASE UNCHANGED vars
  BY <1>1 DEF vars, server, bounds, TypeInv, ServerType, BoundsType, PagesType, PageType, IsRecord
<1>2. ASSUME NEW p \in Page,
             \/ \E s \in Kind \cup {"monitor"} : Open(p, s)
             \/ Leave(p) \/ AnswerGet(p) \/ GetArrives(p) \/ GetFails(p)
             \/ \E f \in Field : Edit(p, f)
             \/ Submit(p)
      PROVE  TypeInv'
  BY <1>2, OpenFits, LeaveFits, AnswerGetFits, GetArrivesFits, GetFailsFits, EditFits, SubmitFits
<1>3. ASSUME NEW p \in Page, NEW n \in DOMAIN page[p].puts,
             AnswerPut(p, n) \/ PutArrives(p, n) \/ PutFails(p, n)
      PROVE  TypeInv'
  BY <1>3, AnswerPutFits, PutArrivesFits, PutFailsFits
<1>4. ASSUME NEW p \in Page,
             \/ \E c \in {"start", "stop"} : Press(p, c)
             \/ AnswerStop(p) \/ StopArrives(p) \/ CommandEnds(p) \/ CommandFails(p)
             \/ \E ok \in BOOLEAN : AnswerStart(p, ok)
      PROVE  TypeInv'
  BY <1>4, PressFits, AnswerStopFits, StopArrivesFits, CommandEndsFits, CommandFailsFits, AnswerStartFits
<1> QED
  BY <1>1, <1>2, <1>3, <1>4 DEF Next

\* Every form, request and answer has its type, and whatever is typed, saved or
\* crosses on the way, no screen can put a row without a folder into the database.
THEOREM TypeCorrect == Spec => []TypeOK
<1>1. TypeInv => TypeOK
  BY TypesGiveTypeOK
<1> QED
  BY <1>1, TypeInitial, TypeInductive, PTL DEF Spec

-----------------------------------------------------------------------------
(* What the screens, the rows and the requests on their way say of each    *)
(* other.                                                                  *)

Answered(put) == put.at = "answered"

\* It has never had two answers with the row on their way.
Steady(r) == r.screen \in Kind /\ ~r.crossed

\* Nor has another screen saved since it read the row.
Fresh(r) == Steady(r) /\ ~r.stale

\* A screen saves settings of its own kind; a screen that was left is not fresh.
PutsFit(r) ==
  /\ r.screen # "none" => \A n \in DOMAIN r.puts : r.puts[n].kind = r.screen
  /\ r.screen = "none" => r.stale
  /\ Steady(r) => Len(r.puts) <= 1 /\ (r.get # "done" => r.puts = <<>>)
  /\ r.screen = "storage" => Len(r.puts) <= 1

\* Where the row of a fresh screen is: in the answer to GET, in the form but for
\* what was typed since, and in the save but for what was typed before.
FormFits(r) ==
  /\ Fresh(r) /\ r.get = "answered" => r.read = row[r.screen]
  /\ Fresh(r) /\ r.get = "done" => \A f \in Field \ r.touched : r.form[f] = row[r.screen][f]
  /\ Steady(r) => \A n \in DOMAIN r.puts : \A f \in Field \ r.touched :
                    r.puts[n].values[f] = r.form[f]
  /\ Fresh(r) => \A n \in DOMAIN r.puts :
       /\ Answered(r.puts[n]) => r.puts[n].values = row[r.screen]
       /\ ~Answered(r.puts[n]) => \A f \in Field \ r.puts[n].typed :
                                    r.puts[n].values[f] = row[r.screen][f]

\* A save that was answered while the connection was stopped is not newer than
\* the profile it was started with since.
VersionsFit(r) ==
  /\ r.screen = "connection" => r.seen <= Profile /\ r.pressed <= Profile
  /\ \A n \in DOMAIN r.puts : Answered(r.puts[n]) /\ r.puts[n].kind = "connection" =>
       /\ r.puts[n].version <= Profile
       /\ running /\ ~r.puts[n].running => r.puts[n].version <= active
       /\ r.screen = "connection" /\ ~r.crossed => r.seen <= r.puts[n].version

\* The hint, before and after the answer to the start that will take it away.
HintFits(r) ==
  /\ r.screen = "connection" /\ running /\ active < r.seen /\ ~r.raced /\ ~r.crossed
     => r.needsRestart
  /\ r.screen = "connection" => r.command \notin {"stop", "ended"}
  /\ r.screen = "connection" /\ r.command = "started" =>
       /\ r.pressed <= active
       /\ ~r.raced => /\ r.seen <= active
                      /\ \A n \in DOMAIN r.puts :
                           Answered(r.puts[n]) => r.puts[n].version <= active
  /\ r.notice = "restarted" => /\ r.screen = "connection" /\ ~r.needsRestart
                               /\ r.pressed <= active

Good(r) == PutsFit(r) /\ FormFits(r) /\ VersionsFit(r) /\ HintFits(r)

SettingsInv == TypeInv /\ \A p \in Page : Good(page[p])

LEMMA PageFacts ==
  ASSUME SettingsInv, NEW p \in Page
  PROVE  /\ TypeInv /\ ServerType /\ PageType(page[p]) /\ Good(page[p])
         /\ Len(page[p].puts) \in Nat /\ DOMAIN page[p].puts = 1..Len(page[p].puts)
         /\ \A n \in DOMAIN page[p].puts : page[p].puts[n] \in FilledPut
         /\ Profile \in Nat /\ active \in Nat /\ active <= Profile
         /\ row["connection"] \in Filled /\ row["storage"] \in Filled
<1>1. TypeInv /\ ServerType /\ PageType(page[p]) /\ Good(page[p])
  BY DEF SettingsInv, TypeInv, PagesType
<1>2. Profile \in Nat /\ active \in Nat /\ active <= Profile
  BY <1>1 DEF ServerType, Profile, Kind
<1>3. row["connection"] \in Filled /\ row["storage"] \in Filled
  BY <1>1, FilledValues DEF ServerType, Kind
<1> QED
  BY <1>1, <1>2, <1>3, FilledPuts DEF PageType

LEMMA Elsewhere ==
  ASSUME SettingsInv, NEW p \in Page, Only(p), UNCHANGED server
  PROVE  \A q \in Page : q # p => Good(page[q])'
<1> SUFFICES ASSUME NEW q \in Page, q # p PROVE Good(page[q])'
  OBVIOUS
<1>1. PICK r : r = page[q]
  OBVIOUS
<1>2. Good(r) /\ page'[q] = r
  BY <1>1 DEF SettingsInv, Only
<1>3. row' = row /\ version' = version /\ running' = running /\ active' = active
  BY DEF server
<1>4. PutsFit(r) /\ FormFits(r) /\ VersionsFit(r) /\ HintFits(r)
  BY <1>2 DEF Good
<1>5. PutsFit(page[q])'
  BY <1>2, <1>4 DEF PutsFit, Steady
<1>6. FormFits(page[q])'
  BY <1>2, <1>3, <1>4 DEF FormFits, Fresh, Steady, Answered
<1>7. VersionsFit(page[q])'
  BY <1>2, <1>3, <1>4 DEF VersionsFit, Profile, Answered
<1>8. HintFits(page[q])'
  BY <1>2, <1>3, <1>4 DEF HintFits, Answered
<1> QED
  BY <1>5, <1>6, <1>7, <1>8 DEF Good

LEMMA OpenKeeps ==
  ASSUME SettingsInv, NEW p \in Page, NEW s \in Kind \cup {"monitor"}, Open(p, s)
  PROVE  Good(page[p])'
<1>1. TypeInv /\ Profile \in Nat /\ active \in Nat
  BY PageFacts
<1>2. UNCHANGED server /\ page'[p] = Opened(s)
  BY <1>1, OpenFits DEF Open
<1>3. row' = row /\ version' = version /\ running' = running /\ active' = active
  BY <1>2 DEF server
<1>4. /\ page'[p].screen = s /\ page'[p].notice = "none" /\ page'[p].puts = <<>>
      /\ page'[p].command = "none" /\ page'[p].stale = TRUE
      /\ page'[p].seen = 0 /\ page'[p].pressed = 0
  <2>1. PICK r : r = Opened(s)
    OBVIOUS
  <2>2. /\ r.screen = s /\ r.notice = "none" /\ r.puts = <<>> /\ r.command = "none"
        /\ r.stale = TRUE /\ r.seen = 0 /\ r.pressed = 0
    BY <2>1, OpenedFits
  <2> QED
    BY <1>2, <2>1, <2>2
<1>5. DOMAIN page'[p].puts = {} /\ Len(page'[p].puts) = 0 /\ s # "none"
  BY <1>4 DEF Kind
<1>6. PutsFit(page[p])'
  BY <1>4, <1>5 DEF PutsFit
<1>7. FormFits(page[p])'
  BY <1>4, <1>5 DEF FormFits, Fresh
<1>8. VersionsFit(page[p])'
  BY <1>1, <1>3, <1>4, <1>5 DEF VersionsFit, Profile
<1>9. HintFits(page[p])'
  BY <1>1, <1>3, <1>4, <1>5 DEF HintFits
<1> QED
  BY <1>6, <1>7, <1>8, <1>9 DEF Good

LEMMA LeaveKeeps ==
  ASSUME SettingsInv, NEW p \in Page, Leave(p)
  PROVE  Good(page[p])'
<1>1. TypeInv /\ Good(page[p])
  BY PageFacts
<1>2. row' = row /\ version' = version /\ running' = running /\ active' = active
  BY DEF Leave, server
<1>3. /\ page'[p].screen = "none" /\ page'[p].notice = "none" /\ page'[p].stale = TRUE
      /\ page'[p].puts = page[p].puts
  BY <1>1, LeaveFits
<1>4. PutsFit(page[p])'
  BY <1>3 DEF PutsFit, Steady, Kind
<1>5. FormFits(page[p])'
  BY <1>3 DEF FormFits, Fresh, Steady, Kind
<1>6. VersionsFit(page[p])'
  BY <1>1, <1>2, <1>3 DEF Good, VersionsFit, Profile
<1>7. HintFits(page[p])'
  BY <1>3 DEF HintFits
<1> QED
  BY <1>4, <1>5, <1>6, <1>7 DEF Good

LEMMA AnswerGetKeeps ==
  ASSUME SettingsInv, NEW p \in Page, AnswerGet(p)
  PROVE  Good(page[p])'
<1>1. /\ TypeInv /\ PutsFit(page[p]) /\ FormFits(page[p]) /\ VersionsFit(page[p])
      /\ HintFits(page[p]) /\ PageType(page[p]) /\ Profile \in Nat /\ active \in Nat
      /\ Len(page[p].puts) \in Nat /\ DOMAIN page[p].puts = 1..Len(page[p].puts)
  BY PageFacts DEF Good
<1>2. row' = row /\ version' = version /\ running' = running /\ active' = active
  BY DEF AnswerGet, server
<1>3. /\ page'[p].get = "answered" /\ page'[p].read = row[page[p].screen]
      /\ page'[p].stale = FALSE
      /\ page'[p].screen = page[p].screen /\ page'[p].form = page[p].form
      /\ page'[p].needsRestart = page[p].needsRestart
      /\ page'[p].notice = page[p].notice /\ page'[p].puts = page[p].puts
      /\ page'[p].command = page[p].command /\ page'[p].touched = page[p].touched
      /\ page'[p].crossed = page[p].crossed /\ page'[p].raced = page[p].raced
      /\ page'[p].seen = page[p].seen /\ page'[p].pressed = page[p].pressed
  BY <1>1, AnswerGetFits
<1>4. page[p].get = "sent"
  BY DEF AnswerGet
<1>5. PutsFit(page[p])'
  BY <1>1, <1>3, <1>4 DEF PutsFit, Steady, PageType, Kind
<1>6. FormFits(page[p])'
  BY <1>1, <1>2, <1>3, <1>4 DEF FormFits, PutsFit, Fresh, Steady, Answered
<1>7. VersionsFit(page[p])'
  BY <1>1, <1>2, <1>3 DEF VersionsFit, Profile, Answered
<1>8. HintFits(page[p])'
  BY <1>1, <1>2, <1>3 DEF HintFits, Answered
<1> QED
  BY <1>5, <1>6, <1>7, <1>8 DEF Good

LEMMA GetArrivesKeeps ==
  ASSUME SettingsInv, NEW p \in Page, GetArrives(p)
  PROVE  Good(page[p])'
<1>1. /\ TypeInv /\ PutsFit(page[p]) /\ FormFits(page[p]) /\ VersionsFit(page[p])
      /\ HintFits(page[p]) /\ PageType(page[p]) /\ Profile \in Nat /\ active \in Nat
      /\ Len(page[p].puts) \in Nat /\ DOMAIN page[p].puts = 1..Len(page[p].puts)
  BY PageFacts DEF Good
<1>2. row' = row /\ version' = version /\ running' = running /\ active' = active
  BY DEF GetArrives, server
<1>3. /\ page'[p].get = "done" /\ page'[p].read = Defaults
      /\ page'[p].form = page[p].read /\ page'[p].touched = {}
      /\ page'[p].screen = page[p].screen
      /\ page'[p].needsRestart = page[p].needsRestart
      /\ page'[p].notice = page[p].notice /\ page'[p].puts = page[p].puts
      /\ page'[p].command = page[p].command /\ page'[p].stale = page[p].stale
      /\ page'[p].crossed = page[p].crossed /\ page'[p].raced = page[p].raced
      /\ page'[p].seen = page[p].seen /\ page'[p].pressed = page[p].pressed
  BY <1>1, GetArrivesFits
<1>4. page[p].get = "answered"
  BY DEF GetArrives
<1>5. PutsFit(page[p])'
  BY <1>1, <1>3, <1>4 DEF PutsFit, Steady
<1>6. FormFits(page[p])'
  BY <1>1, <1>2, <1>3, <1>4 DEF FormFits, PutsFit, Fresh, Steady, Answered
<1>7. VersionsFit(page[p])'
  BY <1>1, <1>2, <1>3 DEF VersionsFit, Profile, Answered
<1>8. HintFits(page[p])'
  BY <1>1, <1>2, <1>3 DEF HintFits, Answered
<1> QED
  BY <1>5, <1>6, <1>7, <1>8 DEF Good

LEMMA GetFailsKeeps ==
  ASSUME SettingsInv, NEW p \in Page, GetFails(p)
  PROVE  Good(page[p])'
<1>1. /\ TypeInv /\ PutsFit(page[p]) /\ FormFits(page[p]) /\ VersionsFit(page[p])
      /\ HintFits(page[p]) /\ PageType(page[p]) /\ Profile \in Nat /\ active \in Nat
      /\ Len(page[p].puts) \in Nat /\ DOMAIN page[p].puts = 1..Len(page[p].puts)
  BY PageFacts DEF Good
<1>2. row' = row /\ version' = version /\ running' = running /\ active' = active
  BY DEF GetFails, server
<1>3. /\ page'[p].get = "done" /\ page'[p].read = Defaults /\ page'[p].stale = TRUE
      /\ page'[p].screen = page[p].screen /\ page'[p].form = page[p].form
      /\ page'[p].needsRestart = page[p].needsRestart
      /\ page'[p].notice = page[p].notice /\ page'[p].puts = page[p].puts
      /\ page'[p].command = page[p].command /\ page'[p].touched = page[p].touched
      /\ page'[p].crossed = page[p].crossed /\ page'[p].raced = page[p].raced
      /\ page'[p].seen = page[p].seen /\ page'[p].pressed = page[p].pressed
  BY <1>1, GetFailsFits
<1>4. page[p].get # "done"
  BY DEF GetFails
<1>5. PutsFit(page[p])'
  BY <1>1, <1>3, <1>4 DEF PutsFit, Steady
<1>6. FormFits(page[p])'
  BY <1>1, <1>2, <1>3, <1>4 DEF FormFits, PutsFit, Fresh, Steady, Answered
<1>7. VersionsFit(page[p])'
  BY <1>1, <1>2, <1>3 DEF VersionsFit, Profile, Answered
<1>8. HintFits(page[p])'
  BY <1>1, <1>2, <1>3 DEF HintFits, Answered
<1> QED
  BY <1>5, <1>6, <1>7, <1>8 DEF Good

LEMMA EditKeeps ==
  ASSUME SettingsInv, NEW p \in Page, NEW f \in Field, Edit(p, f)
  PROVE  Good(page[p])'
<1>1. /\ TypeInv /\ PutsFit(page[p]) /\ FormFits(page[p]) /\ VersionsFit(page[p])
      /\ HintFits(page[p]) /\ PageType(page[p]) /\ Profile \in Nat /\ active \in Nat
      /\ Len(page[p].puts) \in Nat /\ DOMAIN page[p].puts = 1..Len(page[p].puts)
  BY PageFacts DEF Good
<1>2. row' = row /\ version' = version /\ running' = running /\ active' = active
  BY DEF Edit, server
<1>3. /\ page'[p].form = [page[p].form EXCEPT ![f] = edits + 1]
      /\ page'[p].touched = page[p].touched \cup {f}
      /\ page'[p].screen = page[p].screen
      /\ page'[p].needsRestart = page[p].needsRestart
      /\ page'[p].notice = page[p].notice /\ page'[p].get = page[p].get
      /\ page'[p].read = page[p].read /\ page'[p].puts = page[p].puts
      /\ page'[p].command = page[p].command /\ page'[p].stale = page[p].stale
      /\ page'[p].crossed = page[p].crossed /\ page'[p].raced = page[p].raced
      /\ page'[p].seen = page[p].seen /\ page'[p].pressed = page[p].pressed
  BY <1>1, EditFits
<1>5. PutsFit(page[p])'
  BY <1>1, <1>3 DEF PutsFit, Steady
<1>6. FormFits(page[p])'
  BY <1>1, <1>2, <1>3, SMTT(30) DEF FormFits, PutsFit, Fresh, Steady, Answered, PageType, Filled, Form
<1>7. VersionsFit(page[p])'
  BY <1>1, <1>2, <1>3 DEF VersionsFit, Profile, Answered
<1>8. HintFits(page[p])'
  BY <1>1, <1>2, <1>3 DEF HintFits, Answered
<1> QED
  BY <1>5, <1>6, <1>7, <1>8 DEF Good

LEMMA PressKeeps ==
  ASSUME SettingsInv, NEW p \in Page, NEW c \in {"start", "stop"}, Press(p, c)
  PROVE  Good(page[p])'
<1>1. /\ TypeInv /\ PutsFit(page[p]) /\ FormFits(page[p]) /\ VersionsFit(page[p])
      /\ HintFits(page[p]) /\ PageType(page[p]) /\ Profile \in Nat /\ active \in Nat
      /\ Len(page[p].puts) \in Nat /\ DOMAIN page[p].puts = 1..Len(page[p].puts)
  BY PageFacts DEF Good
<1>2. row' = row /\ version' = version /\ running' = running /\ active' = active
  BY DEF Press, server
<1>3. /\ page'[p].command = IF page[p].screen = "connection" THEN "restart" ELSE c
      /\ page'[p].pressed = page[p].seen
      /\ page'[p].screen = page[p].screen /\ page'[p].form = page[p].form
      /\ page'[p].needsRestart = page[p].needsRestart
      /\ page'[p].notice = page[p].notice /\ page'[p].get = page[p].get
      /\ page'[p].read = page[p].read /\ page'[p].puts = page[p].puts
      /\ page'[p].touched = page[p].touched /\ page'[p].stale = page[p].stale
      /\ page'[p].crossed = page[p].crossed /\ page'[p].raced = page[p].raced
      /\ page'[p].seen = page[p].seen
  BY <1>1, PressFits
<1>4. /\ page[p].screen = "connection" => page[p].needsRestart
      /\ page[p].screen \in {"connection", "monitor"}
  BY DEF Press
<1>5. PutsFit(page[p])'
  BY <1>1, <1>3 DEF PutsFit, Steady
<1>6. FormFits(page[p])'
  BY <1>1, <1>2, <1>3 DEF FormFits, PutsFit, Fresh, Steady, Answered
<1>7. VersionsFit(page[p])'
  BY <1>1, <1>2, <1>3 DEF VersionsFit, Profile, Answered
<1>8. HintFits(page[p])'
  BY <1>1, <1>2, <1>3, <1>4 DEF HintFits, Answered
<1> QED
  BY <1>5, <1>6, <1>7, <1>8 DEF Good

LEMMA StopArrivesKeeps ==
  ASSUME SettingsInv, NEW p \in Page, StopArrives(p)
  PROVE  Good(page[p])'
<1>1. /\ TypeInv /\ PutsFit(page[p]) /\ FormFits(page[p]) /\ VersionsFit(page[p])
      /\ HintFits(page[p]) /\ PageType(page[p]) /\ Profile \in Nat /\ active \in Nat
      /\ Len(page[p].puts) \in Nat /\ DOMAIN page[p].puts = 1..Len(page[p].puts)
  BY PageFacts DEF Good
<1>2. row' = row /\ version' = version /\ running' = running /\ active' = active
  BY DEF StopArrives, server
<1>3. /\ page'[p].command = "start"
      /\ page'[p].screen = page[p].screen /\ page'[p].form = page[p].form
      /\ page'[p].needsRestart = page[p].needsRestart
      /\ page'[p].notice = page[p].notice /\ page'[p].get = page[p].get
      /\ page'[p].read = page[p].read /\ page'[p].puts = page[p].puts
      /\ page'[p].touched = page[p].touched /\ page'[p].stale = page[p].stale
      /\ page'[p].crossed = page[p].crossed /\ page'[p].raced = page[p].raced
      /\ page'[p].seen = page[p].seen /\ page'[p].pressed = page[p].pressed
  BY <1>1, StopArrivesFits
<1>5. PutsFit(page[p])'
  BY <1>1, <1>3 DEF PutsFit, Steady
<1>6. FormFits(page[p])'
  BY <1>1, <1>2, <1>3 DEF FormFits, PutsFit, Fresh, Steady, Answered
<1>7. VersionsFit(page[p])'
  BY <1>1, <1>2, <1>3 DEF VersionsFit, Profile, Answered
<1>8. HintFits(page[p])'
  BY <1>1, <1>2, <1>3 DEF HintFits, Answered
<1> QED
  BY <1>5, <1>6, <1>7, <1>8 DEF Good

LEMMA CommandFailsKeeps ==
  ASSUME SettingsInv, NEW p \in Page, CommandFails(p)
  PROVE  Good(page[p])'
<1>1. /\ TypeInv /\ PutsFit(page[p]) /\ FormFits(page[p]) /\ VersionsFit(page[p])
      /\ HintFits(page[p]) /\ PageType(page[p]) /\ Profile \in Nat /\ active \in Nat
      /\ Len(page[p].puts) \in Nat /\ DOMAIN page[p].puts = 1..Len(page[p].puts)
  BY PageFacts DEF Good
<1>2. row' = row /\ version' = version /\ running' = running /\ active' = active
  BY DEF CommandFails, server
<1>3. /\ page'[p].command = "none"
      /\ page'[p].screen = page[p].screen /\ page'[p].form = page[p].form
      /\ page'[p].needsRestart = page[p].needsRestart
      /\ page'[p].notice = page[p].notice /\ page'[p].get = page[p].get
      /\ page'[p].read = page[p].read /\ page'[p].puts = page[p].puts
      /\ page'[p].touched = page[p].touched /\ page'[p].stale = page[p].stale
      /\ page'[p].crossed = page[p].crossed /\ page'[p].raced = page[p].raced
      /\ page'[p].seen = page[p].seen /\ page'[p].pressed = page[p].pressed
  BY <1>1, CommandFailsFits
<1>5. PutsFit(page[p])'
  BY <1>1, <1>3 DEF PutsFit, Steady
<1>6. FormFits(page[p])'
  BY <1>1, <1>2, <1>3 DEF FormFits, PutsFit, Fresh, Steady, Answered
<1>7. VersionsFit(page[p])'
  BY <1>1, <1>2, <1>3 DEF VersionsFit, Profile, Answered
<1>8. HintFits(page[p])'
  BY <1>1, <1>2, <1>3 DEF HintFits, Answered
<1> QED
  BY <1>5, <1>6, <1>7, <1>8 DEF Good

LEMMA SubmitKeeps ==
  ASSUME SettingsInv, NEW p \in Page, Submit(p)
  PROVE  Good(page[p])'
<1>1. /\ TypeInv /\ PutsFit(page[p]) /\ FormFits(page[p]) /\ VersionsFit(page[p])
      /\ HintFits(page[p]) /\ PageType(page[p]) /\ Profile \in Nat /\ active \in Nat
      /\ Len(page[p].puts) \in Nat /\ DOMAIN page[p].puts = 1..Len(page[p].puts)
      /\ page[p].puts \in Seq(FilledPut) /\ \A i \in DOMAIN page[p].puts : page[p].puts[i] \in FilledPut
  BY PageFacts DEF Good, PageType
<1>2. row' = row /\ version' = version /\ running' = running /\ active' = active
  BY DEF Submit, server
<1>3. PICK put \in FilledPut :
        /\ put = Sent(p) /\ page[p].screen \in Kind
        /\ (page[p].screen = "storage" => page[p].puts = <<>>)
        /\ page'[p].puts = Append(page[p].puts, put) /\ page'[p].notice = "none"
        /\ page'[p].crossed = (\/ page[p].crossed \/ page[p].get # "done"
                               \/ page[p].screen = "connection" /\ page[p].puts # <<>>)
        /\ page'[p].screen = page[p].screen /\ page'[p].form = page[p].form
        /\ page'[p].needsRestart = page[p].needsRestart /\ page'[p].get = page[p].get
        /\ page'[p].read = page[p].read /\ page'[p].command = page[p].command
        /\ page'[p].touched = page[p].touched /\ page'[p].stale = page[p].stale
        /\ page'[p].raced = page[p].raced /\ page'[p].seen = page[p].seen
        /\ page'[p].pressed = page[p].pressed
  BY <1>1, SubmitFits, Zenon
<1>4. put.at = "sent" /\ put.kind = page[p].screen /\ put.values = page[p].form /\ put.typed = page[p].touched
  BY <1>3 DEF Sent
<1>5. PICK s : s = Append(page[p].puts, put)
  OBVIOUS
<1>6. /\ s \in Seq(FilledPut) /\ Len(s) = Len(page[p].puts) + 1
      /\ DOMAIN s = 1..(Len(page[p].puts) + 1)
      /\ \A n \in DOMAIN page[p].puts : s[n] = page[p].puts[n]
      /\ s[Len(page[p].puts) + 1] = put
  BY <1>1, <1>5, AppendProperties, LenProperties
<1>7. \A n \in DOMAIN s : n \in DOMAIN page[p].puts \/ n = Len(page[p].puts) + 1
  BY <1>1, <1>6
<1>8. page'[p].puts = s
  BY <1>3, <1>5
<1>9. (page'[p].screen = "storage" \/ ~page'[p].crossed) =>
        Len(page[p].puts) = 0 /\ (~page'[p].crossed => page[p].get = "done" /\ ~page[p].crossed)
  BY <1>1, <1>3 DEF PageType, Kind
<1>10. PutsFit(page[p])'
  BY <1>1, <1>3, <1>4, <1>6, <1>7, <1>8, <1>9, SMTT(30) DEF PutsFit, Steady
<1>11. FormFits(page[p])'
  <2>1. Fresh(page'[p]) => Fresh(page[p]) /\ page[p].get = "done" /\ page'[p].get = "done"
    BY <1>3, <1>9 DEF Fresh, Steady
  <2>2. Fresh(page[p]) /\ page[p].get = "done" =>
          \A f \in Field \ page[p].touched : page[p].form[f] = row[page[p].screen][f]
    BY <1>1 DEF FormFits
  <2>3. Fresh(page'[p]) =>
          \A f \in Field \ page'[p].touched : page'[p].form[f] = row'[page'[p].screen][f]
    BY <1>2, <1>3, <2>1, <2>2
  <2>4. Steady(page'[p]) => \A n \in DOMAIN s : n = Len(page[p].puts) + 1
    BY <1>1, <1>7, <1>9 DEF Steady
  <2>5. Steady(page'[p]) => \A n \in DOMAIN s : \A f \in Field \ page'[p].touched :
          s[n].values[f] = page'[p].form[f]
    BY <1>3, <1>4, <1>6, <2>4
  <2>6. Fresh(page'[p]) => \A n \in DOMAIN s : /\ ~Answered(s[n])
          /\ \A f \in Field \ s[n].typed : s[n].values[f] = row'[page'[p].screen][f]
    BY <1>2, <1>3, <1>4, <1>6, <2>1, <2>3, <2>4 DEF Fresh, Answered
  <2> QED
    BY <1>8, <2>1, <2>3, <2>5, <2>6 DEF FormFits
<1>12. VersionsFit(page[p])'
  <2>1. \A n \in DOMAIN s : Answered(s[n]) => n \in DOMAIN page[p].puts /\ s[n] = page[p].puts[n]
    BY <1>4, <1>6, <1>7 DEF Answered
  <2>2. ~page'[p].crossed => ~page[p].crossed
    BY <1>3
  <2> QED
    BY <1>1, <1>2, <1>3, <1>8, <2>1, <2>2 DEF VersionsFit, Profile
<1>13. HintFits(page[p])'
  <2>1. \A n \in DOMAIN s : Answered(s[n]) => n \in DOMAIN page[p].puts /\ s[n] = page[p].puts[n]
    BY <1>4, <1>6, <1>7 DEF Answered
  <2>2. ~page'[p].crossed => ~page[p].crossed
    BY <1>3
  <2> QED
    BY <1>1, <1>2, <1>3, <1>8, <2>1, <2>2 DEF HintFits
<1> QED
  BY <1>10, <1>11, <1>12, <1>13 DEF Good

LEMMA PutFailsKeeps ==
  ASSUME SettingsInv, NEW p \in Page, NEW n \in DOMAIN page[p].puts, PutFails(p, n)
  PROVE  Good(page[p])'
<1>1. /\ TypeInv /\ PutsFit(page[p]) /\ FormFits(page[p]) /\ VersionsFit(page[p])
      /\ HintFits(page[p]) /\ PageType(page[p]) /\ Profile \in Nat /\ active \in Nat
      /\ Len(page[p].puts) \in Nat /\ DOMAIN page[p].puts = 1..Len(page[p].puts)
      /\ page[p].puts \in Seq(FilledPut) /\ \A i \in DOMAIN page[p].puts : page[p].puts[i] \in FilledPut
  BY PageFacts DEF Good, PageType
<1>2. row' = row /\ version' = version /\ running' = running /\ active' = active
  BY DEF PutFails, server
<1>3. /\ page'[p].puts = RemoveAt(page[p].puts, n)
      /\ page'[p].screen = page[p].screen /\ page'[p].form = page[p].form
      /\ page'[p].needsRestart = page[p].needsRestart
      /\ page'[p].notice = page[p].notice /\ page'[p].get = page[p].get
      /\ page'[p].read = page[p].read /\ page'[p].command = page[p].command
      /\ page'[p].touched = page[p].touched /\ page'[p].stale = page[p].stale
      /\ page'[p].crossed = page[p].crossed /\ page'[p].raced = page[p].raced
      /\ page'[p].seen = page[p].seen /\ page'[p].pressed = page[p].pressed
  BY <1>1, PutFailsFits
<1>4. PICK s : s = RemoveAt(page[p].puts, n)
  OBVIOUS
<1>5. /\ s \in Seq(FilledPut) /\ Len(s) = Len(page[p].puts) - 1 /\ page'[p].puts = s
      /\ \A i \in DOMAIN s : \E j \in DOMAIN page[p].puts : s[i] = page[p].puts[j]
  <2>1. /\ RemoveAt(page[p].puts, n) \in Seq(FilledPut)
        /\ Len(RemoveAt(page[p].puts, n)) = Len(page[p].puts) - 1
        /\ \A i \in DOMAIN RemoveAt(page[p].puts, n) :
             \E j \in DOMAIN page[p].puts : RemoveAt(page[p].puts, n)[i] = page[p].puts[j]
    BY <1>1, Removed
  <2> QED
    BY <1>3, <1>4, <2>1, Zenon
<1>6. page[p].puts # <<>>
  BY <1>1
<1>7. PutsFit(page[p])'
  BY <1>1, <1>3, <1>5, <1>6, SMTT(30) DEF PutsFit, Steady
<1>8. FormFits(page[p])'
  <2>1. (Steady(page'[p]) <=> Steady(page[p])) /\ (Fresh(page'[p]) <=> Fresh(page[p]))
    BY <1>3 DEF Fresh, Steady
  <2>2. /\ Fresh(page'[p]) /\ page'[p].get = "answered" => page'[p].read = row'[page'[p].screen]
        /\ Fresh(page'[p]) /\ page'[p].get = "done" =>
             \A f \in Field \ page'[p].touched : page'[p].form[f] = row'[page'[p].screen][f]
    BY <1>1, <1>2, <1>3, <2>1 DEF FormFits
  <2>3. ASSUME Steady(page'[p]), NEW i \in DOMAIN s, NEW f \in Field \ page'[p].touched
        PROVE  s[i].values[f] = page'[p].form[f]
    <3>1. PICK j \in DOMAIN page[p].puts : s[i] = page[p].puts[j]
      BY <1>5
    <3>2. page[p].puts[j].values[f] = page[p].form[f]
      BY <1>1, <1>3, <2>1, <2>3 DEF FormFits
    <3> QED
      BY <1>3, <3>1, <3>2
  <2>4. ASSUME Fresh(page'[p]), NEW i \in DOMAIN s
        PROVE  /\ Answered(s[i]) => s[i].values = row'[page'[p].screen]
               /\ ~Answered(s[i]) => \A f \in Field \ s[i].typed :
                                       s[i].values[f] = row'[page'[p].screen][f]
    <3>1. PICK j \in DOMAIN page[p].puts : s[i] = page[p].puts[j]
      BY <1>5
    <3>2. /\ Answered(page[p].puts[j]) => page[p].puts[j].values = row[page[p].screen]
          /\ ~Answered(page[p].puts[j]) =>
               \A f \in Field \ page[p].puts[j].typed :
                 page[p].puts[j].values[f] = row[page[p].screen][f]
      BY <1>1, <2>1, <2>4 DEF FormFits
    <3> QED
      BY <1>2, <1>3, <3>1, <3>2
  <2> QED
    BY <1>5, <2>2, <2>3, <2>4 DEF FormFits
<1>9. VersionsFit(page[p])'
  BY <1>1, <1>2, <1>3, <1>5 DEF VersionsFit, Profile, Answered
<1>10. HintFits(page[p])'
  BY <1>1, <1>2, <1>3, <1>5 DEF HintFits, Answered
<1> QED
  BY <1>7, <1>8, <1>9, <1>10 DEF Good

LEMMA CommandEndsKeeps ==
  ASSUME SettingsInv, NEW p \in Page, CommandEnds(p)
  PROVE  Good(page[p])'
<1>1. /\ TypeInv /\ PutsFit(page[p]) /\ FormFits(page[p]) /\ VersionsFit(page[p])
      /\ HintFits(page[p]) /\ PageType(page[p]) /\ Profile \in Nat /\ active \in Nat
      /\ Len(page[p].puts) \in Nat /\ DOMAIN page[p].puts = 1..Len(page[p].puts)
      /\ page[p].puts \in Seq(FilledPut) /\ \A i \in DOMAIN page[p].puts : page[p].puts[i] \in FilledPut
  BY PageFacts DEF Good, PageType
<1>2. row' = row /\ version' = version /\ running' = running /\ active' = active
  BY DEF CommandEnds, server
<1>3. /\ page'[p].command = "none" /\ page[p].command \in {"started", "ended"}
      /\ page[p].screen = "connection" =>
           page'[p].needsRestart = FALSE /\ page'[p].notice = "restarted"
      /\ page[p].screen # "connection" =>
           page'[p].needsRestart = page[p].needsRestart /\ page'[p].notice = page[p].notice
      /\ page'[p].screen = page[p].screen /\ page'[p].form = page[p].form
      /\ page'[p].get = page[p].get /\ page'[p].read = page[p].read
      /\ page'[p].puts = page[p].puts /\ page'[p].touched = page[p].touched
      /\ page'[p].stale = page[p].stale /\ page'[p].crossed = page[p].crossed
      /\ page'[p].raced = page[p].raced /\ page'[p].seen = page[p].seen
      /\ page'[p].pressed = page[p].pressed
  BY <1>1, CommandEndsFits
<1>4. PutsFit(page[p])'
  BY <1>1, <1>3 DEF PutsFit, Steady
<1>5. FormFits(page[p])'
  BY <1>1, <1>2, <1>3 DEF FormFits, Fresh, Steady, Answered
<1>6. VersionsFit(page[p])'
  BY <1>1, <1>2, <1>3 DEF VersionsFit, Profile, Answered
<1>7. HintFits(page[p])'
  <2>1. page[p].screen = "connection" =>
          page[p].pressed <= active /\ (~page[p].raced => page[p].seen <= active)
    BY <1>1, <1>3 DEF HintFits
  <2>2. page[p].seen \in Nat /\ page[p].pressed \in Nat
    BY <1>1 DEF PageType
  <2>3. CASE page[p].screen = "connection"
    BY <1>1, <1>2, <1>3, <2>1, <2>2, <2>3 DEF HintFits
  <2>4. CASE page[p].screen # "connection"
    BY <1>1, <1>2, <1>3, <2>2, <2>4 DEF HintFits
  <2> QED
    BY <2>3, <2>4
<1> QED
  BY <1>4, <1>5, <1>6, <1>7 DEF Good

LEMMA PutArrivesKeeps ==
  ASSUME SettingsInv, NEW p \in Page, NEW n \in DOMAIN page[p].puts, PutArrives(p, n)
  PROVE  Good(page[p])'
<1>1. /\ TypeInv /\ PutsFit(page[p]) /\ FormFits(page[p]) /\ VersionsFit(page[p])
      /\ HintFits(page[p]) /\ PageType(page[p]) /\ Profile \in Nat /\ active \in Nat
      /\ Len(page[p].puts) \in Nat /\ DOMAIN page[p].puts = 1..Len(page[p].puts)
      /\ page[p].puts \in Seq(FilledPut) /\ \A i \in DOMAIN page[p].puts : page[p].puts[i] \in FilledPut
  BY PageFacts DEF Good, PageType
<1>2. row' = row /\ version' = version /\ running' = running /\ active' = active
  BY DEF PutArrives, server
<1>3. PICK put \in FilledPut :
        /\ put = page[p].puts[n] /\ put.at = "answered"
        /\ page'[p].puts = RemoveAt(page[p].puts, n)
        /\ page[p].screen # "none" =>
             /\ page'[p].form = put.values /\ page'[p].touched = {} /\ page'[p].notice = "saved"
             /\ page'[p].seen = Max({page[p].seen, put.version})
             /\ page'[p].needsRestart = (page[p].screen = "connection" /\ put.running)
        /\ page[p].screen = "none" =>
             /\ page'[p].form = page[p].form /\ page'[p].touched = page[p].touched
             /\ page'[p].notice = page[p].notice /\ page'[p].seen = page[p].seen
             /\ page'[p].needsRestart = page[p].needsRestart
        /\ page'[p].screen = page[p].screen /\ page'[p].get = page[p].get
        /\ page'[p].read = page[p].read /\ page'[p].command = page[p].command
        /\ page'[p].stale = page[p].stale /\ page'[p].crossed = page[p].crossed
        /\ page'[p].raced = page[p].raced /\ page'[p].pressed = page[p].pressed
  BY <1>1, PutArrivesFits, Zenon
<1>4. PICK s : s = RemoveAt(page[p].puts, n)
  OBVIOUS
<1>5. /\ s \in Seq(FilledPut) /\ Len(s) = Len(page[p].puts) - 1 /\ page'[p].puts = s
      /\ \A i \in DOMAIN s : \E j \in DOMAIN page[p].puts : s[i] = page[p].puts[j]
  <2>1. /\ RemoveAt(page[p].puts, n) \in Seq(FilledPut)
        /\ Len(RemoveAt(page[p].puts, n)) = Len(page[p].puts) - 1
        /\ \A i \in DOMAIN RemoveAt(page[p].puts, n) :
             \E j \in DOMAIN page[p].puts : RemoveAt(page[p].puts, n)[i] = page[p].puts[j]
    BY <1>1, Removed
  <2> QED
    BY <1>3, <1>4, <2>1, Zenon
<1>6. page[p].puts # <<>> /\ DOMAIN s = 1..Len(s) /\ Len(s) \in Nat
  BY <1>1, <1>5, LenProperties
<1>7. Steady(page'[p]) => Steady(page[p]) /\ Len(s) = 0 /\ DOMAIN s = {} /\ page[p].get = "done"
  <2>1. Steady(page'[p]) => Steady(page[p])
    BY <1>3 DEF Steady
  <2>2. Steady(page[p]) => Len(page[p].puts) <= 1 /\ page[p].get = "done"
    BY <1>1, <1>6 DEF PutsFit
  <2>3. Len(page[p].puts) <= 1 => Len(s) = 0
    <3>1. PICK k : k = Len(s)
      OBVIOUS
    <3>2. PICK l : l = Len(page[p].puts)
      OBVIOUS
    <3>3. k = l - 1 /\ k \in Nat /\ l \in Nat
      BY <1>1, <1>5, <1>6, <3>1, <3>2
    <3>4. l <= 1 => k = 0
      BY <3>3
    <3> QED
      BY <3>1, <3>2, <3>4
  <2>4. Len(s) = 0 => DOMAIN s = {}
    BY <1>6
  <2> QED
    BY <2>1, <2>2, <2>3, <2>4
<1>8. PutsFit(page[p])'
  BY <1>1, <1>3, <1>5, <1>6, <1>7 DEF PutsFit, Steady
<1>9. FormFits(page[p])'
  <2>1. Fresh(page'[p]) => /\ page[p].screen \in Kind /\ page[p].screen # "none" /\ Fresh(page[p])
                           /\ page'[p].get = "done" /\ Steady(page'[p])
    BY <1>3, <1>7 DEF Fresh, Steady, Kind
  <2>2. Fresh(page[p]) => put.values = row[page[p].screen]
    BY <1>1, <1>3 DEF FormFits, Answered
  <2>3. Fresh(page'[p]) => page'[p].form = row'[page'[p].screen]
    BY <1>2, <1>3, <2>1, <2>2
  <2> QED
    BY <1>5, <1>7, <2>1, <2>3 DEF FormFits
<1>10. put.version \in Nat /\ page[p].seen \in Nat /\ page[p].pressed \in Nat
  BY <1>1, <1>3 DEF FilledPut, PageType
<1>11. page[p].screen = "connection" =>
         /\ put.kind = "connection" /\ put.version <= Profile /\ page[p].seen <= Profile
         /\ page[p].pressed <= Profile
         /\ (running /\ ~put.running => put.version <= active)
         /\ (~page[p].crossed => page[p].seen <= put.version)
  BY <1>1, <1>3 DEF PutsFit, VersionsFit, Answered
<1>12. PICK m : m = Max({page[p].seen, put.version})
  OBVIOUS
<1>13. /\ m \in Nat /\ page[p].seen <= m /\ put.version <= m /\ (m = page[p].seen \/ m = put.version)
  BY <1>10, <1>12, Greater
<1>14. page[p].screen # "none" => page'[p].seen = m
  BY <1>3, <1>12
<1>15. VersionsFit(page[p])'
  <2>1. page'[p].screen = "connection" => page'[p].seen <= Profile /\ page'[p].pressed <= Profile
    BY <1>1, <1>3, <1>10, <1>11, <1>13, <1>14
  <2>2. Profile' = Profile
    BY <1>2 DEF Profile
  <2>3. page'[p].screen = "connection" /\ ~page'[p].crossed => DOMAIN s = {}
    BY <1>3, <1>7 DEF Steady, Kind
  <2>4. ASSUME NEW i \in DOMAIN s, Answered(s[i]), s[i].kind = "connection"
        PROVE  /\ s[i].version <= Profile
               /\ running /\ ~s[i].running => s[i].version <= active
    <3>1. PICK j \in DOMAIN page[p].puts : s[i] = page[p].puts[j]
      BY <1>5
    <3> QED
      BY <1>1, <2>4, <3>1 DEF VersionsFit
  <2> QED
    BY <1>2, <1>5, <2>1, <2>2, <2>3, <2>4 DEF VersionsFit
<1>16. HintFits(page[p])'
  <2>1. CASE page[p].screen = "connection"
    <3>1. /\ page'[p].seen = m /\ page'[p].notice = "saved"
          /\ page'[p].needsRestart = put.running /\ put.running \in BOOLEAN
      BY <1>3, <1>14, <2>1 DEF FilledPut
    <3>2. running /\ active < m /\ ~page[p].crossed => put.running
      BY <1>1, <1>10, <1>11, <1>13, <2>1, <3>1
    <3>3. page[p].command = "started" /\ ~page[p].raced =>
            page[p].seen <= active /\ put.version <= active
      BY <1>1, <1>3, <2>1 DEF HintFits, Answered
    <3>4. ASSUME page[p].command = "started", ~page[p].raced, NEW i \in DOMAIN s, Answered(s[i])
          PROVE  s[i].version <= active
      <4>1. PICK j \in DOMAIN page[p].puts : s[i] = page[p].puts[j]
        BY <1>5
      <4> QED
        BY <1>1, <2>1, <3>4, <4>1 DEF HintFits
    <3>5. page[p].command = "started" => page[p].pressed <= active
      BY <1>1, <2>1 DEF HintFits
    <3>6. page[p].command \notin {"stop", "ended"}
      BY <1>1, <2>1 DEF HintFits
    <3>7. page[p].command = "started" /\ ~page[p].raced => m <= active
      BY <1>1, <1>10, <1>13, <3>3
    <3> QED
      BY <1>2, <1>3, <1>5, <2>1, <3>1, <3>2, <3>4, <3>5, <3>6, <3>7 DEF HintFits
  <2>2. CASE page[p].screen # "connection"
    <3>1. page'[p].notice # "restarted"
      BY <1>1, <1>3, <2>2 DEF HintFits
    <3> QED
      BY <1>3, <2>2, <3>1 DEF HintFits
  <2> QED
    BY <2>1, <2>2
<1> QED
  BY <1>8, <1>9, <1>15, <1>16 DEF Good

LEMMA AnswerStopKeeps ==
  ASSUME SettingsInv, NEW p \in Page, AnswerStop(p), NEW q \in Page
  PROVE  Good(page[q])'
<1>1. /\ TypeInv /\ PutsFit(page[q]) /\ FormFits(page[q]) /\ VersionsFit(page[q])
      /\ HintFits(page[q]) /\ HintFits(page[p])
  BY PageFacts DEF Good
<1>2. row' = row /\ version' = version /\ running' = FALSE /\ active' = active
  BY DEF AnswerStop
<1>3. /\ q = p => page'[q].command = IF page[p].command = "restart" THEN "stopped" ELSE "ended"
      /\ q # p => page'[q].command = page[q].command
      /\ page'[q].screen = page[q].screen /\ page'[q].form = page[q].form
      /\ page'[q].needsRestart = page[q].needsRestart
      /\ page'[q].notice = page[q].notice /\ page'[q].get = page[q].get
      /\ page'[q].read = page[q].read /\ page'[q].puts = page[q].puts
      /\ page'[q].touched = page[q].touched /\ page'[q].stale = page[q].stale
      /\ page'[q].crossed = page[q].crossed /\ page'[q].raced = page[q].raced
      /\ page'[q].seen = page[q].seen /\ page'[q].pressed = page[q].pressed
  BY <1>1, AnswerStopFits DEF Only
<1>4. page[p].command \in {"restart", "stop"}
  BY DEF AnswerStop
<1>5. PutsFit(page[q])'
  BY <1>1, <1>3 DEF PutsFit, Steady
<1>6. FormFits(page[q])'
  BY <1>1, <1>2, <1>3 DEF FormFits, Fresh, Steady, Answered
<1>7. VersionsFit(page[q])'
  BY <1>1, <1>2, <1>3 DEF VersionsFit, Profile, Answered
<1>8. HintFits(page[q])'
  <2>1. page'[q].screen = "connection" => page'[q].command \notin {"stop", "ended"}
    BY <1>1, <1>3, <1>4 DEF HintFits
  <2>2. page'[q].command = "started" => page[q].command = "started"
    BY <1>3
  <2> QED
    BY <1>1, <1>2, <1>3, <2>1, <2>2 DEF HintFits, Answered
<1> QED
  BY <1>5, <1>6, <1>7, <1>8 DEF Good

LEMMA AnswerStartKeeps ==
  ASSUME SettingsInv, NEW p \in Page, NEW ok \in BOOLEAN, AnswerStart(p, ok), NEW q \in Page
  PROVE  Good(page[q])'
<1>1. /\ TypeInv /\ PutsFit(page[q]) /\ FormFits(page[q]) /\ VersionsFit(page[q])
      /\ HintFits(page[q]) /\ PageType(page[q]) /\ Profile \in Nat /\ active \in Nat
      /\ \A n \in DOMAIN page[q].puts : page[q].puts[n] \in FilledPut
  BY PageFacts DEF Good
<1>2. row' = row /\ version' = version /\ running' = TRUE /\ active' = Profile
  BY DEF AnswerStart
<1>3. /\ q = p => page'[q].command \in {"started", "refused"}
      /\ q # p => page'[q].command = page[q].command
      /\ page'[q].screen = page[q].screen /\ page'[q].form = page[q].form
      /\ page'[q].needsRestart = page[q].needsRestart
      /\ page'[q].notice = page[q].notice /\ page'[q].get = page[q].get
      /\ page'[q].read = page[q].read /\ page'[q].puts = page[q].puts
      /\ page'[q].touched = page[q].touched /\ page'[q].stale = page[q].stale
      /\ page'[q].crossed = page[q].crossed /\ page'[q].raced = page[q].raced
      /\ page'[q].seen = page[q].seen /\ page'[q].pressed = page[q].pressed
  BY <1>1, AnswerStartFits DEF Only
<1>4. PutsFit(page[q])'
  BY <1>1, <1>3 DEF PutsFit, Steady
<1>5. FormFits(page[q])'
  BY <1>1, <1>2, <1>3 DEF FormFits, Fresh, Steady, Answered
<1>6. VersionsFit(page[q])'
  BY <1>1, <1>2, <1>3 DEF VersionsFit, Profile, Answered
<1>7. page[q].screen = "connection" =>
        /\ page[q].seen <= active' /\ page[q].pressed <= active'
        /\ \A n \in DOMAIN page[q].puts : Answered(page[q].puts[n]) => page[q].puts[n].version <= active'
  BY <1>1, <1>2 DEF VersionsFit, PutsFit
<1>8. page[q].seen \in Nat /\ page[q].pressed \in Nat
  BY <1>1 DEF PageType
<1>9. ~(page[q].screen = "connection" /\ active' < page[q].seen)
  BY <1>1, <1>2, <1>7, <1>8
<1>10. HintFits(page[q])'
  <2>1. page'[q].screen = "connection" => page'[q].command \notin {"stop", "ended"}
    BY <1>1, <1>3 DEF HintFits
  <2> QED
    BY <1>1, <1>3, <1>7, <1>9, <2>1 DEF HintFits
<1> QED
  BY <1>4, <1>5, <1>6, <1>10 DEF Good

LEMMA AnswerPutElsewhere ==
  ASSUME SettingsInv, NEW p \in Page, NEW n \in DOMAIN page[p].puts, AnswerPut(p, n),
         NEW q \in Page, q # p
  PROVE  Good(page[q])'
<1>1. /\ TypeInv /\ ServerType /\ PutsFit(page[q]) /\ FormFits(page[q]) /\ VersionsFit(page[q])
      /\ HintFits(page[q]) /\ PageType(page[q]) /\ active \in Nat
      /\ \A i \in DOMAIN page[q].puts : page[q].puts[i] \in FilledPut
  BY PageFacts DEF Good
<1>2. PICK put \in FilledPut, answer \in FilledPut : PutHandled(p, n, put, answer)
  BY <1>1, AnswerPutFits
<1>3. /\ put.kind \in Kind
      /\ \A k \in Kind : row'[k] = IF k = put.kind THEN put.values ELSE row[k]
      /\ \A k \in Kind : version'[k] = IF k = put.kind THEN version[k] + 1 ELSE version[k]
      /\ running' = running /\ active' = active
  BY <1>1, <1>2 DEF FilledPut, ServerType, PutHandled
<1>4. Profile \in Nat /\ Profile' \in Nat /\ Profile <= Profile' /\ active \in Nat
      /\ (put.kind = "connection" => Profile' = version[put.kind] + 1)
  BY <1>1, <1>3 DEF ServerType, Profile, Kind
<1>5. /\ page'[q].stale = (page[q].stale \/ page[q].screen = put.kind)
      /\ page'[q].screen = page[q].screen /\ page'[q].form = page[q].form
      /\ page'[q].needsRestart = page[q].needsRestart
      /\ page'[q].notice = page[q].notice /\ page'[q].get = page[q].get
      /\ page'[q].read = page[q].read /\ page'[q].puts = page[q].puts
      /\ page'[q].command = page[q].command /\ page'[q].touched = page[q].touched
      /\ page'[q].crossed = page[q].crossed /\ page'[q].raced = page[q].raced
      /\ page'[q].seen = page[q].seen /\ page'[q].pressed = page[q].pressed
  BY <1>2 DEF PutHandled
<1>6. PutsFit(page[q])'
  BY <1>1, <1>5 DEF PutsFit, Steady
<1>7. FormFits(page[q])'
  <2>1. Fresh(page'[q]) => Fresh(page[q]) /\ row'[page[q].screen] = row[page[q].screen]
    BY <1>3, <1>5 DEF Fresh, Steady
  <2>2. Steady(page'[q]) => Steady(page[q])
    BY <1>5 DEF Steady
  <2> QED
    BY <1>1, <1>5, <2>1, <2>2 DEF FormFits, Answered
<1>8. VersionsFit(page[q])'
  <2>1. page[q].screen = "connection" => page[q].seen <= Profile' /\ page[q].pressed <= Profile'
    BY <1>1, <1>4 DEF VersionsFit, PageType
  <2>2. ASSUME NEW i \in DOMAIN page[q].puts, Answered(page[q].puts[i]),
               page[q].puts[i].kind = "connection"
        PROVE  /\ page[q].puts[i].version <= Profile'
               /\ running /\ ~page[q].puts[i].running => page[q].puts[i].version <= active
               /\ (page[q].screen = "connection" /\ ~page[q].crossed =>
                     page[q].seen <= page[q].puts[i].version)
    <3>1. page[q].puts[i].version \in Nat
      BY <1>1, <2>2 DEF FilledPut
    <3> QED
      BY <1>1, <1>4, <2>2, <3>1 DEF VersionsFit
  <2> QED
    BY <1>3, <1>5, <2>1, <2>2 DEF VersionsFit
<1>9. HintFits(page[q])'
  BY <1>1, <1>3, <1>5 DEF HintFits, Answered
<1> QED
  BY <1>6, <1>7, <1>8, <1>9 DEF Good

LEMMA AnswerPutKeeps ==
  ASSUME SettingsInv, NEW p \in Page, NEW n \in DOMAIN page[p].puts, AnswerPut(p, n)
  PROVE  Good(page[p])'
<1>1. /\ TypeInv /\ ServerType /\ PutsFit(page[p]) /\ FormFits(page[p]) /\ VersionsFit(page[p])
      /\ HintFits(page[p]) /\ PageType(page[p]) /\ active \in Nat
      /\ Len(page[p].puts) \in Nat /\ DOMAIN page[p].puts = 1..Len(page[p].puts)
      /\ page[p].puts \in Seq(FilledPut)
      /\ \A i \in DOMAIN page[p].puts : page[p].puts[i] \in FilledPut
  BY PageFacts DEF Good, PageType
<1>2. PICK put \in FilledPut, answer \in FilledPut : PutHandled(p, n, put, answer)
  BY <1>1, AnswerPutFits
<1>p. /\ put = page[p].puts[n] /\ page'[p].puts = [page[p].puts EXCEPT ![n] = answer]
      /\ answer.kind = put.kind /\ answer.values = put.values /\ answer.typed = put.typed
      /\ page'[p].screen = page[p].screen /\ page'[p].form = page[p].form
      /\ page'[p].get = page[p].get
      /\ page'[p].touched = page[p].touched /\ page'[p].crossed = page[p].crossed
      /\ page'[p].seen = page[p].seen /\ page'[p].pressed = page[p].pressed
  BY <1>2 DEF PutHandled
<1>3. /\ put.kind \in Kind
      /\ \A k \in Kind : row'[k] = IF k = put.kind THEN put.values ELSE row[k]
      /\ \A k \in Kind : version'[k] = IF k = put.kind THEN version[k] + 1 ELSE version[k]
      /\ running' = running /\ active' = active
  BY <1>1, <1>2 DEF FilledPut, ServerType, PutHandled
<1>4. Profile \in Nat /\ Profile' \in Nat /\ Profile <= Profile' /\ active \in Nat
      /\ (put.kind = "connection" => Profile' = version[put.kind] + 1)
  BY <1>1, <1>3 DEF ServerType, Profile, Kind
<1>5. PICK s : s = [page[p].puts EXCEPT ![n] = answer]
  OBVIOUS
<1>6. /\ page'[p].puts = s /\ s \in Seq(FilledPut) /\ DOMAIN s = DOMAIN page[p].puts
      /\ Len(s) = Len(page[p].puts) /\ s[n] = answer
      /\ \A i \in DOMAIN s : i # n => s[i] = page[p].puts[i]
  <2>1. s \in Seq(FilledPut) /\ Len(s) = Len(page[p].puts)
    BY <1>1, <1>5, ExceptSeq
  <2>2. DOMAIN s = DOMAIN page[p].puts
    BY <1>5
  <2>3. \A i \in DOMAIN s : s[i] = IF i = n THEN answer ELSE page[p].puts[i]
    BY <1>5
  <2> QED
    BY <1>5, <1>p, <2>1, <2>2, <2>3
<1>7. page[p].screen # "none" => page[p].screen = put.kind /\ page'[p].stale = FALSE
  BY <1>1, <1>2 DEF PutsFit, PutHandled
<1>8. Steady(page[p]) => page[p].get = "done" /\ \A i \in DOMAIN s : i = n
  <2>1. Steady(page[p]) => page[p].puts = <<>> \/ page[p].get = "done"
    BY <1>1 DEF PutsFit
  <2>2. page[p].puts # <<>>
    BY <1>1
  <2>3. Steady(page[p]) => Len(page[p].puts) <= 1
    BY <1>1 DEF PutsFit
  <2>4. DOMAIN s = 1..Len(page[p].puts) /\ n \in 1..Len(page[p].puts)
    BY <1>1, <1>6
  <2> QED
    BY <1>1, <2>1, <2>2, <2>3, <2>4
<1>9. \A i \in DOMAIN s : /\ s[i].kind = page[p].puts[i].kind /\ s[i].values = page[p].puts[i].values
                          /\ s[i].typed = page[p].puts[i].typed
  BY <1>2, <1>6 DEF PutHandled
<1>10. PutsFit(page[p])'
  <2>1. page'[p].screen # "none" => \A i \in DOMAIN s : s[i].kind = page'[p].screen
    <3>1. page[p].screen # "none" => \A i \in DOMAIN page[p].puts : page[p].puts[i].kind = page[p].screen
      BY <1>1 DEF PutsFit
    <3> QED
      BY <1>6, <1>9, <1>p, <3>1
  <2>2. page'[p].screen = "none" => page'[p].stale
    BY <1>2 DEF PutHandled
  <2>3. Steady(page'[p]) => Len(s) <= 1 /\ page'[p].get = "done"
    <3>1. Steady(page'[p]) => Steady(page[p])
      BY <1>2 DEF Steady, PutHandled
    <3>2. Steady(page[p]) => Len(page[p].puts) <= 1
      BY <1>1 DEF PutsFit
    <3> QED
      BY <1>2, <1>6, <1>8, <3>1, <3>2 DEF PutHandled
  <2>4. page'[p].screen = "storage" => Len(s) <= 1
    BY <1>1, <1>2, <1>6 DEF PutsFit, PutHandled
  <2> QED
    BY <1>6, <2>1, <2>2, <2>3, <2>4 DEF PutsFit
<1>11. FormFits(page[p])'
  <2>1. Steady(page'[p]) => Steady(page[p]) /\ page[p].screen = put.kind /\ page'[p].get = "done"
    BY <1>2, <1>7, <1>8 DEF Steady, Kind, PutHandled
  <2>2. Steady(page'[p]) => \A i \in DOMAIN s : \A f \in Field \ page'[p].touched :
          s[i].values[f] = page'[p].form[f]
    <3>1. Steady(page[p]) => \A i \in DOMAIN page[p].puts : \A f \in Field \ page[p].touched :
            page[p].puts[i].values[f] = page[p].form[f]
      BY <1>1 DEF FormFits
    <3>2. \A i \in DOMAIN s : i \in DOMAIN page[p].puts /\ s[i].values = page[p].puts[i].values
      BY <1>6, <1>9
    <3> QED
      BY <2>1, <1>p, <3>1, <3>2
  <2>3. Steady(page'[p]) => row'[page'[p].screen] = put.values
    BY <1>3, <1>p, <2>1
  <2>4. Steady(page'[p]) => \A f \in Field \ page'[p].touched :
          page'[p].form[f] = row'[page'[p].screen][f]
    <3>1. n \in DOMAIN s /\ s[n].values = put.values
      BY <1>6, <1>p
    <3> QED
      BY <2>2, <2>3, <3>1
  <2>5. Steady(page'[p]) => \A i \in DOMAIN s : Answered(s[i]) /\ s[i].values = row'[page'[p].screen]
    BY <1>2, <1>6, <1>8, <2>1, <2>3 DEF Answered, PutHandled
  <2> QED
    BY <1>6, <2>1, <2>2, <2>4, <2>5 DEF FormFits, Fresh
<1>12. page[p].seen \in Nat /\ page[p].pressed \in Nat
  BY <1>1 DEF PageType
<1>13. VersionsFit(page[p])'
  <2>1. page'[p].screen = "connection" => page'[p].seen <= Profile' /\ page'[p].pressed <= Profile'
    <3>1. page[p].screen = "connection" => page[p].seen <= Profile /\ page[p].pressed <= Profile
      BY <1>1 DEF VersionsFit
    <3> QED
      BY <1>4, <1>12, <1>p, <3>1
  <2>2. ASSUME NEW i \in DOMAIN s, Answered(s[i]), s[i].kind = "connection"
        PROVE  /\ s[i].version <= Profile'
               /\ running /\ ~s[i].running => s[i].version <= active
               /\ (page[p].screen = "connection" /\ ~page[p].crossed => page[p].seen <= s[i].version)
    <3>1. CASE i = n
      <4>1. s[i].version = Profile' /\ s[i].running = running
        BY <1>2, <1>4, <1>6, <2>2, <3>1 DEF PutHandled
      <4>2. page[p].screen = "connection" => page[p].seen <= Profile
        BY <1>1 DEF VersionsFit
      <4> QED
        BY <1>4, <1>12, <4>1, <4>2
    <3>2. CASE i # n
      <4>1. s[i] = page[p].puts[i] /\ i \in DOMAIN page[p].puts /\ s[i].version \in Nat
        BY <1>1, <1>6, <2>2, <3>2 DEF FilledPut
      <4>2. /\ s[i].version <= Profile
            /\ running /\ ~s[i].running => s[i].version <= active
            /\ (page[p].screen = "connection" /\ ~page[p].crossed => page[p].seen <= s[i].version)
        BY <1>1, <2>2, <4>1 DEF VersionsFit
      <4> QED
        BY <1>4, <4>1, <4>2
    <3> QED
      BY <3>1, <3>2
  <2>3. page'[p].screen = page[p].screen /\ page'[p].crossed = page[p].crossed /\ page'[p].seen = page[p].seen
    BY <1>2 DEF PutHandled
  <2> QED
    BY <1>3, <1>6, <2>1, <2>2, <2>3 DEF VersionsFit
<1>14. HintFits(page[p])'
  <2>1. page'[p].raced = FALSE => page[p].raced = FALSE
    BY <1>1, <1>2 DEF PageType, PutHandled
  <2>2. page[p].screen = "connection" /\ page[p].command = "started" => page'[p].raced = TRUE
    <3>1. page[p].command = "started" => StartDue
      BY DEF StartDue
    <3>2. page[p].screen = "connection" => put.kind = "connection"
      BY <1>7
    <3> QED
      BY <1>2, <3>1, <3>2 DEF PutHandled
  <2>3. page'[p].raced \in BOOLEAN /\ page[p].raced \in BOOLEAN
    BY <1>1, <1>2 DEF PageType, PutHandled
  <2> QED
    BY <1>1, <1>2, <1>3, <2>1, <2>2, <2>3 DEF HintFits, PutHandled
<1> QED
  BY <1>10, <1>11, <1>13, <1>14 DEF Good

LEMMA SettingsInitial == Init => SettingsInv
<1> SUFFICES ASSUME Init PROVE SettingsInv
  OBVIOUS
<1>1. TypeInv
  BY TypeInitial
<1>2. ASSUME NEW p \in Page PROVE Good(page[p])
  <2>1. PICK r : r = Opened("none")
    OBVIOUS
  <2>2. /\ r.screen = "none" /\ r.notice = "none" /\ r.puts = <<>> /\ r.stale = TRUE
    BY <2>1, OpenedFits
  <2>3. page[p] = r
    BY <2>1 DEF Init, NoPage
  <2>4. DOMAIN r.puts = {}
    BY <2>2
  <2>5. PutsFit(r) /\ HintFits(r)
    BY <2>2, <2>4 DEF PutsFit, HintFits, Steady, Kind
  <2>6. FormFits(r) /\ VersionsFit(r)
    BY <2>2, <2>4 DEF FormFits, VersionsFit, Fresh, Steady, Kind
  <2> QED
    BY <2>3, <2>5, <2>6 DEF Good
<1> QED
  BY <1>1, <1>2 DEF SettingsInv

LEMMA SettingsInductive == SettingsInv /\ [Next]_vars => SettingsInv'
<1> SUFFICES ASSUME SettingsInv, [Next]_vars PROVE SettingsInv'
  OBVIOUS
<1>1. TypeInv /\ TypeInv'
  BY TypeInductive DEF SettingsInv
<1> SUFFICES \A q \in Page : Good(page[q])'
  BY <1>1 DEF SettingsInv
<1>2. ASSUME NEW p \in Page, Only(p), UNCHANGED server, Good(page[p])'
      PROVE  \A q \in Page : Good(page[q])'
  BY <1>2, Elsewhere
<1>3. CASE UNCHANGED vars
  <2> SUFFICES ASSUME NEW q \in Page PROVE Good(page[q])'
    OBVIOUS
  <2>1. Good(page[q])
    BY DEF SettingsInv
  <2>2. page' = page /\ row' = row /\ version' = version /\ running' = running /\ active' = active
    BY <1>3 DEF vars, server
  <2>3. PutsFit(page[q])' /\ FormFits(page[q])'
    BY <2>1, <2>2 DEF Good, PutsFit, FormFits, Fresh, Steady, Answered
  <2>4. VersionsFit(page[q])' /\ HintFits(page[q])'
    BY <2>1, <2>2 DEF Good, VersionsFit, HintFits, Profile, Answered
  <2> QED
    BY <2>3, <2>4 DEF Good
<1>4. ASSUME NEW p \in Page
      PROVE  /\ \A s \in Kind \cup {"monitor"} : Open(p, s) => \A q \in Page : Good(page[q])'
             /\ Leave(p) => \A q \in Page : Good(page[q])'
             /\ AnswerGet(p) => \A q \in Page : Good(page[q])'
             /\ GetArrives(p) => \A q \in Page : Good(page[q])'
             /\ GetFails(p) => \A q \in Page : Good(page[q])'
             /\ \A f \in Field : Edit(p, f) => \A q \in Page : Good(page[q])'
             /\ Submit(p) => \A q \in Page : Good(page[q])'
  <2>1. \A s \in Kind \cup {"monitor"} : Open(p, s) => Only(p) /\ UNCHANGED server /\ Good(page[p])'
    BY <1>1, OpenFits, OpenKeeps DEF Open
  <2>2. Leave(p) => Only(p) /\ UNCHANGED server /\ Good(page[p])'
    BY <1>1, LeaveFits, LeaveKeeps DEF Leave
  <2>3. AnswerGet(p) => Only(p) /\ UNCHANGED server /\ Good(page[p])'
    BY <1>1, AnswerGetFits, AnswerGetKeeps DEF AnswerGet
  <2>4. GetArrives(p) => Only(p) /\ UNCHANGED server /\ Good(page[p])'
    BY <1>1, GetArrivesFits, GetArrivesKeeps DEF GetArrives
  <2>5. GetFails(p) => Only(p) /\ UNCHANGED server /\ Good(page[p])'
    BY <1>1, GetFailsFits, GetFailsKeeps DEF GetFails
  <2>6. \A f \in Field : Edit(p, f) => Only(p) /\ UNCHANGED server /\ Good(page[p])'
    BY <1>1, EditFits, EditKeeps DEF Edit
  <2>7. Submit(p) => Only(p) /\ UNCHANGED server /\ Good(page[p])'
    BY <1>1, SubmitFits, SubmitKeeps DEF Submit
  <2> QED
    BY <1>2, <2>1, <2>2, <2>3, <2>4, <2>5, <2>6, <2>7
<1>5. ASSUME NEW p \in Page, NEW n \in DOMAIN page[p].puts
      PROVE  /\ AnswerPut(p, n) => \A q \in Page : Good(page[q])'
             /\ PutArrives(p, n) => \A q \in Page : Good(page[q])'
             /\ PutFails(p, n) => \A q \in Page : Good(page[q])'
  <2>1. PutArrives(p, n) => Only(p) /\ UNCHANGED server /\ Good(page[p])'
    BY <1>1, PutArrivesFits, PutArrivesKeeps DEF PutArrives
  <2>2. PutFails(p, n) => Only(p) /\ UNCHANGED server /\ Good(page[p])'
    BY <1>1, PutFailsFits, PutFailsKeeps DEF PutFails
  <2>3. AnswerPut(p, n) => \A q \in Page : Good(page[q])'
    BY AnswerPutKeeps, AnswerPutElsewhere
  <2> QED
    BY <1>2, <2>1, <2>2, <2>3
<1>6. ASSUME NEW p \in Page
      PROVE  /\ \A c \in {"start", "stop"} : Press(p, c) => \A q \in Page : Good(page[q])'
             /\ AnswerStop(p) => \A q \in Page : Good(page[q])'
             /\ StopArrives(p) => \A q \in Page : Good(page[q])'
             /\ \A ok \in BOOLEAN : AnswerStart(p, ok) => \A q \in Page : Good(page[q])'
             /\ CommandEnds(p) => \A q \in Page : Good(page[q])'
             /\ CommandFails(p) => \A q \in Page : Good(page[q])'
  <2>1. \A c \in {"start", "stop"} : Press(p, c) => Only(p) /\ UNCHANGED server /\ Good(page[p])'
    BY <1>1, PressFits, PressKeeps DEF Press
  <2>2. StopArrives(p) => Only(p) /\ UNCHANGED server /\ Good(page[p])'
    BY <1>1, StopArrivesFits, StopArrivesKeeps DEF StopArrives
  <2>3. CommandEnds(p) => Only(p) /\ UNCHANGED server /\ Good(page[p])'
    BY <1>1, CommandEndsFits, CommandEndsKeeps DEF CommandEnds
  <2>4. CommandFails(p) => Only(p) /\ UNCHANGED server /\ Good(page[p])'
    BY <1>1, CommandFailsFits, CommandFailsKeeps DEF CommandFails
  <2>5. AnswerStop(p) => \A q \in Page : Good(page[q])'
    BY AnswerStopKeeps
  <2>6. \A ok \in BOOLEAN : AnswerStart(p, ok) => \A q \in Page : Good(page[q])'
    BY AnswerStartKeeps
  <2> QED
    BY <1>2, <2>1, <2>2, <2>3, <2>4, <2>5, <2>6
<1> QED
  BY <1>3, <1>4, <1>5, <1>6 DEF Next

LEMMA SettingsAlways == Spec => []SettingsInv
BY SettingsInitial, SettingsInductive, PTL DEF Spec

\* A form at rest in which nobody has typed shows the row of the database,
\* whatever number of screens read and save it, unless one of them has saved since
\* or two answers with the row have been on their way to it at a time.
THEOREM FormsShowTheRow == Spec => []FormIsRow
<1>1. SettingsInv => FormIsRow
  <2> SUFFICES ASSUME SettingsInv, NEW p \in Page, page[p].screen \in Kind, page[p].get = "done",
                      page[p].touched = {}, ~page[p].stale, ~page[p].crossed
               PROVE  page[p].form = row[page[p].screen]
    BY DEF FormIsRow
  <2>1. FormFits(page[p]) /\ PageType(page[p]) /\ ServerType
    BY PageFacts DEF Good
  <2>2. \A f \in Field : page[p].form[f] = row[page[p].screen][f]
    BY <2>1 DEF FormFits, Fresh, Steady
  <2>3. page[p].form \in [Field -> Value] /\ row[page[p].screen] \in [Field -> Value]
    BY <2>1 DEF PageType, ServerType, Filled, Form
  <2> QED
    BY <2>2, <2>3
<1> QED
  BY <1>1, SettingsAlways, PTL

\* The connection screen asks for a restart while the connection runs with less
\* than the screen has saved, but for the two races that the property names, and
\* its notice that the connection has restarted is true, whatever the other
\* screens start, stop and save meanwhile.
THEOREM OldProfilesAreHinted == Spec => []OldProfileIsHinted
<1>1. SettingsInv => OldProfileIsHinted
  <2> SUFFICES ASSUME SettingsInv, NEW p \in Page PROVE HintFits(page[p])
    BY DEF OldProfileIsHinted, HintFits
  <2> QED
    BY PageFacts DEF Good
<1> QED
  BY <1>1, SettingsAlways, PTL

\* A save changes only the fields that its user has typed, unless its form was
\* older than the row or not the row at all.
THEOREM SavesChangeWhatIsTyped == Spec => SavesWhatIsTyped
<1> DEFINE Step == \A p \in Page : \A n \in DOMAIN page[p].puts :
                     Overwrites(p, n) => page[p].stale \/ page[p].crossed
<1>1. SettingsInv /\ [Next]_vars => [Step]_vars
  <2> SUFFICES ASSUME SettingsInv, Next, NEW p \in Page, NEW n \in DOMAIN page[p].puts,
                      Overwrites(p, n), ~page[p].stale, ~page[p].crossed
               PROVE  FALSE
    OBVIOUS
  <2>1. version' # version /\ page[p].puts[n].at = "sent" /\ page'[p].puts[n].at = "answered"
    BY DEF Overwrites
  <2>2. PICK q \in Page : \E m \in DOMAIN page[q].puts : AnswerPut(q, m)
    BY <2>1 DEF Next, Open, Leave, AnswerGet, GetArrives, GetFails, Edit, Submit, PutArrives,
       PutFails, Press, AnswerStop, StopArrives, AnswerStart, CommandEnds, CommandFails, server
  <2>3. PICK m \in DOMAIN page[q].puts : AnswerPut(q, m)
    BY <2>2
  <2>4. TypeInv /\ ServerType
    BY PageFacts
  <2>5. PICK put \in FilledPut, answer \in FilledPut : PutHandled(q, m, put, answer)
    BY <2>3, <2>4, AnswerPutFits
  <2>6. p = q
    <3>1. p # q => page'[p].puts = page[p].puts
      BY <2>5 DEF PutHandled
    <3> QED
      BY <2>1, <3>1
  <2>7. n = m
    <3>1. n # m => page'[p].puts[n] = page[p].puts[n]
      BY <2>5, <2>6 DEF PutHandled
    <3> QED
      BY <2>1, <3>1
  <2>8. put = page[p].puts[n] /\ row'[put.kind] = put.values /\ put.kind \in Kind
    BY <2>4, <2>5, <2>6, <2>7 DEF PutHandled, FilledPut, ServerType
  <2>9. PutsFit(page[p]) /\ FormFits(page[p]) /\ PageType(page[p])
    BY PageFacts DEF Good
  <2>10. put.kind = page[p].screen /\ Fresh(page[p])
    BY <2>8, <2>9 DEF PutsFit, Fresh, Steady
  <2>11. \A f \in Field \ put.typed : put.values[f] = row[put.kind][f]
    BY <2>1, <2>8, <2>9, <2>10 DEF FormFits, Answered
  <2> QED
    BY <2>8, <2>11 DEF Overwrites
<1>2. [][Step]_vars <=> SavesWhatIsTyped
  BY DEF SavesWhatIsTyped
<1> QED
  BY <1>1, <1>2, SettingsAlways, PTL DEF Spec

=============================================================================
