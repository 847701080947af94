------------------------------ MODULE TcpProofs ------------------------------
(***************************************************************************)
(* Theorems about the TCP side of the program: the framing of the bytes of *)
(* a connection (Framer) and the life of adapters, sockets and sessions    *)
(* (TcpManager).  The two specifications share no name.                    *)
(*                                                                         *)
(* Framer: for every delimiter, limit and stream.  Its types, Tiling and   *)
(* ExactContents are inductive together (FramerInv); CutsAreLeftmost and   *)
(* QuietBuffer are inductive relative to it, and LoopProgress is a step    *)
(* property that follows from it.                                          *)
(*                                                                         *)
(* TcpManager and its adapters: for any number of starts, sockets, send    *)
(* requests, statements that throw and crashes.  That the variables have   *)
(* their types is proved for both kinds of address to bind to.  The rest   *)
(* holds where listen() binds in its own turn, for a bindAddress that is   *)
(* an IP address (~SlowLookup): with a host name it is false, as           *)
(* StoppedMeansStopped shows.                                              *)
(***************************************************************************)
EXTENDS TcpManager, Framer, SequenceTheorems, TLAPS

-----------------------------------------------------------------------------
(* The framer.                                                             *)

FramerInv == FramerTypeOK /\ Tiling /\ ExactContents

\* The delimiter is a non-empty byte sequence for every delimiterKind.
LEMMA DelimiterType == Delimiter \in Seq(Byte) /\ Len(Delimiter) \in Nat \ {0}
<1>1. CustomDelimiter \in Seq(Byte) /\ Len(CustomDelimiter) \in Nat \ {0}
  BY CustomAssumption DEF CustomAssumption
<1>2. \A a \in Byte : <<a>> \in Seq(Byte) /\ Len(<<a>>) = 1
  OBVIOUS
<1>3. \A a, b \in Byte : <<a, b>> \in Seq(Byte) /\ Len(<<a, b>>) = 2
  OBVIOUS
<1>4. CR \in Byte /\ LF \in Byte
  BY DEF Byte
<1>5. \/ Delimiter = CustomDelimiter
      \/ Delimiter = <<CR>>
      \/ Delimiter = <<LF>>
      \/ Delimiter = <<CR, LF>>
  BY KindAssumption DEF Delimiter, KindAssumption
<1>6. CASE Delimiter = CustomDelimiter
  BY <1>1, <1>6
<1>7. CASE Delimiter = <<CR>>
  BY <1>2, <1>4, <1>7
<1>8. CASE Delimiter = <<LF>>
  BY <1>2, <1>4, <1>8
<1>9. CASE Delimiter = <<CR, LF>>
  BY <1>3, <1>4, <1>9
<1> QED
  BY <1>5, <1>6, <1>7, <1>8, <1>9

\* A chunk is a non-empty byte sequence.
LEMMA ChunkType == ASSUME NEW chunk \in Chunk PROVE chunk \in Seq(Byte)
  BY DEF Chunk

\* An occurrence of the delimiter stays where it is when bytes are appended.
LEMMA OccursStays ==
  ASSUME NEW s \in Seq(Byte), NEW t \in Seq(Byte), NEW i \in Nat, Occurs(s, i)
  PROVE  Occurs(s \o t, i)
  BY DelimiterType DEF Occurs

THEOREM FramerInitial == FramerInit => FramerInv
<1> SUFFICES ASSUME FramerInit PROVE FramerInv
  OBVIOUS
<1>1. /\ Len(buffer) = 0 /\ Len(rx) = 0 /\ Len(output) = 0
      /\ buffer = <<>> /\ rx = <<>> /\ output = <<>> /\ scanning = FALSE /\ cutShort = FALSE
  BY DEF FramerInit
<1>2. FramerTypeOK
  BY <1>1, EmptySeq DEF FramerTypeOK
<1>3. Tiling
  BY <1>1 DEF Tiling, Consumed
<1>4. ExactContents
  BY <1>1 DEF ExactContents
<1> QED
  BY <1>2, <1>3, <1>4 DEF FramerInv

LEMMA PushKeeps ==
  ASSUME FramerInv, NEW chunk \in Chunk, Push(chunk)
  PROVE  FramerInv'
<1> USE DelimiterType DEF FramerInv, Push
<1>1. chunk \in Seq(Byte)
  BY ChunkType
<1>2. FramerTypeOK'
  <2>1. /\ buffer' = buffer \o chunk /\ rx' = rx \o chunk /\ output' = output
        /\ scanning' \in BOOLEAN /\ cutShort' \in BOOLEAN
    OBVIOUS
  <2>2. buffer' \in Seq(Byte) /\ rx' \in Seq(Byte)
    BY <1>1, <2>1 DEF FramerTypeOK
  <2> QED
    BY <2>1, <2>2 DEF FramerTypeOK
<1>3. Consumed' = Consumed /\ Consumed \in Nat /\ Consumed <= Len(rx) /\ Len(rx) \in Nat
  BY <1>1 DEF FramerTypeOK, Consumed, Tiling
<1>4. Tiling'
  <2>1. (Len(buffer) <= Len(rx))'
    BY <1>1 DEF FramerTypeOK, Tiling
  <2>2. (\A i \in 1..Len(buffer) : buffer[i] = rx[Consumed + i])'
    BY <1>1, <1>3, SMTT(30) DEF FramerTypeOK, Tiling, Consumed
  <2> QED
    BY <1>3, <2>1, <2>2 DEF Tiling, After
<1>5. ExactContents'
  <2> SUFFICES ASSUME NEW k \in 1..Len(output)
               PROVE  LET e == output[k] IN
                      /\ After(e) <= Consumed
                      /\ Len(e.bytes) = e.to - e.from
                      /\ \A i \in 1..Len(e.bytes) : e.bytes[i] = rx'[e.from + i]
                      /\ e.kind = "message" => Occurs(rx', e.to)
    BY <1>3 DEF ExactContents, After
  <2> DEFINE e == output[k]
  <2>1. /\ e.kind \in {"message", "dropped"} /\ e.from \in Nat /\ e.to \in Nat
        /\ e.bytes \in Seq(Byte) /\ Len(e.bytes) \in Nat
    <3>1. e \in Entry
      BY DEF FramerTypeOK
    <3> QED
      BY <3>1 DEF Entry
  <2>2. /\ After(e) <= Consumed
        /\ Len(e.bytes) = e.to - e.from
        /\ \A i \in 1..Len(e.bytes) : e.bytes[i] = rx[e.from + i]
        /\ e.kind = "message" => Occurs(rx, e.to)
    BY DEF ExactContents
  <2>3. e.to <= Len(rx)
    BY <2>1, <2>2, <1>3 DEF After
  <2>4. \A i \in 1..Len(e.bytes) : e.from + i \in 1..Len(rx)
    <3>1. e.from \in Nat /\ e.to \in Nat /\ e.to <= Len(rx) /\ Len(e.bytes) = e.to - e.from
      BY <2>1, <2>2, <2>3
    <3> HIDE DEF e
    <3> QED
      BY <3>1, <1>3, SMTT(30)
  <2>5. \A i \in 1..Len(e.bytes) : rx'[e.from + i] = rx[e.from + i]
    <3>1. \A j \in 1..Len(rx) : rx'[j] = rx[j]
      BY <1>1 DEF FramerTypeOK
    <3> QED
      BY <2>4, <3>1
  <2>6. e.kind = "message" => Occurs(rx', e.to)
    BY <2>1, <2>2, <1>1, OccursStays DEF FramerTypeOK
  <2> QED
    BY <2>2, <2>5, <2>6
<1> QED
  BY <1>2, <1>4, <1>5

\* The invariant does not depend on scanning and cutShort.
LEMMA NothingChanges ==
  ASSUME FramerInv, buffer' = buffer, rx' = rx, output' = output, scanning' \in BOOLEAN,
         cutShort' \in BOOLEAN
  PROVE  FramerInv'
<1>1. FramerTypeOK'
  BY DEF FramerInv, FramerTypeOK
<1>2. Consumed' = Consumed
  BY DEF Consumed
<1>3. Tiling'
  BY <1>2 DEF FramerInv, Tiling, After
<1>4. ExactContents'
  BY <1>2 DEF FramerInv, ExactContents, After, Occurs
<1> QED
  BY <1>1, <1>3, <1>4 DEF FramerInv

\* What Deliver and Finish have in common: one entry is appended to output, it
\* starts where the buffer started, and the buffer that is left starts after it.
LEMMA OutputGrows ==
  ASSUME FramerInv, NEW e \in Entry,
         output' = Append(output, e),
         rx' = rx,
         scanning' \in BOOLEAN, cutShort' \in BOOLEAN,
         buffer' \in Seq(Byte),
         Len(buffer') <= Len(rx),
         e.from = Consumed,
         After(e) = Len(rx) - Len(buffer'),
         After(e) >= Consumed,
         \A i \in 1..Len(buffer') : buffer'[i] = rx[After(e) + i],
         Len(e.bytes) = e.to - e.from,
         \A i \in 1..Len(e.bytes) : e.bytes[i] = rx[e.from + i],
         e.kind = "message" => Occurs(rx, e.to)
  PROVE  FramerInv'
<1> USE DEF FramerInv
<1>1. FramerTypeOK'
  BY DEF FramerTypeOK
<1>2. Consumed' = After(e) /\ Consumed' \in Nat /\ Consumed \in Nat
  BY DEF Consumed, FramerTypeOK, Tiling
<1>3. Len(output') = Len(output) + 1 /\ Len(output) \in Nat
  BY DEF FramerTypeOK
<1>4. /\ \A k \in 1..Len(output) : output'[k] = output[k]
      /\ output'[Len(output) + 1] = e
  BY DEF FramerTypeOK
<1>5. Tiling'
  <2>1. ASSUME NEW k \in 1..Len(output')
        PROVE  output'[k].from = (IF k = 1 THEN 0 ELSE After(output'[k - 1]))
    <3>1. CASE k = Len(output) + 1
      <4>1. CASE k = 1
        BY <3>1, <4>1, <1>3, <1>4 DEF Tiling, FramerTypeOK
      <4>2. CASE k # 1
        <5>1. output # <<>> /\ output'[k - 1] = output[Len(output)]
          BY <3>1, <4>2, <1>3, <1>4 DEF FramerTypeOK
        <5> QED
          BY <5>1, <3>1, <4>2, <1>4 DEF Tiling
      <4> QED BY <4>1, <4>2
    <3>2. CASE k # Len(output) + 1
      <4>1. k \in 1..Len(output) /\ (k # 1 => k - 1 \in 1..Len(output))
        BY <3>2, <1>3
      <4> QED
        BY <4>1, <1>4 DEF Tiling
    <3> QED BY <3>1, <3>2
  <2>2. Consumed' = (IF output' = <<>> THEN 0 ELSE After(output'[Len(output')]))
    <3>1. output' # <<>>
      <4>1. Len(<<>>) = 0
        OBVIOUS
      <4>2. Len(output') # 0
        BY <1>3
      <4> QED
        BY <4>1, <4>2
    <3> QED
      BY <3>1, <1>2, <1>3, <1>4
  <2>3. Len(buffer') <= Len(rx')
    OBVIOUS
  <2>4. \A i \in 1..Len(buffer') : buffer'[i] = rx'[Consumed' + i]
    BY <1>2
  <2> QED
    BY <2>1, <2>2, <2>3, <2>4 DEF Tiling, After
<1>6. ExactContents'
  <2> SUFFICES ASSUME NEW k \in 1..Len(output')
               PROVE  LET f == output'[k] IN
                      /\ After(f) <= Consumed'
                      /\ Len(f.bytes) = f.to - f.from
                      /\ \A i \in 1..Len(f.bytes) : f.bytes[i] = rx[f.from + i]
                      /\ f.kind = "message" => Occurs(rx, f.to)
    BY DEF ExactContents, After
  <2>1. CASE k = Len(output) + 1
    BY <2>1, <1>2, <1>4, SMTT(30)
  <2>2. CASE k # Len(output) + 1
    <3>1. k \in 1..Len(output) /\ output'[k] = output[k] /\ output[k] \in Entry
      BY <2>2, <1>3, <1>4 DEF FramerTypeOK
    <3>2. After(output[k]) <= Consumed /\ After(output[k]) \in Int
      BY <3>1, DelimiterType, SMTT(30) DEF ExactContents, After, Entry
    <3> QED
      BY <3>1, <3>2, <1>2, SMTT(30) DEF ExactContents
  <2> QED BY <2>1, <2>2
<1> QED BY <1>1, <1>5, <1>6

\* The parts Deliver cuts the buffer into.
LEMMA CutType ==
  ASSUME NEW s \in Seq(Byte), NEW i \in Nat, Occurs(s, i)
  PROVE  /\ MessageOf(s, i) \in Seq(Byte)
         /\ Len(MessageOf(s, i)) = i
         /\ \A j \in 1..i : MessageOf(s, i)[j] = s[j]
         /\ Rest(s, i) \in Seq(Byte)
         /\ Len(Rest(s, i)) = Len(s) - i - Len(Delimiter)
         /\ \A j \in 1..Len(Rest(s, i)) : Rest(s, i)[j] = s[i + Len(Delimiter) + j]
         /\ Len(s) \in Nat
         /\ i + Len(Delimiter) <= Len(s)
<1> USE DelimiterType
<1>1. Len(s) \in Nat /\ i + Len(Delimiter) <= Len(s)
  BY DEF Occurs
<1>2. /\ MessageOf(s, i) \in Seq(Byte)
      /\ Len(MessageOf(s, i)) = i
      /\ \A j \in 1..i : MessageOf(s, i)[j] = s[j]
  BY <1>1 DEF MessageOf
<1>3. /\ Rest(s, i) \in Seq(Byte)
      /\ Len(Rest(s, i)) = Len(s) - i - Len(Delimiter)
      /\ \A j \in 1..Len(Rest(s, i)) : Rest(s, i)[j] = s[i + Len(Delimiter) + j]
  BY <1>1 DEF Rest
<1> QED
  BY <1>1, <1>2, <1>3

LEMMA DeliverKeeps ==
  ASSUME FramerInv, NEW index \in Nat, NEW throws \in BOOLEAN, Deliver(index, throws)
  PROVE  FramerInv'
<1> USE DelimiterType
<1> DEFINE e == [kind  |-> "message",
                 from  |-> Consumed,
                 to    |-> Consumed + index,
                 bytes |-> MessageOf(buffer, index)]
<1>1. buffer \in Seq(Byte) /\ Occurs(buffer, index)
  BY DEF FramerInv, FramerTypeOK, Deliver, IsIndexOf
<1>2. /\ Len(rx) \in Nat /\ Len(buffer) \in Nat /\ Len(buffer) <= Len(rx)
      /\ Consumed = Len(rx) - Len(buffer) /\ Consumed \in Nat
      /\ \A i \in 1..Len(buffer) : buffer[i] = rx[Consumed + i]
  BY DEF FramerInv, FramerTypeOK, Tiling, Consumed
<1>3. e \in Entry
  BY <1>1, <1>2, CutType DEF Entry
<1>4. /\ output' = Append(output, e)
      /\ rx' = rx
      /\ scanning' \in BOOLEAN /\ cutShort' \in BOOLEAN
      /\ buffer' = Rest(buffer, index)
  BY DEF Deliver, FramerInv, FramerTypeOK
<1>5. /\ buffer' \in Seq(Byte)
      /\ Len(buffer') = Len(buffer) - index - Len(Delimiter)
      /\ index + Len(Delimiter) <= Len(buffer)
      /\ \A i \in 1..Len(buffer') : buffer'[i] = buffer[index + Len(Delimiter) + i]
  BY <1>1, <1>4, CutType
<1>6. After(e) = Consumed + index + Len(Delimiter)
  BY <1>2 DEF After
<1>7. \A i \in 1..Len(buffer') : buffer'[i] = rx[After(e) + i]
  <2> SUFFICES ASSUME NEW i \in 1..Len(buffer') PROVE buffer'[i] = rx[After(e) + i]
    OBVIOUS
  <2> DEFINE j == index + Len(Delimiter) + i
  <2>1. j \in 1..Len(buffer) /\ buffer'[i] = buffer[j]
    BY <1>2, <1>5
  <2>2. After(e) + i = Consumed + j
    BY <1>2, <1>6
  <2> HIDE DEF j
  <2> QED
    BY <2>1, <2>2, <1>2
<1>8. /\ Len(e.bytes) = e.to - e.from
      /\ \A i \in 1..Len(e.bytes) : e.bytes[i] = rx[e.from + i]
  <2>1. Len(e.bytes) = index /\ \A i \in 1..index : e.bytes[i] = buffer[i]
    BY <1>1, CutType
  <2> QED
    BY <2>1, <1>2, <1>5
<1>9. Occurs(rx, e.to)
  <2>1. \A k \in 1..Len(Delimiter) : buffer[index + k] = rx[Consumed + (index + k)]
    <3>1. \A k \in 1..Len(Delimiter) : index + k \in 1..Len(buffer)
      BY <1>2, <1>5
    <3> QED
      BY <3>1, <1>2
  <2>2. \A k \in 1..Len(Delimiter) : rx[(Consumed + index) + k] = Delimiter[k]
    BY <2>1, <1>1, <1>2 DEF Occurs
  <2> QED
    BY <2>2, <1>2, <1>5 DEF Occurs
<1>10. /\ Len(buffer') <= Len(rx)
       /\ e.from = Consumed
       /\ After(e) = Len(rx) - Len(buffer')
       /\ After(e) >= Consumed
  BY <1>2, <1>5, <1>6
<1> HIDE DEF e
<1> QED
  BY <1>3, <1>4, <1>5, <1>7, <1>8, <1>9, <1>10, OutputGrows

LEMMA FinishKeeps ==
  ASSUME FramerInv, Finish
  PROVE  FramerInv'
<1>1. CASE ~TooLarge(buffer)
  <2>1. /\ buffer' = buffer /\ rx' = rx /\ output' = output
        /\ scanning' \in BOOLEAN /\ cutShort' \in BOOLEAN
    BY <1>1 DEF Finish, FramerInv, FramerTypeOK
  <2> QED
    BY <2>1, NothingChanges
<1>2. CASE TooLarge(buffer)
  <2> DEFINE e == [kind |-> "dropped", from |-> Consumed, to |-> Len(rx), bytes |-> buffer]
  <2>1. /\ Len(rx) \in Nat /\ Len(buffer) \in Nat /\ Len(buffer) <= Len(rx)
        /\ Consumed = Len(rx) - Len(buffer) /\ Consumed \in Nat
        /\ \A i \in 1..Len(buffer) : buffer[i] = rx[Consumed + i]
    BY DEF FramerInv, FramerTypeOK, Tiling, Consumed
  <2>2. e \in Entry /\ e.kind = "dropped"
    BY <2>1 DEF Entry, FramerInv, FramerTypeOK
  <2>3. /\ output' = Append(output, e)
        /\ rx' = rx
        /\ scanning' \in BOOLEAN /\ cutShort' \in BOOLEAN
        /\ buffer' = <<>>
    BY <1>2 DEF Finish, FramerInv, FramerTypeOK
  <2>4. buffer' \in Seq(Byte) /\ Len(buffer') = 0
    BY <2>3, EmptySeq
  <2>5. After(e) = Len(rx)
    BY DEF After
  <2>6. /\ Len(buffer') <= Len(rx)
        /\ e.from = Consumed
        /\ After(e) = Len(rx) - Len(buffer')
        /\ After(e) >= Consumed
        /\ \A i \in 1..Len(buffer') : buffer'[i] = rx[After(e) + i]
        /\ Len(e.bytes) = e.to - e.from
        /\ \A i \in 1..Len(e.bytes) : e.bytes[i] = rx[e.from + i]
        /\ (e.kind = "message" => Occurs(rx, e.to))
    BY <2>1, <2>4, <2>5
  <2> HIDE DEF e
  <2> QED
    BY <2>2, <2>3, <2>4, <2>6, OutputGrows
<1> QED
  BY <1>1, <1>2

\* Every step of the framer keeps the inductive invariant.
LEMMA FramerInductive == FramerInv /\ [FramerNext]_framerVars => FramerInv'
<1> SUFFICES ASSUME FramerInv, [FramerNext]_framerVars PROVE FramerInv'
  OBVIOUS
<1>1. ASSUME NEW chunk \in Chunk, Push(chunk) PROVE FramerInv'
  BY <1>1, PushKeeps
<1>2. ASSUME NEW index \in 0..Len(buffer), NEW throws \in BOOLEAN, Deliver(index, throws)
      PROVE  FramerInv'
  BY <1>2, DeliverKeeps
<1>3. CASE Finish
  BY <1>3, FinishKeeps
<1>4. CASE UNCHANGED framerVars
  BY <1>4, NothingChanges DEF framerVars, FramerInv, FramerTypeOK
<1> QED
  BY <1>1, <1>2, <1>3, <1>4 DEF FramerNext

\* Every variable keeps its type (framer.ts, fields 7-11).
THEOREM FramerTypeCorrect == FramerSpec => []FramerTypeOK
  BY FramerInitial, FramerInductive, PTL DEF FramerSpec, FramerInv

\* No byte of the stream is lost, repeated or moved by push, for every
\* delimiter, limit and cutting of the stream into packets.
THEOREM StreamTiled == FramerSpec => []Tiling
  BY FramerInitial, FramerInductive, PTL DEF FramerSpec, FramerInv

\* What the message handler gets is what the peer sent between two cuts.
THEOREM MessagesExact == FramerSpec => []ExactContents
  BY FramerInitial, FramerInductive, PTL DEF FramerSpec, FramerInv

\* Both together: the stream is accounted for.
THEOREM StreamIsAccounted == FramerSpec => []StreamAccounted
  BY StreamTiled, MessagesExact, PTL DEF StreamAccounted

-----------------------------------------------------------------------------

\* An occurrence of the delimiter in the buffer, seen in the stream.
LEMMA OccursInBuffer ==
  ASSUME FramerInv, NEW i \in Nat, i >= Consumed, Occurs(rx, i)
  PROVE  i - Consumed \in 0..Len(buffer) /\ Occurs(buffer, i - Consumed)
<1> USE DelimiterType
<1> DEFINE j == i - Consumed
<1>1. /\ Len(rx) \in Nat /\ Len(buffer) \in Nat
      /\ Consumed = Len(rx) - Len(buffer) /\ Consumed \in Nat
      /\ \A n \in 1..Len(buffer) : buffer[n] = rx[Consumed + n]
  BY DEF FramerInv, FramerTypeOK, Tiling, Consumed
<1>2. i + Len(Delimiter) <= Len(rx) /\ \A k \in 1..Len(Delimiter) : rx[i + k] = Delimiter[k]
  BY DEF Occurs
<1>3. j \in Nat /\ j + Len(Delimiter) <= Len(buffer)
  BY <1>1, <1>2
<1>4. ASSUME NEW k \in 1..Len(Delimiter) PROVE buffer[j + k] = Delimiter[k]
  <2>1. j + k \in 1..Len(buffer) /\ Consumed + (j + k) = i + k
    BY <1>1, <1>3, SMTT(30)
  <2> QED
    BY <2>1, <1>1, <1>2
<1>5. j \in 0..Len(buffer)
  BY <1>1, <1>3
<1> HIDE DEF j
<1>6. Occurs(buffer, j)
  BY <1>3, <1>4 DEF Occurs
<1> QED
  BY <1>5, <1>6 DEF j

\* The cut of one entry, as CutsAreLeftmost states it, in stream s.
Leftmost(e, s) ==
  \A i \in e.from..(e.to - 1) :
    Occurs(s, i) => e.kind = "dropped" /\ i + Len(Delimiter) > e.to

\* Bytes that arrive later do not change the cut of an old entry.
LEMMA LeftmostStays ==
  ASSUME NEW s \in Seq(Byte), NEW t \in Seq(Byte), NEW e \in Entry,
         After(e) <= Len(s), Leftmost(e, s)
  PROVE  Leftmost(e, s \o t)
<1> USE DelimiterType
<1> SUFFICES ASSUME NEW i \in e.from..(e.to - 1), Occurs(s \o t, i),
                    ~(e.kind = "dropped" /\ i + Len(Delimiter) > e.to)
             PROVE  FALSE
  BY DEF Leftmost
<1>1. /\ e.kind \in {"message", "dropped"} /\ e.from \in Nat /\ e.to \in Nat
      /\ Len(s) \in Nat /\ i \in Nat
  BY DEF Entry
<1>2. i + Len(Delimiter) <= Len(s)
  BY <1>1 DEF After
<1>3. \A k \in 1..Len(Delimiter) : (s \o t)[i + k] = s[i + k]
  BY <1>1, <1>2
<1>4. Occurs(s, i)
  BY <1>2, <1>3 DEF Occurs
<1> QED
  BY <1>4 DEF Leftmost

\* Every message ends at the first delimiter behind its start, in every run: with
\* StreamTiled, the cuts depend on the stream alone (TCP-04), drops aside.
THEOREM CutsLeftmost == FramerSpec => []CutsAreLeftmost
<1> USE DelimiterType
<1>1. FramerInit => CutsAreLeftmost
  BY DEF FramerInit, CutsAreLeftmost
<1>2. FramerInv /\ CutsAreLeftmost /\ [FramerNext]_framerVars => CutsAreLeftmost'
  <2> SUFFICES ASSUME FramerInv, CutsAreLeftmost, [FramerNext]_framerVars PROVE CutsAreLeftmost'
    OBVIOUS
  <2>1. /\ buffer \in Seq(Byte) /\ output \in Seq(Entry) /\ rx \in Seq(Byte)
        /\ Len(buffer) \in Nat /\ Len(rx) \in Nat
        /\ Consumed = Len(rx) - Len(buffer) /\ Consumed \in Nat
    BY DEF FramerInv, FramerTypeOK, Tiling, Consumed
  <2>2. \A k \in 1..Len(output) : Leftmost(output[k], rx)
    BY DEF CutsAreLeftmost, Leftmost
  <2>3. ASSUME NEW e, output' = Append(output, e), rx' = rx, Leftmost(e, rx)
        PROVE  CutsAreLeftmost'
    <3>1. \A k \in 1..Len(output') : Leftmost(output'[k], rx)
      <4> SUFFICES ASSUME NEW k \in 1..Len(output') PROVE Leftmost(output'[k], rx)
        OBVIOUS
      <4>1. CASE k = Len(output) + 1
        BY <2>1, <2>3, <4>1
      <4>2. CASE k # Len(output) + 1
        <5>1. k \in 1..Len(output) /\ output'[k] = output[k]
          BY <2>1, <2>3, <4>2
        <5> QED
          BY <5>1, <2>2
      <4> QED BY <4>1, <4>2
    <3> QED
      BY <3>1, <2>3 DEF CutsAreLeftmost, Leftmost, Occurs
  <2>4. ASSUME NEW chunk \in Chunk, Push(chunk)
        PROVE  CutsAreLeftmost'
    <3>1. rx' = rx \o chunk /\ output' = output /\ chunk \in Seq(Byte)
      BY <2>4, ChunkType DEF Push
    <3>2. ASSUME NEW k \in 1..Len(output) PROVE Leftmost(output[k], rx \o chunk)
      <4>1. After(output[k]) <= Consumed /\ output[k] \in Entry
        BY <2>1 DEF FramerInv, ExactContents
      <4>2. After(output[k]) <= Len(rx)
        BY <4>1, <2>1, SMTT(30) DEF After, Entry
      <4> QED
        BY <4>1, <4>2, <2>1, <2>2, <3>1, LeftmostStays
    <3>3. \A k \in 1..Len(output') : Leftmost(output'[k], rx')
      BY <3>1, <3>2
    <3> QED
      BY <3>3 DEF CutsAreLeftmost, Leftmost, Occurs
  <2>5. ASSUME NEW index \in 0..Len(buffer), NEW throws \in BOOLEAN, Deliver(index, throws)
        PROVE  CutsAreLeftmost'
    <3> DEFINE e == [kind  |-> "message",
                     from  |-> Consumed,
                     to    |-> Consumed + index,
                     bytes |-> MessageOf(buffer, index)]
    <3>1. output' = Append(output, e) /\ rx' = rx
          /\ \A j \in 0..(index - 1) : ~Occurs(buffer, j)
      BY <2>5 DEF Deliver, IsIndexOf
    <3>2. Leftmost(e, rx)
      <4> SUFFICES ASSUME NEW i \in Consumed..(Consumed + index - 1), Occurs(rx, i)
                   PROVE  FALSE
        <5>1. e.from = Consumed /\ e.to = Consumed + index
          OBVIOUS
        <5> HIDE DEF e
        <5> QED
          BY <5>1, <2>1 DEF Leftmost
      <4>1. i \in Nat /\ i >= Consumed /\ i - Consumed \in 0..(index - 1)
        BY <2>1
      <4> QED
        BY <4>1, <3>1, OccursInBuffer
    <3> HIDE DEF e
    <3> QED
      BY <3>1, <3>2, <2>3
  <2>6. CASE Finish
    <3>1. CASE ~TooLarge(buffer)
      BY <2>6, <3>1 DEF Finish, CutsAreLeftmost, Occurs
    <3>2. CASE TooLarge(buffer)
      <4> DEFINE e == [kind |-> "dropped", from |-> Consumed, to |-> Len(rx), bytes |-> buffer]
      <4>1. output' = Append(output, e) /\ rx' = rx
            /\ \A i \in 0..Len(buffer) : ~Occurs(buffer, i)
        BY <2>6, <3>2 DEF Finish
      <4>2. Leftmost(e, rx)
        <5> SUFFICES ASSUME NEW i \in Consumed..(Len(rx) - 1), Occurs(rx, i)
                     PROVE  FALSE
          BY DEF Leftmost
        <5>1. i \in Nat /\ i >= Consumed
          BY <2>1
        <5> QED
          BY <5>1, <4>1, OccursInBuffer
      <4> HIDE DEF e
      <4> QED
        BY <4>1, <4>2, <2>3
    <3> QED BY <3>1, <3>2
  <2>7. CASE UNCHANGED framerVars
    BY <2>7, ZenonT(30) DEF CutsAreLeftmost, Occurs, framerVars
  <2> QED
    BY <2>4, <2>5, <2>6, <2>7 DEF FramerNext
<1> QED
  BY <1>1, <1>2, FramerInitial, FramerInductive, PTL DEF FramerSpec

\* When push returns, and no handler has thrown, the buffer holds no complete
\* message and is within the limit, however many packets arrive without a delimiter
\* and whatever an earlier throw left in it.
THEOREM BufferStaysQuiet == FramerSpec => []QuietBuffer
<1> USE DelimiterType, LimitAssumption DEF LimitAssumption
<1>1. FramerInit => QuietBuffer
  BY DEF FramerInit, QuietBuffer, Occurs
<1>2. FramerInv /\ QuietBuffer /\ [FramerNext]_framerVars => QuietBuffer'
  <2> SUFFICES ASSUME FramerInv, QuietBuffer, [FramerNext]_framerVars PROVE QuietBuffer'
    OBVIOUS
  <2>1. CASE scanning'
    BY <2>1 DEF QuietBuffer
  <2>2. CASE Finish
    <3>1. CASE TooLarge(buffer)
      <4>1. buffer' = <<>> /\ Len(<<>>) = 0
        BY <2>2, <3>1 DEF Finish
      <4> QED
        BY <4>1 DEF QuietBuffer, Occurs
    <3>2. CASE ~TooLarge(buffer)
      BY <2>2, <3>2 DEF Finish, QuietBuffer, TooLarge, Occurs, FramerInv, FramerTypeOK
    <3> QED BY <3>1, <3>2
  <2>3. CASE UNCHANGED framerVars
    BY <2>3 DEF QuietBuffer, Occurs, framerVars
  <2>4. CASE ~scanning'
    <3>1. ASSUME NEW chunk \in Chunk, Push(chunk) PROVE QuietBuffer'
      BY <3>1, <2>4 DEF Push
    <3>2. ASSUME NEW index \in 0..Len(buffer), NEW throws \in BOOLEAN, Deliver(index, throws)
          PROVE  QuietBuffer'
      BY <3>2, <2>4 DEF Deliver, QuietBuffer
    <3> QED
      BY <3>1, <3>2, <2>2, <2>3 DEF FramerNext
  <2> QED BY <2>1, <2>4
<1> QED
  BY <1>1, <1>2, FramerInitial, FramerInductive, PTL DEF FramerSpec

\* No delimiter is overlooked, in the output or, once a push has returned, in the
\* buffer, although any call of the handler may throw.
THEOREM NothingIsOverlooked == FramerSpec => []NothingOverlooked
  BY CutsLeftmost, BufferStaysQuiet, PTL DEF NothingOverlooked

\* Each iteration of the loop of push shortens the buffer: push ends.
THEOREM LoopAlwaysProgresses == FramerSpec => LoopProgress
<1>1. FramerInv /\ [FramerNext]_framerVars => [scanning /\ scanning' => Len(buffer') < Len(buffer)]_framerVars
  <2> SUFFICES ASSUME FramerInv, FramerNext, scanning, scanning'
               PROVE  Len(buffer') < Len(buffer)
    BY DEF framerVars
  <2>1. PICK index \in 0..Len(buffer), throws \in BOOLEAN : Deliver(index, throws)
    BY DEF FramerNext, Push, Finish
  <2> QED
    BY <2>1, CutType, DelimiterType DEF Deliver, IsIndexOf, FramerInv, FramerTypeOK
<1> QED
  BY <1>1, FramerInitial, FramerInductive, PTL DEF FramerSpec, LoopProgress

-----------------------------------------------------------------------------
(* The manager, its adapters and their sockets.                            *)

\* The indices that adapters, sockets and sessions keep of each other.
Indices ==
  /\ Len(socket) <= MaxSockets
  /\ \A s \in 1..Len(socket) :
       socket[s].owner \in 1..Len(adapter) /\ socket[s].session <= Len(sessions)
  /\ \A a \in 1..Len(adapter) : adapter[a].socket <= Len(socket)
  /\ row # NoRow => row.socket <= Len(socket)

TypeInv == TypeOK /\ Indices

-----------------------------------------------------------------------------
(* What the operators do to the records and sequences.                     *)

LEMMA Sizes ==
  ASSUME TypeOK
  PROVE  /\ Len(adapter) \in Nat /\ DOMAIN adapter = 1..Len(adapter)
         /\ Len(socket) \in Nat /\ DOMAIN socket = 1..Len(socket)
         /\ Len(sessions) \in Nat /\ DOMAIN sessions = 1..Len(sessions)
         /\ \A a \in 1..Len(adapter) : adapter[a] \in Adapter
         /\ \A s \in 1..Len(socket) : socket[s] \in Socket
         /\ \A n \in 1..Len(sessions) : sessions[n] \in Session
BY LenProperties, ElementOfSeq DEF TypeOK

LEMMA SameInterval == \A m, n \in Nat : 1..m = 1..n => m = n
<1> SUFFICES ASSUME NEW m \in Nat, NEW n \in Nat, 1..m = 1..n PROVE m = n
  OBVIOUS
<1>1. m # 0 => m \in 1..n
  <2>1. m # 0 => m \in 1..m
    OBVIOUS
  <2> QED
    BY <2>1
<1>2. n # 0 => n \in 1..m
  <2>1. n # 0 => n \in 1..n
    OBVIOUS
  <2> QED
    BY <2>1
<1>3. (m # 0 => m <= n) /\ (n # 0 => n <= m)
  BY <1>1, <1>2
<1> QED
  BY <1>3

LEMMA MadeSeq ==
  ASSUME NEW S, NEW n \in Nat, NEW d \in [1..n -> S]
  PROVE  d \in Seq(S) /\ Len(d) = n
<1>1. d \in Seq(S)
  BY SeqDef
<1>2. DOMAIN d = 1..Len(d) /\ Len(d) \in Nat /\ DOMAIN d = 1..n
  BY <1>1, LenProperties
<1>3. 1..Len(d) = 1..n
  BY <1>2
<1> QED
  BY <1>1, <1>2, <1>3, SameInterval

LEMMA BoundIsNat == MaxSockets \in Nat /\ MaxStarts \in Nat
BY BoundAssumption DEF BoundAssumption

\* What a report may do to the session: it begins, it ends, its UPDATE throws, or
\* nothing happens.
SessionBegins(ok) ==
  /\ sessionId = 0 /\ sessionId' = Len(sessions) + 1
  /\ Len(sessions') = Len(sessions) + 1
  /\ sessions'[Len(sessions) + 1].stored = ok /\ sessions'[Len(sessions) + 1].open = ok
  /\ \A n \in 1..Len(sessions) : sessions'[n] = sessions[n]
  /\ unended' = unended

SessionEnds(info) ==
  /\ sessionId \in 1..Len(sessions) /\ sessionId' = 0
  /\ Len(sessions') = Len(sessions)
  /\ sessions'[sessionId].stored = sessions[sessionId].stored
  /\ IF sessions[sessionId].stored
     THEN /\ ~sessions'[sessionId].open
          /\ info.lastError = "net" => sessions'[sessionId].reason = "net"
     ELSE sessions'[sessionId] = sessions[sessionId]
  /\ \A n \in 1..Len(sessions) : n # sessionId => sessions'[n] = sessions[n]
  /\ unended' = unended

EndThrows ==
  /\ sessionId \in 1..Len(sessions)
  /\ UNCHANGED <<sessionId, sessions>>
  /\ unended' = unended \cup {sessionId}

SessionStays == UNCHANGED <<sessionId, sessions, unended>>

SessionsTyped ==
  /\ sessions' \in Seq(Session) /\ Len(sessions) <= Len(sessions')
  /\ sessionId' \in 0..Len(sessions')
  /\ unended' \subseteq 1..Len(sessions') /\ faults' \in Nat
  /\ \A n \in 1..Len(sessions) : sessions'[n].stored = sessions[n].stored

LEMMA SessionsSame ==
  ASSUME TypeOK, UNCHANGED sessionVars
  PROVE  SessionsTyped
BY Sizes DEF TypeOK, SessionsTyped, sessionVars

\* A session begins, ends, or nothing happens.
LEMMA StatusChange ==
  ASSUME TypeOK, NEW info, info.lastError \in LastError, NEW ok \in BOOLEAN,
         HandleStatusChange(info, ok)
  PROVE  /\ SessionsTyped
         /\ \/ info.status = "CONNECTED" /\ SessionBegins(ok)
            \/ info.status # "CONNECTED" /\ ok /\ SessionEnds(info)
            \/ info.status # "CONNECTED" /\ ~ok /\ EndThrows
            \/ ((info.status = "CONNECTED") = (sessionId # 0)) /\ ok /\ SessionStays
<1>1. /\ Len(sessions) \in Nat /\ sessions \in Seq(Session) /\ sessionId \in 0..Len(sessions)
      /\ unended \subseteq 1..Len(sessions) /\ faults \in Nat
  BY Sizes DEF TypeOK
<1>2. faults' \in Nat
  BY <1>1 DEF HandleStatusChange
<1>3. CASE Begins(info)
  <2> PICK n : n = [stored |-> ok, open |-> ok, reason |-> "none"]
    OBVIOUS
  <2>1. n \in Session /\ n.stored = ok /\ n.open = ok
    BY DEF Session
  <2>2. /\ sessions' = Append(sessions, n) /\ sessionId' = Len(sessions')
        /\ unended' = unended
    BY <1>3 DEF HandleStatusChange, Begins, Ends
  <2>3. /\ sessions' \in Seq(Session) /\ Len(sessions') = Len(sessions) + 1
        /\ sessions'[Len(sessions) + 1] = n
        /\ \A i \in 1..Len(sessions) : sessions'[i] = sessions[i]
    BY <1>1, <2>1, <2>2, AppendProperties
  <2>4. SessionBegins(ok)
    BY <1>3, <2>1, <2>2, <2>3 DEF SessionBegins, Begins
  <2>5. SessionsTyped
    BY <1>1, <1>2, <2>2, <2>3 DEF SessionsTyped
  <2> QED
    BY <1>3, <2>4, <2>5 DEF Begins
<1>4. CASE Ends(info) /\ ok
  <2> PICK old : old = sessions[sessionId]
    OBVIOUS
  <2> PICK n : n = Ended(old, info)
    OBVIOUS
  <2>1. sessionId \in 1..Len(sessions) /\ old \in Session
    BY <1>1, <1>4, Sizes DEF Ends
  <2>2. /\ n \in Session /\ n.stored = old.stored
        /\ IF old.stored THEN ~n.open /\ (info.lastError = "net" => n.reason = "net") ELSE n = old
    <3>1. CASE old.stored
      <4> PICK r : r = Reason(info)
        OBVIOUS
      <4>1. r \in {"disconnected", "frame", "net"} /\ (info.lastError = "net" => r = "net")
        BY DEF Reason, LastError
      <4>2. n = [old EXCEPT !.open = FALSE, !.reason = r]
        BY <3>1 DEF Ended
      <4> QED
        BY <2>1, <3>1, <4>1, <4>2 DEF Session
    <3>2. CASE ~old.stored
      BY <2>1, <3>2 DEF Ended
    <3> QED
      BY <3>1, <3>2
  <2>3. /\ sessions' = [sessions EXCEPT ![sessionId] = n] /\ sessionId' = 0
        /\ unended' = unended
    BY <1>4 DEF HandleStatusChange, Begins, Ends
  <2>4. /\ sessions' \in Seq(Session) /\ Len(sessions') = Len(sessions)
        /\ \A i \in 1..Len(sessions) :
             sessions'[i] = IF i = sessionId THEN n ELSE sessions[i]
    BY <1>1, <2>1, <2>2, <2>3, ExceptSeq
  <2>5. sessions'[sessionId] = n
    BY <2>1, <2>4
  <2>6. SessionEnds(info)
    BY <2>1, <2>2, <2>3, <2>4, <2>5 DEF SessionEnds
  <2>7. SessionsTyped
    BY <1>1, <1>2, <2>1, <2>2, <2>3, <2>4 DEF SessionsTyped
  <2> QED
    BY <1>4, <2>6, <2>7 DEF Ends
<1>5. CASE Ends(info) /\ ~ok
  <2>1. /\ UNCHANGED <<sessionId, sessions>> /\ unended' = unended \cup {sessionId}
        /\ info.status # "CONNECTED" /\ sessionId \in 1..Len(sessions)
    BY <1>1, <1>5 DEF HandleStatusChange, Begins, Ends
  <2>2. SessionsTyped
    BY <1>1, <1>2, <2>1 DEF SessionsTyped
  <2> QED
    BY <1>5, <2>1, <2>2 DEF EndThrows
<1>6. CASE ~Begins(info) /\ ~Ends(info)
  <2>1. ok /\ UNCHANGED <<sessionId, sessions, unended>>
    BY <1>6 DEF HandleStatusChange
  <2>2. (info.status = "CONNECTED") = (sessionId # 0)
    BY <1>6 DEF Begins, Ends
  <2>3. SessionsTyped
    BY <1>1, <1>2, <2>1 DEF SessionsTyped
  <2> QED
    BY <2>1, <2>2, <2>3 DEF SessionStays
<1> QED
  BY <1>3, <1>4, <1>5, <1>6

\* A report of anything but a connection leaves no session, or one whose UPDATE threw.
LEMMA ReportedUnconnected ==
  ASSUME TypeOK, NEW info, info.lastError \in LastError, NEW ok \in BOOLEAN,
         HandleStatusChange(info, ok), info.status # "CONNECTED"
  PROVE  /\ sessionId' = 0 \/ (sessionId' = sessionId /\ sessionId \in unended')
         /\ ok => sessionId' = 0
         /\ unended \subseteq unended'
<1>1. sessionId \in 0..Len(sessions)
  BY DEF TypeOK
<1>2. \/ ok /\ SessionEnds(info)
      \/ ~ok /\ EndThrows
      \/ sessionId = 0 /\ ok /\ SessionStays
  BY StatusChange
<1> QED
  BY <1>1, <1>2 DEF SessionEnds, EndThrows, SessionStays

\* A report of a connection begins a session, or goes on with the one there is.
LEMMA ReportedConnected ==
  ASSUME TypeOK, NEW info, info.lastError \in LastError, NEW ok \in BOOLEAN,
         HandleStatusChange(info, ok), info.status = "CONNECTED"
  PROVE  \/ sessionId = 0 /\ SessionBegins(ok)
         \/ sessionId # 0 /\ ok /\ SessionStays
BY StatusChange DEF SessionBegins

LEMMA SetInfoFacts ==
  ASSUME TypeOK, NEW a \in 1..Len(adapter), NEW x \in Adapter, NEW ok, SetInfo(a, x, ok)
  PROVE  /\ adapter' \in Seq(Adapter) /\ Len(adapter') = Len(adapter) /\ adapter'[a] = x
         /\ \A b \in 1..Len(adapter) : b # a => adapter'[b] = adapter[b]
         /\ HandleStatusChange(x, ok) /\ x.lastError \in LastError
<1>1. adapter \in Seq(Adapter) /\ adapter' = [adapter EXCEPT ![a] = x]
  BY DEF TypeOK, SetInfo
<1>2. /\ adapter' \in Seq(Adapter) /\ Len(adapter') = Len(adapter)
      /\ \A b \in 1..Len(adapter) : adapter'[b] = IF b = a THEN x ELSE adapter[b]
  BY <1>1, ExceptSeq
<1> QED
  BY <1>2 DEF SetInfo, Adapter

\* A socket changes its state.
LEMMA StateChange ==
  ASSUME TypeOK, NEW s \in 1..Len(socket),
         NEW state \in {"connecting", "open", "dying", "closed"},
         socket' = [socket EXCEPT ![s].state = state]
  PROVE  /\ socket' \in Seq(Socket) /\ Len(socket') = Len(socket)
         /\ socket'[s].owner = socket[s].owner /\ socket'[s].state = state
         /\ socket'[s].failed = socket[s].failed /\ socket'[s].session = socket[s].session
         /\ socket'[s].handled = socket[s].handled
         /\ \A i \in 1..Len(socket) : i # s => socket'[i] = socket[i]
<1> PICK y : y = [socket[s] EXCEPT !.state = state]
  OBVIOUS
<1>1. socket[s] \in Socket /\ socket \in Seq(Socket)
  BY Sizes DEF TypeOK
<1>2. /\ y \in Socket /\ y.owner = socket[s].owner /\ y.state = state
      /\ y.failed = socket[s].failed /\ y.session = socket[s].session
      /\ y.handled = socket[s].handled
  BY <1>1 DEF Socket
<1>3. socket' = [socket EXCEPT ![s] = y]
  OBVIOUS
<1>4. /\ socket' \in Seq(Socket) /\ Len(socket') = Len(socket)
      /\ \A i \in 1..Len(socket) : socket'[i] = IF i = s THEN y ELSE socket[i]
  BY <1>1, <1>2, <1>3, ExceptSeq
<1> QED
  BY <1>2, <1>4

\* "error": the socket is dying and has failed.
LEMMA FailingSocket ==
  ASSUME TypeOK, NEW s \in 1..Len(socket),
         socket' = [socket EXCEPT ![s].state = "dying", ![s].failed = TRUE]
  PROVE  /\ socket' \in Seq(Socket) /\ Len(socket') = Len(socket)
         /\ socket'[s].owner = socket[s].owner /\ socket'[s].state = "dying"
         /\ socket'[s].failed = TRUE /\ socket'[s].session = socket[s].session
         /\ socket'[s].handled = socket[s].handled
         /\ \A i \in 1..Len(socket) : i # s => socket'[i] = socket[i]
<1> PICK x : x = [socket[s] EXCEPT !.state = "dying"]
  OBVIOUS
<1> PICK y : y = [x EXCEPT !.failed = TRUE]
  OBVIOUS
<1> PICK mid : mid = [socket EXCEPT ![s] = x]
  OBVIOUS
<1>1. socket[s] \in Socket /\ socket \in Seq(Socket)
  BY Sizes DEF TypeOK
<1>2. /\ x \in Socket /\ x.owner = socket[s].owner /\ x.state = "dying"
      /\ x.session = socket[s].session /\ x.handled = socket[s].handled
  BY <1>1 DEF Socket
<1>3. /\ y \in Socket /\ y.owner = x.owner /\ y.state = x.state
      /\ y.failed = TRUE /\ y.session = x.session /\ y.handled = x.handled
  BY <1>2 DEF Socket
<1>4. /\ mid \in Seq(Socket) /\ Len(mid) = Len(socket)
      /\ \A i \in 1..Len(socket) : mid[i] = IF i = s THEN x ELSE socket[i]
  BY <1>1, <1>2, ExceptSeq
<1>5. socket' = [mid EXCEPT ![s] = [mid[s] EXCEPT !.failed = TRUE]]
  OBVIOUS
<1>6. socket' = [mid EXCEPT ![s] = y] /\ s \in 1..Len(mid)
  BY <1>4, <1>5
<1>7. /\ socket' \in Seq(Socket) /\ Len(socket') = Len(mid)
      /\ \A i \in 1..Len(mid) : socket'[i] = IF i = s THEN y ELSE mid[i]
  BY <1>3, <1>4, <1>6, ExceptSeq
<1> QED
  BY <1>2, <1>3, <1>4, <1>7

\* "connect": the socket is open and has its session.
LEMMA ConnectedSocket ==
  ASSUME TypeOK, NEW s \in 1..Len(socket), sessionId' \in Nat,
         socket' = [socket EXCEPT ![s].state = "open", ![s].session = sessionId']
  PROVE  /\ socket' \in Seq(Socket) /\ Len(socket') = Len(socket)
         /\ socket'[s].owner = socket[s].owner /\ socket'[s].state = "open"
         /\ socket'[s].failed = socket[s].failed /\ socket'[s].session = sessionId'
         /\ socket'[s].handled = socket[s].handled
         /\ \A i \in 1..Len(socket) : i # s => socket'[i] = socket[i]
<1> PICK x : x = [socket[s] EXCEPT !.state = "open"]
  OBVIOUS
<1> PICK n : n = sessionId'
  OBVIOUS
<1> PICK y : y = [x EXCEPT !.session = n]
  OBVIOUS
<1> PICK mid : mid = [socket EXCEPT ![s] = x]
  OBVIOUS
<1>1. socket[s] \in Socket /\ socket \in Seq(Socket) /\ n \in Nat
  BY Sizes DEF TypeOK
<1>2. /\ x \in Socket /\ x.owner = socket[s].owner /\ x.state = "open"
      /\ x.failed = socket[s].failed /\ x.handled = socket[s].handled
  BY <1>1 DEF Socket
<1>3. /\ y \in Socket /\ y.owner = x.owner /\ y.state = x.state
      /\ y.failed = x.failed /\ y.session = n /\ y.handled = x.handled
  BY <1>1, <1>2 DEF Socket
<1>4. /\ mid \in Seq(Socket) /\ Len(mid) = Len(socket)
      /\ \A i \in 1..Len(socket) : mid[i] = IF i = s THEN x ELSE socket[i]
  BY <1>1, <1>2, ExceptSeq
<1>5. socket' = [mid EXCEPT ![s] = [mid[s] EXCEPT !.session = n]]
  OBVIOUS
<1>6. socket' = [mid EXCEPT ![s] = y] /\ s \in 1..Len(mid)
  BY <1>4, <1>5
<1>7. /\ socket' \in Seq(Socket) /\ Len(socket') = Len(mid)
      /\ \A i \in 1..Len(mid) : socket'[i] = IF i = s THEN y ELSE mid[i]
  BY <1>3, <1>4, <1>6, ExceptSeq
<1> QED
  BY <1>2, <1>3, <1>4, <1>7

\* A socket is added.
LEMMA AddedSocket ==
  ASSUME NEW seq \in Seq(Socket), NEW y \in Socket
  PROVE  /\ Append(seq, y) \in Seq(Socket) /\ Len(Append(seq, y)) = Len(seq) + 1
         /\ Append(seq, y)[Len(seq) + 1] = y
         /\ \A i \in 1..Len(seq) : Append(seq, y)[i] = seq[i]
BY AppendProperties

\* stop() destroys the socket of the adapter.
LEMMA DestroyedSocket ==
  ASSUME TypeOK, NEW a
  PROVE  /\ Destroyed(a) \in Seq(Socket) /\ Len(Destroyed(a)) = Len(socket)
         /\ \A s \in 1..Len(socket) :
              /\ Destroyed(a)[s].owner = socket[s].owner
              /\ Destroyed(a)[s].failed = socket[s].failed
              /\ Destroyed(a)[s].session = socket[s].session
              /\ Destroyed(a)[s].handled = socket[s].handled
              /\ Destroyed(a)[s].state = IF adapter[a].socket = s /\ socket[s].state # "closed"
                                         THEN "dying" ELSE socket[s].state
<1>1. Len(socket) \in Nat /\ DOMAIN socket = 1..Len(socket)
  BY Sizes
<1> PICK d : d = Destroyed(a)
  OBVIOUS
<1>2. d = [s \in 1..Len(socket) |-> IF adapter[a].socket = s /\ socket[s].state # "closed"
             THEN [socket[s] EXCEPT !.state = "dying"] ELSE socket[s]]
  BY <1>1 DEF Destroyed
<1>3. \A s \in 1..Len(socket) : socket[s] \in Socket
  BY Sizes
<1>4. \A s \in 1..Len(socket) :
        /\ [socket[s] EXCEPT !.state = "dying"] \in Socket
        /\ [socket[s] EXCEPT !.state = "dying"].owner = socket[s].owner
        /\ [socket[s] EXCEPT !.state = "dying"].failed = socket[s].failed
        /\ [socket[s] EXCEPT !.state = "dying"].session = socket[s].session
        /\ [socket[s] EXCEPT !.state = "dying"].handled = socket[s].handled
        /\ [socket[s] EXCEPT !.state = "dying"].state = "dying"
  BY <1>3 DEF Socket
<1>5. d \in [1..Len(socket) -> Socket]
  BY <1>2, <1>3, <1>4
<1>6. d \in Seq(Socket) /\ Len(d) = Len(socket)
  BY <1>1, <1>5, MadeSeq
<1>7. \A s \in 1..Len(socket) :
        /\ d[s].owner = socket[s].owner /\ d[s].failed = socket[s].failed
        /\ d[s].session = socket[s].session /\ d[s].handled = socket[s].handled
        /\ d[s].state = IF adapter[a].socket = s /\ socket[s].state # "closed"
                        THEN "dying" ELSE socket[s].state
  BY <1>2, <1>4
<1> QED
  BY <1>6, <1>7

\* A step of one adapter, of one socket.
OnlyAdapter(a) ==
  /\ adapter' \in Seq(Adapter) /\ Len(adapter') = Len(adapter)
  /\ \A b \in 1..Len(adapter) : b # a => adapter'[b] = adapter[b]

OnlySocket(s) ==
  /\ socket' \in Seq(Socket) /\ Len(socket') = Len(socket)
  /\ socket'[s].owner = socket[s].owner /\ socket'[s].handled = socket[s].handled
  /\ \A i \in 1..Len(socket) : i # s => socket'[i] = socket[i]

NewestSocket(y) ==
  /\ socket' \in Seq(Socket) /\ Len(socket') = Len(socket) + 1
  /\ socket'[Len(socket) + 1] = y
  /\ \A i \in 1..Len(socket) : socket'[i] = socket[i]

LEMMA OneReplaced ==
  ASSUME TypeOK, NEW a \in 1..Len(adapter), NEW x \in Adapter, adapter' = [adapter EXCEPT ![a] = x]
  PROVE  OnlyAdapter(a) /\ adapter'[a] = x
<1>1. adapter \in Seq(Adapter)
  BY DEF TypeOK
<1> QED
  BY <1>1, ExceptSeq DEF OnlyAdapter

\* What stop() leaves of an adapter.
LEMMA StoppedFacts ==
  ASSUME TypeOK, NEW a \in 1..Len(adapter), NEW y, y = Stopped(a)
  PROVE  /\ y \in Adapter /\ y.mode = adapter[a].mode /\ y.status = "STOPPED"
         /\ y.lastError = adapter[a].lastError /\ y.socket = 0
         /\ y.mode = "SERVER" =>
              /\ y.server = (IF adapter[a].server = "listening" THEN "none" ELSE adapter[a].server)
              /\ y.timer = adapter[a].timer
         /\ y.mode = "CLIENT" => y.server = adapter[a].server /\ ~y.timer /\ y.manualStop
<1>1. adapter[a] \in Adapter
  BY Sizes
<1> PICK x : x = [adapter[a] EXCEPT !.status = "STOPPED"]
  OBVIOUS
<1> PICK z : z = [x EXCEPT !.socket = 0]
  OBVIOUS
<1>2. /\ x \in Adapter /\ x.mode = adapter[a].mode /\ x.status = "STOPPED"
      /\ x.lastError = adapter[a].lastError /\ x.server = adapter[a].server
      /\ x.timer = adapter[a].timer
  BY <1>1 DEF Adapter, ConnectionStatus
<1>3. /\ z \in Adapter /\ z.mode = adapter[a].mode /\ z.status = "STOPPED"
      /\ z.lastError = adapter[a].lastError /\ z.server = adapter[a].server
      /\ z.timer = adapter[a].timer /\ z.socket = 0
  BY <1>2 DEF Adapter
<1>4. CASE adapter[a].mode = "SERVER"
  <2> PICK v : v = IF z.server = "listening" THEN "none" ELSE z.server
    OBVIOUS
  <2>1. v \in {"none", "pending", "listening"}
    BY <1>3 DEF Adapter
  <2>2. y = [z EXCEPT !.server = v]
    BY <1>3, <1>4 DEF Stopped, StoppedServer
  <2>3. /\ y \in Adapter /\ y.mode = z.mode /\ y.status = z.status
        /\ y.lastError = z.lastError /\ y.socket = z.socket /\ y.server = v
        /\ y.timer = z.timer
    BY <1>3, <2>1, <2>2, ZenonT(30) DEF Adapter
  <2> QED
    BY <1>3, <1>4, <2>3
<1>5. CASE adapter[a].mode # "SERVER"
  <2> PICK w : w = [z EXCEPT !.manualStop = TRUE]
    OBVIOUS
  <2>1. /\ w \in Adapter /\ w.mode = z.mode /\ w.status = z.status
        /\ w.lastError = z.lastError /\ w.socket = z.socket /\ w.server = z.server
        /\ w.manualStop = TRUE
    BY <1>3 DEF Adapter
  <2>2. y = [w EXCEPT !.timer = FALSE]
    BY <1>5 DEF Stopped, StoppedClient
  <2>3. /\ y \in Adapter /\ y.mode = w.mode /\ y.status = w.status
        /\ y.lastError = w.lastError /\ y.socket = w.socket /\ y.server = w.server
        /\ y.timer = FALSE /\ y.manualStop = TRUE
    BY <2>1, <2>2, ZenonT(30) DEF Adapter
  <2> QED
    BY <1>3, <1>5, <2>1, <2>3
<1> QED
  BY <1>4, <1>5

LEMMA StartedFacts ==
  ASSUME NEW mode \in Mode, NEW reconnect \in BOOLEAN, NEW s \in Nat \ {0},
         NEW y, y = Started(mode, reconnect, s)
  PROVE  /\ y \in Adapter /\ y.mode = mode /\ y.reconnect = reconnect /\ ~y.timer
         /\ y.lastError = "none" /\ ~y.manualStop /\ y.status # "CONNECTED"
         /\ mode = "SERVER" => y.socket = 0 /\ y.server = "pending"
         /\ mode = "CLIENT" => y.socket = s /\ y.server = "none"
BY DEF Started, Connecting, Adapter, Mode, ConnectionStatus, LastError

LEMMA ListenSucceedsFacts ==
  ASSUME TypeOK, NEW a \in 1..Len(adapter), NEW ok \in BOOLEAN, ListenSucceeds(a, ok)
  PROVE  /\ OnlyAdapter(a) /\ HandleStatusChange(adapter'[a], ok)
         /\ adapter'[a].mode = adapter[a].mode /\ adapter'[a].reconnect = adapter[a].reconnect
         /\ adapter'[a].status = "LISTENING" /\ adapter'[a].lastError = "none"
         /\ adapter'[a].server = "listening" /\ adapter'[a].socket = adapter[a].socket
         /\ adapter'[a].timer = adapter[a].timer
         /\ adapter'[a].manualStop = adapter[a].manualStop
         /\ adapter[a].server = "pending"
<1> PICK x : x = [adapter[a] EXCEPT !.server = "listening", !.status = "LISTENING",
                                    !.lastError = "none"]
  OBVIOUS
<1>1. adapter[a] \in Adapter
  BY Sizes
<1>2. /\ x \in Adapter /\ x.mode = adapter[a].mode /\ x.reconnect = adapter[a].reconnect
      /\ x.status = "LISTENING" /\ x.lastError = "none" /\ x.server = "listening"
      /\ x.socket = adapter[a].socket /\ x.timer = adapter[a].timer
      /\ x.manualStop = adapter[a].manualStop
  BY <1>1 DEF Adapter, ConnectionStatus, LastError
<1>3. SetInfo(a, x, ok) /\ adapter[a].server = "pending"
  BY DEF ListenSucceeds
<1> QED
  BY <1>2, <1>3, SetInfoFacts, ZenonT(40) DEF OnlyAdapter

LEMMA ListenFailsFacts ==
  ASSUME TypeOK, NEW a \in 1..Len(adapter), NEW ok \in BOOLEAN, ListenFails(a, ok)
  PROVE  /\ OnlyAdapter(a) /\ HandleStatusChange(adapter'[a], ok)
         /\ adapter'[a].mode = adapter[a].mode /\ adapter'[a].reconnect = adapter[a].reconnect
         /\ adapter'[a].status = "ERROR" /\ adapter'[a].lastError = "net"
         /\ adapter'[a].server = "none" /\ adapter'[a].socket = adapter[a].socket
         /\ adapter'[a].timer = adapter[a].timer
         /\ adapter'[a].manualStop = adapter[a].manualStop
         /\ adapter[a].server = "pending"
<1> PICK x : x = [adapter[a] EXCEPT !.server = "none", !.status = "ERROR", !.lastError = "net"]
  OBVIOUS
<1>1. adapter[a] \in Adapter
  BY Sizes
<1>2. /\ x \in Adapter /\ x.mode = adapter[a].mode /\ x.reconnect = adapter[a].reconnect
      /\ x.status = "ERROR" /\ x.lastError = "net" /\ x.server = "none"
      /\ x.socket = adapter[a].socket /\ x.timer = adapter[a].timer
      /\ x.manualStop = adapter[a].manualStop
  BY <1>1 DEF Adapter, ConnectionStatus, LastError
<1>3. SetInfo(a, x, ok) /\ adapter[a].server = "pending"
  BY DEF ListenFails
<1> QED
  BY <1>2, <1>3, SetInfoFacts, ZenonT(40) DEF OnlyAdapter

LEMMA HandleConnectionFacts ==
  ASSUME TypeOK, NEW a \in 1..Len(adapter), NEW ok \in BOOLEAN, HandleConnection(a, ok)
  PROVE  /\ OnlyAdapter(a) /\ HandleStatusChange(adapter'[a], ok)
         /\ adapter'[a].mode = adapter[a].mode /\ adapter'[a].reconnect = adapter[a].reconnect
         /\ adapter'[a].status = "CONNECTED" /\ adapter'[a].lastError = "none"
         /\ adapter'[a].server = "listening" /\ adapter'[a].socket = Len(socket) + 1
         /\ adapter'[a].timer = adapter[a].timer
         /\ adapter'[a].manualStop = adapter[a].manualStop
         /\ adapter[a].server = "listening" /\ adapter[a].socket = 0
         /\ NewestSocket(NewSocket(a, "open", ok, sessionId'))
         /\ sessionId' \in Nat /\ Swept /\ Len(socket) < MaxSockets
<1> PICK n : n = Len(socket) + 1
  OBVIOUS
<1> PICK x : x = [adapter[a] EXCEPT !.socket = n, !.status = "CONNECTED", !.lastError = "none"]
  OBVIOUS
<1>1. adapter[a] \in Adapter /\ n \in Nat /\ Len(socket) \in Nat
  BY Sizes
<1>2. /\ adapter[a].server = "listening" /\ adapter[a].socket = 0 /\ Swept
      /\ Len(socket) < MaxSockets /\ SetInfo(a, x, ok)
  BY DEF HandleConnection, Free
<1>3. /\ x \in Adapter /\ x.mode = adapter[a].mode /\ x.reconnect = adapter[a].reconnect
      /\ x.status = "CONNECTED" /\ x.lastError = "none" /\ x.server = "listening"
      /\ x.socket = n /\ x.timer = adapter[a].timer
      /\ x.manualStop = adapter[a].manualStop
  BY <1>1, <1>2 DEF Adapter, ConnectionStatus, LastError
<1>4. x.lastError \in LastError
  BY <1>3 DEF LastError
<1>5. OnlyAdapter(a) /\ HandleStatusChange(x, ok) /\ adapter'[a] = x
  BY <1>2, <1>3, SetInfoFacts DEF OnlyAdapter
<1>6. sessionId' \in Nat
  <2>1. sessionId' \in 0..Len(sessions') /\ sessions' \in Seq(Session)
    BY <1>4, <1>5, StatusChange, ZenonT(40) DEF SessionsTyped
  <2> QED
    BY <2>1
<1> PICK y : y = NewSocket(a, "open", ok, sessionId')
  OBVIOUS
<1>7. y \in Socket
  <2>1. a \in Nat
    BY Sizes
  <2> QED
    BY <1>6, <2>1 DEF NewSocket, Socket
<1>8. socket' = Append(socket, y) /\ socket \in Seq(Socket)
  BY DEF HandleConnection, TypeOK
<1>9. NewestSocket(y)
  BY <1>7, <1>8, AddedSocket DEF NewestSocket
<1> QED
  BY <1>2, <1>3, <1>5, <1>6, <1>9

\* The event handlers of a socket step its owner.
LEMMA Owner ==
  ASSUME TypeInv, NEW s \in 1..Len(socket), NEW a, a = socket[s].owner
  PROVE  a \in 1..Len(adapter) /\ adapter[a] \in Adapter /\ socket[s] \in Socket
BY Sizes DEF TypeInv, Indices

LEMMA ServerSocketClosesFacts ==
  ASSUME TypeInv, NEW s \in 1..Len(socket), NEW a, a = socket[s].owner,
         NEW ok \in BOOLEAN, ServerSocketCloses(s, ok)
  PROVE  /\ OnlyAdapter(a) /\ OnlySocket(s)
         /\ socket[s].state = "dying" /\ socket'[s].state = "closed"
         /\ socket'[s].failed = socket[s].failed /\ socket'[s].session = socket[s].session
         /\ writes[s] = 0 /\ adapter[a].mode = "SERVER"
         /\ adapter'[a].mode = adapter[a].mode /\ adapter'[a].reconnect = adapter[a].reconnect
         /\ adapter'[a].lastError = adapter[a].lastError
         /\ adapter'[a].server = adapter[a].server
         /\ adapter'[a].timer = adapter[a].timer
         /\ adapter'[a].manualStop = adapter[a].manualStop
         /\ \/ /\ socket[s].handled /\ adapter[a].server = "listening" /\ adapter'[a].socket = 0
               /\ adapter'[a].status = "LISTENING" /\ HandleStatusChange(adapter'[a], ok)
            \/ /\ socket[s].handled /\ adapter[a].server # "listening" /\ adapter'[a].socket = 0
               /\ adapter'[a].status = adapter[a].status /\ UNCHANGED sessionVars
            \/ ~socket[s].handled /\ UNCHANGED <<adapter, sessionVars>>
<1>1. TypeOK /\ a \in 1..Len(adapter) /\ adapter[a] \in Adapter
  BY Owner DEF TypeInv
<1> PICK f : f = [adapter[a] EXCEPT !.socket = 0]
  OBVIOUS
<1> PICK x : x = [f EXCEPT !.status = "LISTENING"]
  OBVIOUS
<1>2. /\ f \in Adapter /\ f.mode = adapter[a].mode /\ f.reconnect = adapter[a].reconnect
      /\ f.status = adapter[a].status /\ f.lastError = adapter[a].lastError
      /\ f.server = adapter[a].server /\ f.socket = 0 /\ f.timer = adapter[a].timer
      /\ f.manualStop = adapter[a].manualStop
  BY <1>1 DEF Adapter
<1>3. /\ x \in Adapter /\ x.mode = f.mode /\ x.reconnect = f.reconnect
      /\ x.status = "LISTENING" /\ x.lastError = f.lastError
      /\ x.server = f.server /\ x.socket = 0 /\ x.timer = f.timer
      /\ x.manualStop = f.manualStop
  BY <1>2 DEF Adapter, ConnectionStatus
<1>4. /\ socket[s].state = "dying" /\ adapter[a].mode = "SERVER" /\ writes[s] = 0
      /\ socket' = [socket EXCEPT ![s].state = "closed"]
      /\ \/ socket[s].handled /\ adapter[a].server = "listening" /\ SetInfo(a, x, ok)
         \/ /\ socket[s].handled /\ adapter[a].server # "listening"
            /\ adapter' = [adapter EXCEPT ![a] = f] /\ UNCHANGED sessionVars
         \/ ~socket[s].handled /\ UNCHANGED <<adapter, sessionVars>>
  BY DEF ServerSocketCloses
<1>5. OnlySocket(s) /\ socket'[s].state = "closed"
      /\ socket'[s].failed = socket[s].failed /\ socket'[s].session = socket[s].session
  BY <1>1, <1>4, StateChange DEF OnlySocket
<1>6. CASE socket[s].handled /\ adapter[a].server = "listening" /\ SetInfo(a, x, ok)
  <2>1. OnlyAdapter(a) /\ HandleStatusChange(x, ok) /\ adapter'[a] = x
    BY <1>1, <1>3, <1>6, SetInfoFacts DEF OnlyAdapter
  <2> QED
    BY <1>2, <1>3, <1>4, <1>5, <1>6, <2>1
<1>7. CASE /\ socket[s].handled /\ adapter[a].server # "listening"
           /\ adapter' = [adapter EXCEPT ![a] = f] /\ UNCHANGED sessionVars
  <2>1. OnlyAdapter(a) /\ adapter'[a] = f
    BY <1>1, <1>2, <1>7, OneReplaced
  <2> QED
    BY <1>2, <1>4, <1>5, <1>7, <2>1
<1>8. CASE ~socket[s].handled /\ UNCHANGED <<adapter, sessionVars>>
  <2>1. OnlyAdapter(a) /\ adapter'[a] = adapter[a]
    BY <1>1, <1>8 DEF OnlyAdapter, TypeOK
  <2> QED
    BY <1>4, <1>5, <1>8, <2>1
<1> QED
  BY <1>4, <1>6, <1>7, <1>8

LEMMA ConnectsFacts ==
  ASSUME TypeInv, NEW s \in 1..Len(socket), NEW a, a = socket[s].owner,
         NEW ok \in BOOLEAN, Connects(s, ok)
  PROVE  /\ OnlyAdapter(a) /\ OnlySocket(s) /\ HandleStatusChange(adapter'[a], ok)
         /\ socket[s].state = "connecting" /\ socket'[s].state = "open"
         /\ socket'[s].failed = socket[s].failed /\ socket'[s].session = sessionId'
         /\ sessionId' \in Nat /\ Swept
         /\ adapter'[a].mode = adapter[a].mode /\ adapter'[a].reconnect = adapter[a].reconnect
         /\ adapter'[a].status = "CONNECTED" /\ adapter'[a].lastError = "none"
         /\ adapter'[a].server = adapter[a].server /\ adapter'[a].socket = adapter[a].socket
         /\ adapter'[a].timer = adapter[a].timer
         /\ adapter'[a].manualStop = adapter[a].manualStop
<1>1. TypeOK /\ a \in 1..Len(adapter) /\ adapter[a] \in Adapter
  BY Owner DEF TypeInv
<1> PICK x : x = [adapter[a] EXCEPT !.status = "CONNECTED", !.lastError = "none"]
  OBVIOUS
<1>2. /\ x \in Adapter /\ x.mode = adapter[a].mode /\ x.reconnect = adapter[a].reconnect
      /\ x.status = "CONNECTED" /\ x.lastError = "none" /\ x.server = adapter[a].server
      /\ x.socket = adapter[a].socket /\ x.timer = adapter[a].timer
      /\ x.manualStop = adapter[a].manualStop
  BY <1>1 DEF Adapter, ConnectionStatus, LastError
<1>3. /\ socket[s].state = "connecting" /\ Swept /\ SetInfo(a, x, ok)
      /\ socket' = [socket EXCEPT ![s].state = "open", ![s].session = sessionId']
  BY DEF Connects
<1>4. /\ OnlyAdapter(a) /\ HandleStatusChange(x, ok) /\ adapter'[a] = x /\ x.lastError \in LastError
  BY <1>1, <1>2, <1>3, SetInfoFacts DEF OnlyAdapter
<1>5. sessionId' \in Nat
  <2>1. sessionId' \in 0..Len(sessions') /\ sessions' \in Seq(Session)
    BY <1>1, <1>4, StatusChange DEF SessionsTyped
  <2> QED
    BY <2>1
<1>6. /\ OnlySocket(s) /\ socket'[s].state = "open"
      /\ socket'[s].failed = socket[s].failed /\ socket'[s].session = sessionId'
  BY <1>1, <1>3, <1>5, ConnectedSocket DEF OnlySocket
<1> QED
  BY <1>2, <1>3, <1>4, <1>5, <1>6

LEMMA ClientSocketClosesFacts ==
  ASSUME TypeInv, NEW s \in 1..Len(socket), NEW a, a = socket[s].owner,
         NEW ok \in BOOLEAN, ClientSocketCloses(s, ok)
  PROVE  /\ OnlyAdapter(a) /\ OnlySocket(s)
         /\ socket[s].state = "dying" /\ socket'[s].state = "closed"
         /\ socket'[s].failed = socket[s].failed /\ socket'[s].session = socket[s].session
         /\ writes[s] = 0 /\ adapter[a].mode = "CLIENT"
         /\ adapter'[a].mode = adapter[a].mode /\ adapter'[a].reconnect = adapter[a].reconnect
         /\ adapter'[a].lastError = adapter[a].lastError
         /\ adapter'[a].server = adapter[a].server /\ adapter'[a].socket = 0
         /\ adapter'[a].manualStop = adapter[a].manualStop
         /\ \/ /\ adapter[a].manualStop /\ adapter'[a].timer = adapter[a].timer
               /\ adapter'[a].status = adapter[a].status /\ UNCHANGED sessionVars
            \/ /\ ~adapter[a].manualStop /\ HandleStatusChange(adapter'[a], ok)
               /\ \/ /\ adapter[a].reconnect /\ adapter'[a].timer = ok
                     /\ adapter'[a].status = "RECONNECTING"
                  \/ /\ ~adapter[a].reconnect /\ adapter'[a].timer = adapter[a].timer
                     /\ adapter'[a].status = "ERROR"
<1>1. TypeOK /\ a \in 1..Len(adapter) /\ adapter[a] \in Adapter
  BY Owner DEF TypeInv
<1> PICK f : f = [adapter[a] EXCEPT !.socket = 0]
  OBVIOUS
<1> PICK x : x = ScheduleReconnect(f, ok)
  OBVIOUS
<1>2. /\ f \in Adapter /\ f.mode = adapter[a].mode /\ f.reconnect = adapter[a].reconnect
      /\ f.status = adapter[a].status /\ f.lastError = adapter[a].lastError
      /\ f.server = adapter[a].server /\ f.socket = 0 /\ f.timer = adapter[a].timer
      /\ f.manualStop = adapter[a].manualStop
  BY <1>1 DEF Adapter
<1>3. /\ x \in Adapter /\ x.mode = f.mode /\ x.reconnect = f.reconnect
      /\ x.lastError = f.lastError /\ x.server = f.server /\ x.socket = 0
      /\ x.manualStop = f.manualStop
      /\ \/ f.reconnect /\ x.timer = ok /\ x.status = "RECONNECTING"
         \/ ~f.reconnect /\ x.timer = f.timer /\ x.status = "ERROR"
  <2>1. CASE f.reconnect
    <3>1. x = [f EXCEPT !.status = "RECONNECTING", !.timer = ok]
      BY <2>1 DEF ScheduleReconnect
    <3> QED
      BY <1>2, <2>1, <3>1, ZenonT(30) DEF Adapter, ConnectionStatus
  <2>2. CASE ~f.reconnect
    <3>1. x = [f EXCEPT !.status = "ERROR"]
      BY <2>2 DEF ScheduleReconnect
    <3> QED
      BY <1>2, <2>2, <3>1, ZenonT(30) DEF Adapter, ConnectionStatus
  <2> QED
    BY <2>1, <2>2
<1>4. /\ socket[s].state = "dying" /\ adapter[a].mode = "CLIENT" /\ writes[s] = 0
      /\ socket' = [socket EXCEPT ![s].state = "closed"]
      /\ \/ /\ adapter[a].manualStop /\ adapter' = [adapter EXCEPT ![a] = f]
            /\ UNCHANGED sessionVars
         \/ ~adapter[a].manualStop /\ SetInfo(a, x, ok)
  BY DEF ClientSocketCloses
<1>5. OnlySocket(s) /\ socket'[s].state = "closed"
      /\ socket'[s].failed = socket[s].failed /\ socket'[s].session = socket[s].session
  BY <1>1, <1>4, StateChange DEF OnlySocket
<1>6. CASE ~adapter[a].manualStop /\ SetInfo(a, x, ok)
  <2>1. OnlyAdapter(a) /\ HandleStatusChange(x, ok) /\ adapter'[a] = x
    BY <1>1, <1>3, <1>6, SetInfoFacts DEF OnlyAdapter
  <2> QED
    BY <1>2, <1>3, <1>4, <1>5, <1>6, <2>1
<1>7. CASE /\ adapter[a].manualStop /\ adapter' = [adapter EXCEPT ![a] = f]
           /\ UNCHANGED sessionVars
  <2>1. OnlyAdapter(a) /\ adapter'[a] = f
    BY <1>1, <1>2, <1>7, OneReplaced
  <2> QED
    BY <1>2, <1>4, <1>5, <1>7, <2>1
<1> QED
  BY <1>4, <1>6, <1>7

LEMMA ReconnectFacts ==
  ASSUME TypeOK, NEW a \in 1..Len(adapter), NEW ok \in BOOLEAN, Reconnect(a, ok)
  PROVE  /\ OnlyAdapter(a) /\ HandleStatusChange(adapter'[a], ok)
         /\ adapter[a].timer /\ Len(socket) < MaxSockets
         /\ adapter'[a].mode = adapter[a].mode /\ adapter'[a].reconnect = adapter[a].reconnect
         /\ adapter'[a].status = "CONNECTING" /\ adapter'[a].lastError = "none"
         /\ adapter'[a].server = adapter[a].server
         /\ ~adapter'[a].timer /\ adapter'[a].manualStop = adapter[a].manualStop
         /\ \/ /\ ok /\ adapter'[a].socket = Len(socket) + 1
               /\ NewestSocket(NewSocket(a, "connecting", TRUE, 0))
            \/ ~ok /\ adapter'[a].socket = adapter[a].socket /\ UNCHANGED socket
<1> PICK n : n = IF ok THEN Len(socket) + 1 ELSE adapter[a].socket
  OBVIOUS
<1> PICK f : f = [adapter[a] EXCEPT !.timer = FALSE]
  OBVIOUS
<1> PICK x : x = Connecting(f, n)
  OBVIOUS
<1>1. adapter[a] \in Adapter /\ Len(socket) \in Nat /\ a \in Nat
  BY Sizes
<1>2. n \in Nat
  BY <1>1 DEF Adapter
<1>3. /\ f \in Adapter /\ f.mode = adapter[a].mode /\ f.reconnect = adapter[a].reconnect
      /\ f.server = adapter[a].server /\ ~f.timer /\ f.manualStop = adapter[a].manualStop
      /\ f.socket = adapter[a].socket
  BY <1>1 DEF Adapter
<1>4. x = [f EXCEPT !.status = "CONNECTING", !.lastError = "none", !.socket = n]
  BY DEF Connecting
<1>5. /\ x \in Adapter /\ x.mode = f.mode /\ x.reconnect = f.reconnect
      /\ x.status = "CONNECTING" /\ x.lastError = "none" /\ x.server = f.server
      /\ x.socket = n /\ x.timer = f.timer /\ x.manualStop = f.manualStop
  BY <1>2, <1>3, <1>4, ZenonT(30) DEF Adapter, ConnectionStatus, LastError
<1>6. adapter[a].timer /\ Len(socket) < MaxSockets /\ SetInfo(a, x, ok)
  BY <1>3 DEF Reconnect
<1>7. OnlyAdapter(a) /\ HandleStatusChange(x, ok) /\ adapter'[a] = x
  BY <1>5, <1>6, SetInfoFacts DEF OnlyAdapter
<1> PICK y : y = NewSocket(a, "connecting", TRUE, 0)
  OBVIOUS
<1>8. y \in Socket
  BY <1>1 DEF NewSocket, Socket
<1>9. CASE ok
  <2>1. socket' = Append(socket, y) /\ socket \in Seq(Socket)
    BY <1>9 DEF Reconnect, TypeOK
  <2>2. NewestSocket(y)
    BY <1>8, <2>1, AddedSocket DEF NewestSocket
  <2> QED
    BY <1>3, <1>5, <1>6, <1>7, <1>9, <2>2
<1>10. CASE ~ok
  <2>1. UNCHANGED socket
    BY <1>10 DEF Reconnect
  <2> QED
    BY <1>3, <1>5, <1>6, <1>7, <1>10, <2>1
<1> QED
  BY <1>9, <1>10

\* A message received or sent reports the adapter as it is.
LEMMA ReportFacts ==
  ASSUME TypeOK, NEW a \in 1..Len(adapter), NEW ok, SetInfo(a, adapter[a], ok)
  PROVE  /\ OnlyAdapter(a) /\ HandleStatusChange(adapter'[a], ok) /\ adapter'[a] = adapter[a]
<1>1. adapter[a] \in Adapter
  BY Sizes
<1> QED
  BY <1>1, SetInfoFacts DEF OnlyAdapter

\* A framing error or a failure is kept as the last error.
LEMMA ErrorFacts ==
  ASSUME TypeOK, NEW a \in 1..Len(adapter), NEW e \in LastError, NEW ok,
         SetInfo(a, [adapter[a] EXCEPT !.lastError = e], ok)
  PROVE  /\ OnlyAdapter(a) /\ HandleStatusChange(adapter'[a], ok)
         /\ adapter'[a].mode = adapter[a].mode /\ adapter'[a].reconnect = adapter[a].reconnect
         /\ adapter'[a].status = adapter[a].status /\ adapter'[a].lastError = e
         /\ adapter'[a].server = adapter[a].server /\ adapter'[a].socket = adapter[a].socket
         /\ adapter'[a].timer = adapter[a].timer
         /\ adapter'[a].manualStop = adapter[a].manualStop
<1> PICK x : x = [adapter[a] EXCEPT !.lastError = e]
  OBVIOUS
<1>1. adapter[a] \in Adapter
  BY Sizes
<1>2. /\ x \in Adapter /\ x.mode = adapter[a].mode /\ x.reconnect = adapter[a].reconnect
      /\ x.status = adapter[a].status /\ x.lastError = e /\ x.server = adapter[a].server
      /\ x.socket = adapter[a].socket /\ x.timer = adapter[a].timer
      /\ x.manualStop = adapter[a].manualStop
  BY <1>1 DEF Adapter
<1>3. OnlyAdapter(a) /\ HandleStatusChange(x, ok) /\ adapter'[a] = x
  BY <1>2, SetInfoFacts DEF OnlyAdapter
<1> QED
  BY <1>2, <1>3

\* recordLog: the row it writes, when it does.
Recorded(direction, status, s) ==
  row' = [direction |-> direction, status |-> status, session |-> sessionId', socket |-> s]

LEMMA ReceiveFacts ==
  ASSUME TypeInv, NEW s \in 1..Len(socket), NEW a, a = socket[s].owner,
         NEW ok \in BOOLEAN, Receive(s, ok)
  PROVE  /\ OnlyAdapter(a) /\ HandleStatusChange(adapter'[a], ok) /\ adapter'[a] = adapter[a]
         /\ socket[s].state = "open"
         /\ row' = row \/ Recorded("RX", "COMPLETED", s)
<1>1. TypeOK /\ a \in 1..Len(adapter)
  BY Owner DEF TypeInv
<1>2. SetInfo(a, adapter[a], ok) /\ socket[s].state = "open"
  BY DEF Receive
<1>3. row' = row \/ Recorded("RX", "COMPLETED", s)
  BY DEF Receive, RecordLog, Recorded
<1> QED
  BY <1>1, <1>2, <1>3, ReportFacts

LEMMA WriteSucceedsFacts ==
  ASSUME TypeInv, NEW s \in 1..Len(socket), NEW a, a = socket[s].owner,
         NEW ok \in BOOLEAN, WriteSucceeds(s, ok)
  PROVE  /\ OnlyAdapter(a) /\ HandleStatusChange(adapter'[a], ok) /\ adapter'[a] = adapter[a]
         /\ writes[s] > 0 /\ writes' = [writes EXCEPT ![s] = writes[s] - 1]
         /\ row' = row \/ (ok /\ \E status \in {"COMPLETED", "FAILED"} : Recorded("TX", status, s))
<1>1. TypeOK /\ a \in 1..Len(adapter)
  BY Owner DEF TypeInv
<1>2. /\ SetInfo(a, adapter[a], ok)
      /\ writes[s] > 0 /\ writes' = [writes EXCEPT ![s] = writes[s] - 1]
  BY DEF WriteSucceeds
<1>3. row' = row \/ (ok /\ \E status \in {"COMPLETED", "FAILED"} : Recorded("TX", status, s))
  BY DEF WriteSucceeds, RecordLog, Recorded
<1> QED
  BY <1>1, <1>2, <1>3, ReportFacts

LEMMA FrameErrorFacts ==
  ASSUME TypeInv, NEW s \in 1..Len(socket), NEW a, a = socket[s].owner,
         NEW ok \in BOOLEAN, FrameError(s, ok)
  PROVE  /\ OnlyAdapter(a) /\ HandleStatusChange(adapter'[a], ok) /\ socket[s].state = "open"
         /\ adapter'[a].mode = adapter[a].mode /\ adapter'[a].reconnect = adapter[a].reconnect
         /\ adapter'[a].status = adapter[a].status /\ adapter'[a].lastError = "frame"
         /\ adapter'[a].server = adapter[a].server /\ adapter'[a].socket = adapter[a].socket
         /\ adapter'[a].timer = adapter[a].timer
         /\ adapter'[a].manualStop = adapter[a].manualStop
<1>1. TypeOK /\ a \in 1..Len(adapter)
  BY Owner DEF TypeInv
<1>2. SetInfo(a, [adapter[a] EXCEPT !.lastError = "frame"], ok) /\ socket[s].state = "open"
  BY DEF FrameError
<1>3. "frame" \in LastError
  BY DEF LastError
<1> QED
  BY <1>1, <1>2, <1>3, ErrorFacts

LEMMA SocketFailsFacts ==
  ASSUME TypeInv, NEW s \in 1..Len(socket), NEW a, a = socket[s].owner,
         NEW ok \in BOOLEAN, SocketFails(s, ok)
  PROVE  /\ OnlyAdapter(a) /\ OnlySocket(s)
         /\ socket[s].state \in {"connecting", "open"} /\ socket'[s].state = "dying"
         /\ socket'[s].failed = TRUE /\ socket'[s].session = socket[s].session
         /\ adapter'[a].mode = adapter[a].mode /\ adapter'[a].reconnect = adapter[a].reconnect
         /\ adapter'[a].status = adapter[a].status
         /\ adapter'[a].server = adapter[a].server /\ adapter'[a].socket = adapter[a].socket
         /\ adapter'[a].timer = adapter[a].timer
         /\ adapter'[a].manualStop = adapter[a].manualStop
         /\ \/ adapter'[a].lastError = "net" /\ HandleStatusChange(adapter'[a], ok)
            \/ ~socket[s].handled /\ UNCHANGED <<adapter, sessionVars>>
<1>1. TypeOK /\ a \in 1..Len(adapter)
  BY Owner DEF TypeInv
<1>2. /\ \/ SetInfo(a, [adapter[a] EXCEPT !.lastError = "net"], ok)
         \/ ~socket[s].handled /\ UNCHANGED <<adapter, sessionVars>>
      /\ socket[s].state \in {"connecting", "open"}
      /\ socket' = [socket EXCEPT ![s].state = "dying", ![s].failed = TRUE]
  BY DEF SocketFails
<1>3. "net" \in LastError
  BY DEF LastError
<1>4. /\ OnlySocket(s) /\ socket'[s].state = "dying"
      /\ socket'[s].failed = TRUE /\ socket'[s].session = socket[s].session
  BY <1>1, <1>2, FailingSocket DEF OnlySocket
<1>5. CASE SetInfo(a, [adapter[a] EXCEPT !.lastError = "net"], ok)
  BY <1>1, <1>2, <1>3, <1>4, <1>5, ErrorFacts
<1>6. CASE ~socket[s].handled /\ UNCHANGED <<adapter, sessionVars>>
  <2>1. OnlyAdapter(a) /\ adapter'[a] = adapter[a]
    BY <1>1, <1>6 DEF OnlyAdapter, TypeOK
  <2> QED
    BY <1>2, <1>4, <1>6, <2>1
<1> QED
  BY <1>2, <1>5, <1>6

LEMMA PeerEndsFacts ==
  ASSUME TypeInv, NEW s \in 1..Len(socket), PeerEnds(s)
  PROVE  /\ OnlySocket(s) /\ socket[s].state = "open" /\ socket'[s].state = "dying"
         /\ socket'[s].failed = socket[s].failed /\ socket'[s].session = socket[s].session
<1>1. TypeOK /\ socket[s].state = "open" /\ socket' = [socket EXCEPT ![s].state = "dying"]
  BY DEF TypeInv, PeerEnds
<1> QED
  BY <1>1, StateChange DEF OnlySocket

\* stop(): the adapter is stopped and its socket destroyed.
LEMMA StopFacts ==
  ASSUME TypeInv, NEW ok \in BOOLEAN, Stop(ok)
  PROVE  /\ current \in 1..Len(adapter) /\ OnlyAdapter(current)
         /\ adapter'[current] = Stopped(current) /\ HandleStatusChange(Stopped(current), ok)
         /\ socket' = Destroyed(current) /\ current' = IF ok THEN 0 ELSE current
<1>1. current # 0 /\ SetInfo(current, Stopped(current), ok)
  BY DEF Stop
<1>2. current \in 1..Len(adapter) /\ TypeOK
  BY <1>1, Sizes DEF TypeInv, TypeOK
<1>3. Stopped(current) \in Adapter
  BY <1>2, StoppedFacts
<1> QED
  BY <1>1, <1>2, <1>3, SetInfoFacts DEF OnlyAdapter, Stop

\* What start() and stop() leave of the sockets.
KeptSocket(s) ==
  /\ socket'[s].owner = socket[s].owner /\ socket'[s].failed = socket[s].failed
  /\ socket'[s].session = socket[s].session /\ socket'[s].handled = socket[s].handled
  /\ socket'[s].state = IF /\ current # 0 /\ adapter[current].socket = s
                           /\ socket[s].state # "closed"
                        THEN "dying" ELSE socket[s].state

LEMMA StartFacts ==
  ASSUME TypeInv, NEW mode \in Mode, NEW reconnect \in BOOLEAN, Start(mode, reconnect)
  PROVE  /\ adapter' \in Seq(Adapter) /\ Len(adapter') = Len(adapter) + 1
         /\ adapter'[Len(adapter) + 1] = Started(mode, reconnect, Len(socket) + 1)
         /\ \A b \in 1..Len(adapter) :
              adapter'[b] = IF b = current THEN Stopped(current) ELSE adapter[b]
         /\ current' = Len(adapter) + 1
         /\ \/ current = 0 /\ mode = "SERVER" /\ UNCHANGED sessionVars
            \/ /\ current = 0 /\ mode = "CLIENT"
               /\ HandleStatusChange(Started(mode, reconnect, Len(socket) + 1), TRUE)
            \/ current # 0 /\ HandleStatusChange(Stopped(current), TRUE)
         /\ socket' \in Seq(Socket) /\ \A s \in 1..Len(socket) : KeptSocket(s)
         /\ mode = "SERVER" => Len(socket') = Len(socket)
         /\ mode = "CLIENT" =>
              /\ Len(socket') = Len(socket) + 1 /\ Len(socket) < MaxSockets
              /\ socket'[Len(socket) + 1] = NewSocket(Len(adapter) + 1, "connecting", TRUE, 0)
<1> PICK n : n = Len(adapter) + 1
  OBVIOUS
<1> PICK m : m = Len(socket) + 1
  OBVIOUS
<1> PICK x : x = Started(mode, reconnect, m)
  OBVIOUS
<1> PICK stopped : stopped = IF current = 0 THEN adapter
                             ELSE [adapter EXCEPT ![current] = Stopped(current)]
  OBVIOUS
<1> PICK kept : kept = IF current = 0 THEN socket ELSE Destroyed(current)
  OBVIOUS
<1> PICK y : y = NewSocket(n, "connecting", TRUE, 0)
  OBVIOUS
<1>1. /\ TypeOK /\ adapter \in Seq(Adapter) /\ socket \in Seq(Socket)
      /\ Len(adapter) \in Nat /\ Len(socket) \in Nat
      /\ current # 0 => current \in 1..Len(adapter)
  BY Sizes DEF TypeInv, TypeOK
<1>2. /\ mode = "CLIENT" => Len(socket) < MaxSockets
      /\ current # 0 \/ mode = "CLIENT" =>
           HandleStatusChange(IF current = 0 THEN x ELSE stopped[current], TRUE)
      /\ current = 0 /\ mode = "SERVER" => UNCHANGED sessionVars
      /\ adapter' = Append(stopped, x)
      /\ socket' = (IF mode = "CLIENT" THEN Append(kept, y) ELSE kept)
      /\ current' = n
  BY DEF Start
<1>3. x \in Adapter
  BY <1>1, StartedFacts
<1>4. current # 0 => Stopped(current) \in Adapter
  BY <1>1, StoppedFacts
<1>5. /\ stopped \in Seq(Adapter) /\ Len(stopped) = Len(adapter)
      /\ \A b \in 1..Len(adapter) :
           stopped[b] = IF b = current THEN Stopped(current) ELSE adapter[b]
  <2>1. CASE current = 0
    BY <1>1, <2>1
  <2>2. CASE current # 0
    <3>1. stopped = [adapter EXCEPT ![current] = Stopped(current)]
      BY <2>2
    <3> QED
      BY <1>1, <1>4, <2>2, <3>1, ExceptSeq
  <2> QED
    BY <2>1, <2>2
<1>6. /\ adapter' \in Seq(Adapter) /\ Len(adapter') = Len(adapter) + 1
      /\ adapter'[Len(adapter) + 1] = x
      /\ \A b \in 1..Len(adapter) : adapter'[b] = stopped[b]
  BY <1>2, <1>3, <1>5, AppendProperties
<1>7. /\ kept \in Seq(Socket) /\ Len(kept) = Len(socket)
      /\ \A s \in 1..Len(socket) :
           /\ kept[s].owner = socket[s].owner /\ kept[s].failed = socket[s].failed
           /\ kept[s].session = socket[s].session /\ kept[s].handled = socket[s].handled
           /\ kept[s].state = IF /\ current # 0 /\ adapter[current].socket = s
                                 /\ socket[s].state # "closed"
                              THEN "dying" ELSE socket[s].state
  <2>1. CASE current = 0
    BY <1>1, <2>1
  <2>2. CASE current # 0
    <3>1. kept = Destroyed(current)
      BY <2>2
    <3> QED
      BY <1>1, <2>2, <3>1, DestroyedSocket
  <2> QED
    BY <2>1, <2>2
<1>8. mode = "SERVER" => socket' = kept
  BY <1>2
<1>9. mode = "CLIENT" =>
        /\ socket' \in Seq(Socket) /\ Len(socket') = Len(socket) + 1
        /\ socket'[Len(socket) + 1] = y
        /\ \A s \in 1..Len(socket) : socket'[s] = kept[s]
  <2>1. y \in Socket
    BY <1>1 DEF NewSocket, Socket
  <2>2. /\ Append(kept, y) \in Seq(Socket) /\ Len(Append(kept, y)) = Len(kept) + 1
        /\ Append(kept, y)[Len(kept) + 1] = y
        /\ \A i \in 1..Len(kept) : Append(kept, y)[i] = kept[i]
    BY <1>7, <2>1, AddedSocket, ZenonT(40)
  <2>3. mode = "CLIENT" => socket' = Append(kept, y)
    BY <1>2
  <2> QED
    BY <1>7, <2>2, <2>3
<1>10. socket' \in Seq(Socket) /\ \A s \in 1..Len(socket) : KeptSocket(s)
  <2>1. /\ socket' \in Seq(Socket)
        /\ \A s \in 1..Len(socket) : socket'[s] = kept[s]
    BY <1>7, <1>8, <1>9 DEF Mode
  <2>2. ASSUME NEW s \in 1..Len(socket) PROVE KeptSocket(s)
    <3>1. socket'[s] = kept[s]
      BY <2>1
    <3> QED
      BY <1>7, <3>1 DEF KeptSocket
  <2> QED
    BY <2>1, <2>2
<1>11. current # 0 => stopped[current] = Stopped(current)
  BY <1>1, <1>5
<1>12. \/ current = 0 /\ mode = "SERVER" /\ UNCHANGED sessionVars
       \/ current = 0 /\ mode = "CLIENT" /\ HandleStatusChange(x, TRUE)
       \/ current # 0 /\ HandleStatusChange(Stopped(current), TRUE)
  BY <1>2, <1>11 DEF Mode
<1>13. \A b \in 1..Len(adapter) :
         adapter'[b] = IF b = current THEN Stopped(current) ELSE adapter[b]
  BY <1>5, <1>6
<1> QED
  BY <1>2, <1>6, <1>7, <1>8, <1>9, <1>10, <1>12, <1>13

LEMMA CrashFacts ==
  ASSUME TypeOK, Crash
  PROVE  /\ adapter' \in Seq(Adapter) /\ Len(adapter') = Len(adapter)
         /\ \A a \in 1..Len(adapter) :
              /\ adapter'[a].mode = adapter[a].mode /\ adapter'[a].status = "STOPPED"
              /\ adapter'[a].server = "none" /\ adapter'[a].socket = 0
              /\ ~adapter'[a].timer /\ adapter'[a].manualStop
         /\ socket' \in Seq(Socket) /\ Len(socket') = Len(socket)
         /\ \A s \in 1..Len(socket) :
              /\ socket'[s].owner = socket[s].owner /\ socket'[s].state = "closed"
              /\ socket'[s].failed = socket[s].failed
              /\ socket'[s].session = socket[s].session
              /\ socket'[s].handled = socket[s].handled
<1>1. /\ Len(adapter) \in Nat /\ DOMAIN adapter = 1..Len(adapter)
      /\ Len(socket) \in Nat /\ DOMAIN socket = 1..Len(socket)
      /\ \A a \in 1..Len(adapter) : adapter[a] \in Adapter
      /\ \A s \in 1..Len(socket) : socket[s] \in Socket
  BY Sizes
<1>2. \A a \in 1..Len(adapter) :
        /\ adapter'[a] \in Adapter /\ adapter'[a].mode = adapter[a].mode
        /\ adapter'[a].status = "STOPPED" /\ adapter'[a].server = "none"
        /\ adapter'[a].socket = 0 /\ ~adapter'[a].timer /\ adapter'[a].manualStop
  <2> SUFFICES ASSUME NEW a \in 1..Len(adapter)
               PROVE  /\ adapter'[a] \in Adapter /\ adapter'[a].mode = adapter[a].mode
                      /\ adapter'[a].status = "STOPPED" /\ adapter'[a].server = "none"
                      /\ adapter'[a].socket = 0 /\ ~adapter'[a].timer /\ adapter'[a].manualStop
    OBVIOUS
  <2> PICK x : x = [adapter[a] EXCEPT !.status = "STOPPED", !.server = "none"]
    OBVIOUS
  <2> PICK z : z = [x EXCEPT !.socket = 0, !.timer = FALSE]
    OBVIOUS
  <2> PICK v : v = [z EXCEPT !.manualStop = TRUE]
    OBVIOUS
  <2>1. x \in Adapter /\ x.mode = adapter[a].mode /\ x.status = "STOPPED" /\ x.server = "none"
    BY <1>1 DEF Adapter, ConnectionStatus
  <2>2. /\ z \in Adapter /\ z.mode = x.mode /\ z.status = x.status /\ z.server = x.server
        /\ z.socket = 0 /\ ~z.timer
    BY <2>1 DEF Adapter
  <2>3. /\ v \in Adapter /\ v.mode = z.mode /\ v.status = z.status /\ v.server = z.server
        /\ v.socket = z.socket /\ v.timer = z.timer /\ v.manualStop
    BY <2>2 DEF Adapter
  <2>4. adapter'[a] = v
    BY <1>1 DEF Crash
  <2> QED
    BY <2>1, <2>2, <2>3, <2>4
<1>3. \A s \in 1..Len(socket) :
        /\ socket'[s] \in Socket
        /\ socket'[s].owner = socket[s].owner /\ socket'[s].state = "closed"
        /\ socket'[s].failed = socket[s].failed /\ socket'[s].session = socket[s].session
        /\ socket'[s].handled = socket[s].handled
  <2>1. \A s \in 1..Len(socket) : socket'[s] = [socket[s] EXCEPT !.state = "closed"]
    BY <1>1 DEF Crash
  <2> QED
    BY <1>1, <2>1, ZenonT(30) DEF Socket
<1>4. /\ adapter' = [a \in 1..Len(adapter) |-> adapter'[a]]
      /\ socket' = [s \in 1..Len(socket) |-> socket'[s]]
  BY <1>1 DEF Crash
<1>5. adapter' \in Seq(Adapter) /\ Len(adapter') = Len(adapter)
  <2> PICK d : d = adapter'
    OBVIOUS
  <2>1. d \in [1..Len(adapter) -> Adapter]
    BY <1>2, <1>4
  <2> QED
    BY <1>1, <2>1, MadeSeq
<1>6. socket' \in Seq(Socket) /\ Len(socket') = Len(socket)
  <2> PICK d : d = socket'
    OBVIOUS
  <2>1. d \in [1..Len(socket) -> Socket]
    BY <1>3, <1>4
  <2> QED
    BY <1>1, <2>1, MadeSeq
<1> QED
  BY <1>2, <1>3, <1>5, <1>6

-----------------------------------------------------------------------------
(* The types.                                                              *)

LEMMA TypeStep ==
  ASSUME TypeInv, SessionsTyped,
         adapter' \in Seq(Adapter), Len(adapter) <= Len(adapter'), current' \in 0..Len(adapter'),
         socket' \in Seq(Socket), Len(socket) <= Len(socket'), Len(socket') <= MaxSockets,
         \A s \in 1..Len(socket') :
           socket'[s].owner \in 1..Len(adapter') /\ socket'[s].session <= Len(sessions'),
         \A a \in 1..Len(adapter') : adapter'[a].socket <= Len(socket'),
         row' = row \/ (row' \in Row /\ row'.socket <= Len(socket')),
         writes' \in [1..MaxSockets -> Nat], sends' \in Nat, crashes' \in Nat,
         cutOff' \subseteq 1..Len(sessions')
  PROVE  TypeInv'
<1>1. /\ sessions' \in Seq(Session) /\ sessionId' \in 0..Len(sessions') /\ faults' \in Nat
      /\ unended' \subseteq 1..Len(sessions')
  BY DEF SessionsTyped
<1>2. cutOff' \subseteq DOMAIN sessions' /\ unended' \subseteq DOMAIN sessions'
  BY <1>1, LenProperties
<1>3. row' \in Row \cup {NoRow} /\ (row' # NoRow => row'.socket <= Len(socket'))
  <2>1. CASE row' = row
    <3>1. row \in Row \cup {NoRow} /\ (row # NoRow => row.socket <= Len(socket))
      BY DEF TypeInv, TypeOK, Indices
    <3>2. row # NoRow => row.socket \in Nat
      BY <3>1 DEF Row
    <3>3. Len(socket) \in Nat /\ Len(socket') \in Nat
      BY Sizes, LenProperties DEF TypeInv
    <3> QED
      BY <2>1, <3>1, <3>2, <3>3, SMTT(30)
  <2>2. CASE row' \in Row /\ row'.socket <= Len(socket')
    BY <2>2
  <2> QED
    BY <2>1, <2>2
<1>4. TypeOK'
  BY <1>1, <1>2, <1>3 DEF TypeOK
<1>5. Indices'
  BY <1>3 DEF Indices
<1> QED
  BY <1>4, <1>5 DEF TypeInv

\* A step of one adapter, and at most of its socket or of a new one.
LEMMA TypeOneAdapter ==
  ASSUME TypeInv, NEW a \in 1..Len(adapter), OnlyAdapter(a),
         SessionsTyped,
         \/ UNCHANGED socket
         \/ \E s \in 1..Len(socket) : OnlySocket(s) /\ socket'[s].session <= Len(sessions')
         \/ /\ Len(socket) < MaxSockets
            /\ \E state, handled, session :
                 /\ NewestSocket(NewSocket(a, state, handled, session))
                 /\ session <= Len(sessions'),
         adapter'[a].socket <= Len(socket'),
         row' = row \/ (row' \in Row /\ row'.socket <= Len(socket')),
         writes' \in [1..MaxSockets -> Nat], UNCHANGED <<current, sends, crashes, cutOff>>
  PROVE  TypeInv'
<1>1. /\ TypeOK /\ Len(adapter) \in Nat /\ Len(socket) \in Nat /\ Len(sessions) \in Nat
      /\ Len(sessions') \in Nat /\ Len(sessions) <= Len(sessions') /\ socket \in Seq(Socket)
      /\ \A s \in 1..Len(socket) : socket[s] \in Socket
      /\ \A b \in 1..Len(adapter) : adapter[b] \in Adapter
  BY Sizes, LenProperties DEF TypeInv, TypeOK, SessionsTyped
<1>2. /\ adapter' \in Seq(Adapter) /\ Len(adapter') = Len(adapter)
      /\ \A b \in 1..Len(adapter) : b # a => adapter'[b] = adapter[b]
  BY DEF OnlyAdapter
<1>3. /\ Len(socket) <= MaxSockets
      /\ \A s \in 1..Len(socket) :
           socket[s].owner \in 1..Len(adapter) /\ socket[s].session <= Len(sessions)
      /\ \A b \in 1..Len(adapter) : adapter[b].socket <= Len(socket)
  BY DEF TypeInv, Indices
<1>4. \A s \in 1..Len(socket) : socket[s].session \in Nat
  BY <1>1 DEF Socket
<1>5. \A b \in 1..Len(adapter) : adapter[b].socket \in Nat
  BY <1>1 DEF Adapter
<1>6. /\ socket' \in Seq(Socket) /\ Len(socket) <= Len(socket') /\ Len(socket') <= MaxSockets
      /\ \A s \in 1..Len(socket') :
           socket'[s].owner \in 1..Len(adapter) /\ socket'[s].session <= Len(sessions')
  <2>1. CASE UNCHANGED socket
    BY <1>1, <1>3, <1>4, <2>1
  <2>2. CASE \E s \in 1..Len(socket) : OnlySocket(s) /\ socket'[s].session <= Len(sessions')
    <3> PICK s \in 1..Len(socket) : OnlySocket(s) /\ socket'[s].session <= Len(sessions')
      BY <2>2
    <3>1. /\ socket' \in Seq(Socket) /\ Len(socket') = Len(socket)
          /\ socket'[s].owner = socket[s].owner
          /\ \A i \in 1..Len(socket) : i # s => socket'[i] = socket[i]
      BY DEF OnlySocket
    <3> QED
      BY <1>1, <1>3, <1>4, <3>1, SMTT(30)
  <2>3. CASE /\ Len(socket) < MaxSockets
             /\ \E state, handled, session :
                  /\ NewestSocket(NewSocket(a, state, handled, session))
                  /\ session <= Len(sessions')
    <3> PICK state, handled, session : /\ NewestSocket(NewSocket(a, state, handled, session))
                                       /\ session <= Len(sessions')
      BY <2>3
    <3>1. /\ socket' \in Seq(Socket) /\ Len(socket') = Len(socket) + 1
          /\ socket'[Len(socket) + 1].owner = a
          /\ socket'[Len(socket) + 1].session = session
          /\ \A i \in 1..Len(socket) : socket'[i] = socket[i]
      BY DEF NewestSocket, NewSocket
    <3>2. MaxSockets \in Nat /\ Len(socket) < MaxSockets /\ session <= Len(sessions')
      BY <2>3, BoundIsNat
    <3>3. \A s \in 1..Len(socket') : s \in 1..Len(socket) \/ s = Len(socket) + 1
      BY <1>1, <3>1
    <3>4. Len(socket) <= Len(socket') /\ Len(socket') <= MaxSockets
      BY <1>1, <3>1, <3>2
    <3>5. \A s \in 1..Len(socket) :
            socket'[s].owner \in 1..Len(adapter) /\ socket'[s].session <= Len(sessions')
      BY <1>1, <1>3, <1>4, <3>1, SMTT(30)
    <3> QED
      BY <3>1, <3>2, <3>3, <3>4, <3>5
  <2> QED
    BY <2>1, <2>2, <2>3
<1>7. \A b \in 1..Len(adapter') : adapter'[b].socket <= Len(socket')
  <2>1. Len(socket') \in Nat
    BY <1>6, LenProperties
  <2> QED
    BY <1>1, <1>2, <1>3, <1>5, <1>6, <2>1
<1>8. cutOff' \subseteq 1..Len(sessions')
  BY <1>1, Sizes DEF TypeOK
<1>9. current' \in 0..Len(adapter') /\ sends' \in Nat /\ crashes' \in Nat
  BY <1>1, <1>2 DEF TypeOK
<1> QED
  BY <1>1, <1>2, <1>6, <1>7, <1>8, <1>9, TypeStep

LEMMA RowTyped ==
  ASSUME NEW direction \in {"RX", "TX"}, NEW status \in {"COMPLETED", "FAILED"},
         NEW session \in Nat, NEW s \in Nat, NEW r,
         r = [direction |-> direction, status |-> status, session |-> session, socket |-> s]
  PROVE  r \in Row /\ r.socket = s
BY DEF Row

LEMMA WritesTyped ==
  ASSUME TypeInv, NEW s \in 1..Len(socket), NEW n \in Nat, writes' = [writes EXCEPT ![s] = n]
  PROVE  writes' \in [1..MaxSockets -> Nat]
BY DEF TypeInv, TypeOK

\* Every operation and every event keeps the types, for both kinds of address.
LEMMA TypeInductive == TypeInv /\ [Next]_vars => TypeInv'
<1> SUFFICES ASSUME TypeInv, [Next]_vars PROVE TypeInv'
  OBVIOUS
<1>1. /\ TypeOK /\ Len(adapter) \in Nat /\ Len(socket) \in Nat /\ Len(sessions) \in Nat
      /\ DOMAIN adapter = 1..Len(adapter) /\ DOMAIN socket = 1..Len(socket)
      /\ adapter \in Seq(Adapter) /\ socket \in Seq(Socket) /\ sessions \in Seq(Session)
      /\ sessionId \in 0..Len(sessions) /\ writes \in [1..MaxSockets -> Nat]
      /\ sends \in Nat /\ crashes \in Nat
  BY Sizes DEF TypeInv, TypeOK
<1>2. /\ \A a \in 1..Len(adapter) : adapter[a].socket \in Nat /\ adapter[a].socket <= Len(socket)
      /\ \A s \in 1..Len(socket) : socket[s].session \in Nat /\ socket[s].session <= Len(sessions)
      /\ \A s \in 1..Len(socket) : socket[s].owner \in 1..Len(adapter)
      /\ current \in 0..Len(adapter) /\ cutOff \subseteq 1..Len(sessions)
      /\ Len(socket) <= MaxSockets
  BY Sizes DEF TypeInv, TypeOK, Indices, Adapter, Socket
<1>3. ASSUME NEW info, info.lastError \in LastError, NEW ok \in BOOLEAN,
             HandleStatusChange(info, ok) \/ UNCHANGED sessionVars
      PROVE  /\ SessionsTyped /\ Len(sessions') \in Nat
             /\ sessionId' \in 0..Len(sessions') /\ sessionId' \in Nat
             /\ \A s \in 1..Len(socket) : socket[s].session <= Len(sessions')
  <2>1. /\ SessionsTyped
        /\ sessions' \in Seq(Session) /\ Len(sessions) <= Len(sessions')
        /\ sessionId' \in 0..Len(sessions')
    BY <1>1, <1>3, StatusChange, SessionsSame DEF SessionsTyped
  <2>2. Len(sessions') \in Nat
    BY <2>1, LenProperties
  <2>3. PICK l, m : l = Len(sessions) /\ m = Len(sessions')
    OBVIOUS
  <2>4. l \in Nat /\ m \in Nat /\ l <= m /\ sessionId' \in 0..m
    BY <1>1, <2>1, <2>2, <2>3
  <2>5. \A s \in 1..Len(socket) : socket[s].session \in Nat /\ socket[s].session <= l
    BY <1>2, <2>3
  <2>6. \A s \in 1..Len(socket) : socket[s].session <= m
    BY <2>4, <2>5
  <2>7. sessionId' \in Nat
    BY <2>4
  <2> QED
    BY <2>1, <2>2, <2>3, <2>6, <2>7
<1>4. ASSUME NEW a \in 1..Len(adapter), OnlyAdapter(a)
      PROVE  adapter'[a].lastError \in LastError /\ adapter'[a].socket \in Nat
  <2>1. adapter'[a] \in Adapter
    BY <1>4, ElementOfSeq DEF OnlyAdapter
  <2> QED
    BY <2>1 DEF Adapter
<1>5. UNCHANGED writes => writes' \in [1..MaxSockets -> Nat]
  BY <1>1
<1>6. ASSUME NEW mode \in Mode, NEW reconnect \in BOOLEAN, Start(mode, reconnect)
      PROVE  TypeInv'
  <2> PICK n : n = Len(adapter) + 1
    OBVIOUS
  <2> PICK x : x = Started(mode, reconnect, Len(socket) + 1)
    OBVIOUS
  <2>1. /\ adapter' \in Seq(Adapter) /\ Len(adapter') = n /\ adapter'[n] = x
        /\ \A b \in 1..Len(adapter) :
             adapter'[b] = IF b = current THEN Stopped(current) ELSE adapter[b]
        /\ current' = n
        /\ \/ UNCHANGED sessionVars
           \/ HandleStatusChange(x, TRUE)
           \/ current # 0 /\ HandleStatusChange(Stopped(current), TRUE)
        /\ socket' \in Seq(Socket) /\ \A s \in 1..Len(socket) : KeptSocket(s)
        /\ mode = "SERVER" => Len(socket') = Len(socket)
        /\ mode = "CLIENT" =>
             /\ Len(socket') = Len(socket) + 1 /\ Len(socket) < MaxSockets
             /\ socket'[Len(socket) + 1] = NewSocket(n, "connecting", TRUE, 0)
    BY <1>6, StartFacts, Zenon
  <2>2. /\ x \in Adapter /\ x.lastError = "none"
        /\ mode = "SERVER" => x.socket = 0
        /\ mode = "CLIENT" => x.socket = Len(socket) + 1
    BY <1>1, StartedFacts
  <2>3. current # 0 => Stopped(current) \in Adapter /\ Stopped(current).socket = 0
    <3>1. current # 0 => current \in 1..Len(adapter)
      BY <1>1, <1>2
    <3> QED
      BY <1>1, <3>1, StoppedFacts
  <2>4. x.lastError \in LastError /\ (current # 0 => Stopped(current).lastError \in LastError)
    BY <2>2, <2>3 DEF Adapter
  <2>5. /\ SessionsTyped /\ Len(sessions') \in Nat
        /\ \A s \in 1..Len(socket) : socket[s].session <= Len(sessions')
    <3>1. CASE current # 0 /\ HandleStatusChange(Stopped(current), TRUE)
      BY <1>3, <2>4, <3>1
    <3>2. CASE UNCHANGED sessionVars \/ HandleStatusChange(x, TRUE)
      BY <1>3, <2>4, <3>2
    <3> QED
      BY <2>1, <3>1, <3>2
  <2>6. \A s \in 1..Len(socket) :
          socket'[s].owner \in 1..n /\ socket'[s].session <= Len(sessions')
    <3>1. \A s \in 1..Len(socket) : /\ socket'[s].owner = socket[s].owner
                                    /\ socket'[s].session = socket[s].session
      BY <2>1 DEF KeptSocket
    <3>2. \A i \in 1..Len(adapter) : i \in 1..n
      BY <1>1
    <3>3. ASSUME NEW s \in 1..Len(socket)
          PROVE  socket'[s].owner \in 1..n /\ socket'[s].session <= Len(sessions')
      <4>1. socket[s].owner \in 1..Len(adapter) /\ socket[s].session <= Len(sessions')
        BY <1>2, <2>5
      <4> QED
        BY <3>1, <3>2, <4>1
    <3> QED
      BY <3>3
  <2>7. ASSUME NEW b \in 1..Len(adapter)
        PROVE  adapter'[b].socket \in Nat /\ adapter'[b].socket <= Len(socket)
    <3>1. adapter'[b] = IF b = current THEN Stopped(current) ELSE adapter[b]
      BY <2>1
    <3>2. CASE b = current
      <4>1. current # 0 /\ adapter'[b] = Stopped(current)
        BY <1>1, <3>1, <3>2
      <4>2. adapter'[b].socket = 0
        BY <2>3, <4>1
      <4> QED
        BY <1>1, <4>2
    <3>3. CASE b # current
      <4>1. adapter'[b] = adapter[b]
        BY <3>1, <3>3
      <4> QED
        BY <1>2, <4>1
    <3> QED
      BY <3>2, <3>3
  <2>8. \A b \in 1..n : b \in 1..Len(adapter) \/ b = n
    BY <1>1
  <2>9. /\ Len(adapter) <= Len(adapter') /\ current' \in 0..Len(adapter')
    BY <1>1, <2>1
  <2>10. UNCHANGED <<row, writes, sends, crashes, cutOff>>
    BY <1>6 DEF Start
  <2>11. cutOff' \subseteq 1..Len(sessions')
    BY <1>1, <1>2, <2>5, <2>10 DEF SessionsTyped
  <2>12. /\ Len(socket) <= Len(socket') /\ Len(socket') <= MaxSockets
         /\ \A s \in 1..Len(socket') :
              socket'[s].owner \in 1..Len(adapter') /\ socket'[s].session <= Len(sessions')
         /\ \A a \in 1..Len(adapter') : adapter'[a].socket <= Len(socket')
    <3>1. CASE mode = "SERVER"
      BY <1>1, <1>2, <2>1, <2>2, <2>6, <2>7, <2>8, <3>1
    <3>2. CASE mode = "CLIENT"
      <4>1. /\ Len(socket') = Len(socket) + 1 /\ Len(socket) < MaxSockets
            /\ socket'[Len(socket) + 1].owner = n /\ socket'[Len(socket) + 1].session = 0
        BY <2>1, <3>2 DEF NewSocket
      <4>2. \A s \in 1..Len(socket') : s \in 1..Len(socket) \/ s = Len(socket) + 1
        BY <1>1, <4>1
      <4>3. Len(socket) <= Len(socket') /\ Len(socket') <= MaxSockets
        BY <1>1, <4>1, BoundIsNat
      <4>4. \A s \in 1..Len(socket') :
              socket'[s].owner \in 1..Len(adapter') /\ socket'[s].session <= Len(sessions')
        <5>1. n \in 1..n /\ 0 <= Len(sessions') /\ Len(adapter') = n
          BY <1>1, <2>1, <2>5
        <5> QED
          BY <2>6, <4>1, <4>2, <5>1
      <4>5. \A a \in 1..Len(adapter') : adapter'[a].socket <= Len(socket')
        BY <1>1, <2>1, <2>2, <2>7, <2>8, <3>2, <4>1
      <4> QED
        BY <4>3, <4>4, <4>5
    <3> QED
      BY <3>1, <3>2 DEF Mode
  <2> QED
    BY <1>1, <2>1, <2>5, <2>9, <2>10, <2>11, <2>12, TypeStep
<1>7. ASSUME NEW ok \in BOOLEAN, Stop(ok) PROVE TypeInv'
  <2>1. /\ current \in 1..Len(adapter) /\ OnlyAdapter(current)
        /\ adapter'[current] = Stopped(current) /\ HandleStatusChange(adapter'[current], ok)
        /\ socket' = Destroyed(current) /\ current' = IF ok THEN 0 ELSE current
    BY <1>7, StopFacts
  <2>2. /\ SessionsTyped /\ Len(sessions') \in Nat
        /\ \A s \in 1..Len(socket) : socket[s].session <= Len(sessions')
    BY <1>3, <1>4, <2>1
  <2>3. Stopped(current).socket = 0
    BY <1>1, <2>1, StoppedFacts
  <2>4. /\ socket' \in Seq(Socket) /\ Len(socket') = Len(socket)
        /\ \A s \in 1..Len(socket) : /\ socket'[s].owner = socket[s].owner
                                     /\ socket'[s].session = socket[s].session
    BY <1>1, <2>1, DestroyedSocket
  <2>5. /\ adapter' \in Seq(Adapter) /\ Len(adapter') = Len(adapter)
        /\ \A a \in 1..Len(adapter) : adapter'[a].socket <= Len(socket)
    BY <1>1, <1>2, <2>1, <2>3 DEF OnlyAdapter
  <2>6. /\ UNCHANGED <<row, writes, sends, crashes, cutOff>> /\ current' \in 0..Len(adapter')
        /\ cutOff' \subseteq 1..Len(sessions')
    BY <1>1, <1>2, <1>7, <2>1, <2>2, <2>5 DEF Stop, SessionsTyped
  <2>7. \A s \in 1..Len(socket') :
          socket'[s].owner \in 1..Len(adapter') /\ socket'[s].session <= Len(sessions')
    BY <1>2, <2>2, <2>4, <2>5
  <2> QED
    BY <1>1, <1>2, <2>2, <2>4, <2>5, <2>6, <2>7, TypeStep
<1>8. ASSUME NEW a \in 1..Len(adapter), NEW ok \in BOOLEAN, ListenSucceeds(a, ok)
      PROVE  TypeInv'
  <2>1. OnlyAdapter(a) /\ HandleStatusChange(adapter'[a], ok) /\ adapter'[a].socket <= Len(socket)
    BY <1>1, <1>2, <1>8, ListenSucceedsFacts
  <2> QED
    BY <1>3, <1>4, <1>5, <1>8, <2>1, TypeOneAdapter DEF ListenSucceeds
<1>9. ASSUME NEW a \in 1..Len(adapter), NEW ok \in BOOLEAN, ListenFails(a, ok)
      PROVE  TypeInv'
  <2>1. OnlyAdapter(a) /\ HandleStatusChange(adapter'[a], ok) /\ adapter'[a].socket <= Len(socket)
    BY <1>1, <1>2, <1>9, ListenFailsFacts
  <2> QED
    BY <1>3, <1>4, <1>5, <1>9, <2>1, TypeOneAdapter DEF ListenFails
<1>10. ASSUME NEW a \in 1..Len(adapter), NEW ok \in BOOLEAN, HandleConnection(a, ok)
       PROVE  TypeInv'
  <2>1. /\ OnlyAdapter(a) /\ HandleStatusChange(adapter'[a], ok)
        /\ adapter'[a].socket = Len(socket) + 1 /\ Len(socket) < MaxSockets
        /\ NewestSocket(NewSocket(a, "open", ok, sessionId'))
    BY <1>1, <1>10, HandleConnectionFacts
  <2>2. sessionId' <= Len(sessions') /\ adapter'[a].socket <= Len(socket')
    <3>1. sessionId' \in 0..Len(sessions') /\ Len(sessions') \in Nat
      BY <1>3, <1>4, <2>1
    <3>2. Len(socket') = Len(socket) + 1
      BY <2>1 DEF NewestSocket
    <3> QED
      BY <1>1, <2>1, <3>1, <3>2
  <2> QED
    BY <1>3, <1>4, <1>5, <1>10, <2>1, <2>2, TypeOneAdapter DEF HandleConnection
<1>11. ASSUME NEW s \in 1..Len(socket), NEW ok \in BOOLEAN, ServerSocketCloses(s, ok)
       PROVE  TypeInv'
  <2> PICK a : a = socket[s].owner
    OBVIOUS
  <2>1. /\ a \in 1..Len(adapter) /\ OnlyAdapter(a) /\ OnlySocket(s)
        /\ socket'[s].session = socket[s].session
        /\ adapter'[a].socket \in {0, adapter[a].socket}
        /\ HandleStatusChange(adapter'[a], ok) \/ UNCHANGED sessionVars
    <3>1. a \in 1..Len(adapter)
      BY Owner
    <3>2. /\ OnlyAdapter(a) /\ OnlySocket(s)
          /\ socket'[s].session = socket[s].session
          /\ adapter'[a].socket \in {0, adapter[a].socket}
          /\ HandleStatusChange(adapter'[a], ok) \/ UNCHANGED sessionVars
      BY <1>11, ServerSocketClosesFacts
    <3> QED
      BY <3>1, <3>2
  <2>2. /\ SessionsTyped /\ Len(sessions') \in Nat
        /\ \A i \in 1..Len(socket) : socket[i].session <= Len(sessions')
    BY <1>3, <1>4, <2>1
  <2>3. socket'[s].session <= Len(sessions') /\ adapter'[a].socket <= Len(socket')
    <3>1. Len(socket') = Len(socket)
      BY <2>1 DEF OnlySocket
    <3> QED
      BY <1>1, <1>2, <2>1, <2>2, <3>1
  <2> QED
    BY <1>5, <1>11, <2>1, <2>2, <2>3, TypeOneAdapter DEF ServerSocketCloses
<1>12. ASSUME NEW s \in 1..Len(socket), NEW ok \in BOOLEAN, Connects(s, ok)
       PROVE  TypeInv'
  <2> PICK a : a = socket[s].owner
    OBVIOUS
  <2>1. /\ a \in 1..Len(adapter) /\ OnlyAdapter(a) /\ OnlySocket(s)
        /\ HandleStatusChange(adapter'[a], ok) /\ socket'[s].session = sessionId'
        /\ adapter'[a].socket = adapter[a].socket
    BY <1>12, Owner, ConnectsFacts, ZenonT(30)
  <2>2. socket'[s].session <= Len(sessions') /\ adapter'[a].socket <= Len(socket')
    <3>1. Len(socket') = Len(socket)
      BY <2>1 DEF OnlySocket
    <3>2. sessionId' \in 0..Len(sessions') /\ Len(sessions') \in Nat
      BY <1>3, <1>4, <2>1
    <3> QED
      BY <1>1, <1>2, <2>1, <3>1, <3>2
  <2> QED
    BY <1>3, <1>4, <1>5, <1>12, <2>1, <2>2, TypeOneAdapter DEF Connects
<1>13. ASSUME NEW s \in 1..Len(socket), NEW ok \in BOOLEAN, ClientSocketCloses(s, ok)
       PROVE  TypeInv'
  <2> PICK a : a = socket[s].owner
    OBVIOUS
  <2>1. /\ a \in 1..Len(adapter) /\ OnlyAdapter(a) /\ OnlySocket(s)
        /\ socket'[s].session = socket[s].session /\ adapter'[a].socket = 0
        /\ HandleStatusChange(adapter'[a], ok) \/ UNCHANGED sessionVars
    <3>1. a \in 1..Len(adapter)
      BY Owner
    <3>2. /\ OnlyAdapter(a) /\ OnlySocket(s)
          /\ socket'[s].session = socket[s].session /\ adapter'[a].socket = 0
          /\ HandleStatusChange(adapter'[a], ok) \/ UNCHANGED sessionVars
      BY <1>13, ClientSocketClosesFacts
    <3> QED
      BY <3>1, <3>2
  <2>2. /\ SessionsTyped /\ Len(sessions') \in Nat
        /\ \A i \in 1..Len(socket) : socket[i].session <= Len(sessions')
    BY <1>3, <1>4, <2>1
  <2>3. socket'[s].session <= Len(sessions') /\ adapter'[a].socket <= Len(socket')
    <3>1. Len(socket') = Len(socket)
      BY <2>1 DEF OnlySocket
    <3> QED
      BY <1>1, <2>1, <2>2, <3>1
  <2> QED
    BY <1>5, <1>13, <2>1, <2>2, <2>3, TypeOneAdapter DEF ClientSocketCloses
<1>14. ASSUME NEW a \in 1..Len(adapter), NEW ok \in BOOLEAN, Reconnect(a, ok)
       PROVE  TypeInv'
  <2>1. /\ OnlyAdapter(a) /\ HandleStatusChange(adapter'[a], ok) /\ Len(socket) < MaxSockets
        /\ \/ /\ adapter'[a].socket = Len(socket) + 1
              /\ NewestSocket(NewSocket(a, "connecting", TRUE, 0))
           \/ adapter'[a].socket = adapter[a].socket /\ UNCHANGED socket
    BY <1>1, <1>14, ReconnectFacts, ZenonT(30)
  <2>2. 0 <= Len(sessions') /\ adapter'[a].socket <= Len(socket')
    <3>1. Len(sessions') \in Nat
      BY <1>3, <1>4, <2>1
    <3>2. NewestSocket(NewSocket(a, "connecting", TRUE, 0)) => Len(socket') = Len(socket) + 1
      BY DEF NewestSocket
    <3>3. adapter[a].socket \in Nat /\ adapter[a].socket <= Len(socket)
      BY <1>2
    <3>4. CASE UNCHANGED socket /\ adapter'[a].socket = adapter[a].socket
      BY <3>1, <3>3, <3>4
    <3>5. CASE /\ adapter'[a].socket = Len(socket) + 1
               /\ NewestSocket(NewSocket(a, "connecting", TRUE, 0))
      BY <1>1, <3>1, <3>2, <3>5
    <3> QED
      BY <2>1, <3>4, <3>5
  <2>3. UNCHANGED <<current, row, writes, sends, crashes, cutOff>>
    BY <1>14 DEF Reconnect
  <2> QED
    BY <1>3, <1>4, <1>5, <2>1, <2>2, <2>3, TypeOneAdapter
<1>15. ASSUME NEW s \in 1..Len(socket), NEW ok \in BOOLEAN, Receive(s, ok)
       PROVE  TypeInv'
  <2> PICK a : a = socket[s].owner
    OBVIOUS
  <2>1. /\ a \in 1..Len(adapter) /\ OnlyAdapter(a) /\ HandleStatusChange(adapter'[a], ok)
        /\ adapter'[a] = adapter[a]
        /\ row' = row \/ Recorded("RX", "COMPLETED", s)
    BY <1>15, Owner, ReceiveFacts, Zenon
  <2>2. row' = row \/ (row' \in Row /\ row'.socket = s)
    BY <1>3, <1>4, <2>1, RowTyped DEF Recorded
  <2>3. UNCHANGED <<socket, current, writes, sends, crashes, cutOff>>
    BY <1>15 DEF Receive
  <2>4. /\ row' = row \/ (row' \in Row /\ row'.socket <= Len(socket'))
        /\ adapter'[a].socket <= Len(socket')
    BY <1>1, <1>2, <2>1, <2>2, <2>3
  <2> QED
    BY <1>3, <1>4, <1>5, <2>1, <2>2, <2>3, <2>4, TypeOneAdapter
<1>16. ASSUME NEW s \in 1..Len(socket), NEW ok \in BOOLEAN, FrameError(s, ok)
       PROVE  TypeInv'
  <2> PICK a : a = socket[s].owner
    OBVIOUS
  <2>1. /\ a \in 1..Len(adapter) /\ OnlyAdapter(a) /\ HandleStatusChange(adapter'[a], ok)
        /\ adapter'[a].socket = adapter[a].socket
    BY <1>16, Owner, FrameErrorFacts, Zenon
  <2>2. UNCHANGED <<socket, current, row, writes, sends, crashes, cutOff>>
    BY <1>16 DEF FrameError
  <2>3. adapter'[a].socket <= Len(socket')
    BY <1>2, <2>1, <2>2
  <2> QED
    BY <1>3, <1>4, <1>5, <2>1, <2>2, <2>3, TypeOneAdapter
<1>17. ASSUME NEW s \in 1..Len(socket), NEW ok \in BOOLEAN, SocketFails(s, ok)
       PROVE  TypeInv'
  <2> PICK a : a = socket[s].owner
    OBVIOUS
  <2>1. /\ a \in 1..Len(adapter) /\ OnlyAdapter(a) /\ OnlySocket(s)
        /\ HandleStatusChange(adapter'[a], ok) \/ UNCHANGED sessionVars
        /\ socket'[s].session = socket[s].session
        /\ adapter'[a].socket = adapter[a].socket
    BY <1>17, Owner, SocketFailsFacts, ZenonT(40)
  <2>2. socket'[s].session <= Len(sessions') /\ adapter'[a].socket <= Len(socket')
    <3>1. Len(socket') = Len(socket)
      BY <2>1 DEF OnlySocket
    <3>2. socket[s].session <= Len(sessions')
      BY <1>3, <1>4, <2>1
    <3> QED
      BY <1>1, <1>2, <2>1, <3>1, <3>2
  <2> QED
    BY <1>3, <1>4, <1>5, <1>17, <2>1, <2>2, TypeOneAdapter DEF SocketFails
<1>18. ASSUME NEW s \in 1..Len(socket), PeerEnds(s)
       PROVE  TypeInv'
  <2> PICK a : a = socket[s].owner
    OBVIOUS
  <2>1. /\ OnlySocket(s) /\ socket'[s].session = socket[s].session
        /\ a \in 1..Len(adapter)
    BY <1>18, Owner, PeerEndsFacts, Zenon
  <2>2. UNCHANGED <<adapter, current, sessionVars, row, writes, sends, crashes, cutOff>>
    BY <1>18 DEF PeerEnds
  <2>3. OnlyAdapter(a) /\ Len(socket') = Len(socket)
    BY <1>1, <2>1, <2>2 DEF OnlyAdapter, OnlySocket
  <2>4. SessionsTyped
    BY <1>1, <2>2, SessionsSame
  <2>5. socket'[s].session <= Len(sessions') /\ adapter'[a].socket <= Len(socket')
    BY <1>1, <1>2, <2>1, <2>2, <2>3 DEF sessionVars
  <2> QED
    BY <1>5, <2>1, <2>2, <2>3, <2>4, <2>5, TypeOneAdapter
<1>19. ASSUME UNCHANGED <<adapter, socket, current, sessionVars, crashes, cutOff>>,
              row' = row \/ (row' \in Row /\ row'.socket <= Len(socket')),
              writes' \in [1..MaxSockets -> Nat], sends' \in Nat
       PROVE  TypeInv'
  <2>1. SessionsTyped /\ sessions' = sessions
    BY <1>1, <1>19, SessionsSame DEF sessionVars
  <2>2. /\ adapter' \in Seq(Adapter) /\ socket' \in Seq(Socket)
        /\ Len(adapter) <= Len(adapter') /\ Len(socket) <= Len(socket')
        /\ Len(socket') <= MaxSockets
        /\ current' \in 0..Len(adapter') /\ crashes' \in Nat
        /\ cutOff' \subseteq 1..Len(sessions')
    BY <1>1, <1>2, <1>19, <2>1
  <2>3. /\ \A s \in 1..Len(socket') :
             socket'[s].owner \in 1..Len(adapter') /\ socket'[s].session <= Len(sessions')
        /\ \A a \in 1..Len(adapter') : adapter'[a].socket <= Len(socket')
    BY <1>2, <1>19, <2>1
  <2> QED
    BY <1>19, <2>1, <2>2, <2>3, TypeStep
<1>20. CASE SendFails
  <2>1. /\ current \in 1..Len(adapter) /\ sends' = sends + 1
        /\ UNCHANGED <<adapter, socket, current, sessionVars, writes, crashes, cutOff>>
    BY <1>2, <1>20 DEF SendFails
  <2>2. \/ row' = row
        \/ \E i \in Nat : i <= Len(socket) /\ Recorded("TX", "FAILED", i)
    BY <1>1, <1>2, <1>20, <2>1 DEF SendFails, RecordLog, Recorded
  <2>3. sessionId' \in Nat
    BY <1>1, <2>1 DEF sessionVars
  <2>4. row' = row \/ (row' \in Row /\ row'.socket <= Len(socket'))
    BY <2>1, <2>2, <2>3, RowTyped DEF Recorded
  <2>5. sends' \in Nat
    BY <1>1, <2>1
  <2> QED
    BY <1>5, <1>19, <2>1, <2>4, <2>5
<1>21. CASE SendStarts
  <2>1. /\ current \in 1..Len(adapter) /\ sends' = sends + 1
        /\ UNCHANGED <<adapter, socket, current, sessionVars, row, crashes, cutOff>>
        /\ writes' = [writes EXCEPT ![adapter[current].socket] = writes[adapter[current].socket] + 1]
        /\ adapter[current].socket # 0
    BY <1>2, <1>21 DEF SendStarts, CanWrite
  <2> PICK i : i = adapter[current].socket
    OBVIOUS
  <2>2. i \in 1..Len(socket)
    BY <1>1, <1>2, <2>1
  <2>3. writes[i] + 1 \in Nat
    <3>1. i \in 1..MaxSockets
      BY <1>1, <1>2, <2>2, BoundIsNat
    <3> QED
      BY <1>1, <3>1
  <2>4. writes' \in [1..MaxSockets -> Nat] /\ sends' \in Nat
    <3>1. writes' = [writes EXCEPT ![i] = writes[i] + 1]
      BY <2>1
    <3>2. writes' \in [1..MaxSockets -> Nat]
      BY <2>2, <2>3, <3>1, WritesTyped
    <3> QED
      BY <1>1, <2>1, <3>2
  <2> QED
    BY <1>19, <2>1, <2>4
<1>22. ASSUME NEW s \in 1..Len(socket), NEW ok \in BOOLEAN, WriteSucceeds(s, ok)
       PROVE  TypeInv'
  <2> PICK a : a = socket[s].owner
    OBVIOUS
  <2>1. /\ a \in 1..Len(adapter) /\ OnlyAdapter(a) /\ HandleStatusChange(adapter'[a], ok)
        /\ adapter'[a] = adapter[a]
        /\ writes[s] > 0 /\ writes' = [writes EXCEPT ![s] = writes[s] - 1]
        /\ row' = row \/ \E status \in {"COMPLETED", "FAILED"} : Recorded("TX", status, s)
    BY <1>22, Owner, WriteSucceedsFacts, ZenonT(30)
  <2>2. row' = row \/ (row' \in Row /\ row'.socket = s)
    BY <1>3, <1>4, <2>1, RowTyped DEF Recorded
  <2>3. UNCHANGED <<socket, current, sends, crashes, cutOff>>
    BY <1>22 DEF WriteSucceeds
  <2>4. /\ row' = row \/ (row' \in Row /\ row'.socket <= Len(socket'))
        /\ adapter'[a].socket <= Len(socket')
    BY <1>1, <1>2, <2>1, <2>2, <2>3
  <2>5. writes[s] - 1 \in Nat
    BY <1>1, <1>2, <2>1, BoundIsNat
  <2>6. writes' \in [1..MaxSockets -> Nat]
    BY <2>1, <2>5, WritesTyped
  <2> QED
    BY <1>3, <1>4, <2>1, <2>2, <2>3, <2>4, <2>6, TypeOneAdapter
<1>23. ASSUME NEW s \in 1..Len(socket), WriteFails(s)
       PROVE  TypeInv'
  <2>1. /\ writes[s] > 0 /\ writes' = [writes EXCEPT ![s] = writes[s] - 1]
        /\ UNCHANGED <<adapter, socket, current, sessionVars, sends, crashes, cutOff>>
        /\ row' = row \/ Recorded("TX", "FAILED", s)
    BY <1>23 DEF WriteFails, RecordLog, Recorded
  <2>2. sessionId' \in Nat
    BY <1>1, <2>1 DEF sessionVars
  <2>3. row' = row \/ (row' \in Row /\ row'.socket = s)
    BY <2>1, <2>2, RowTyped DEF Recorded
  <2>4. writes[s] - 1 \in Nat
    BY <1>1, <1>2, <2>1, BoundIsNat
  <2>5. writes' \in [1..MaxSockets -> Nat]
    BY <2>1, <2>4, WritesTyped
  <2>6. sends' \in Nat /\ (row' = row \/ (row' \in Row /\ row'.socket <= Len(socket')))
    BY <1>1, <2>1, <2>3
  <2> QED
    BY <1>19, <2>1, <2>5, <2>6
<1>24. CASE Crash
  <2>1. /\ adapter' \in Seq(Adapter) /\ Len(adapter') = Len(adapter)
        /\ \A a \in 1..Len(adapter) : adapter'[a].socket = 0
        /\ socket' \in Seq(Socket) /\ Len(socket') = Len(socket)
        /\ \A s \in 1..Len(socket) : /\ socket'[s].owner = socket[s].owner
                                     /\ socket'[s].session = socket[s].session
    BY <1>1, <1>24, CrashFacts
  <2>2. /\ current' = 0 /\ sessionId' = 0 /\ writes' = [s \in 1..MaxSockets |-> 0]
        /\ crashes' = crashes + 1 /\ cutOff' = cutOff \cup ({sessionId} \ {0})
        /\ UNCHANGED <<sessions, row, sends, faults, unended>>
    BY <1>24 DEF Crash
  <2>3. writes' \in [1..MaxSockets -> Nat] /\ crashes' \in Nat /\ sends' \in Nat
    BY <1>1, <2>2
  <2>4. cutOff' \subseteq 1..Len(sessions')
    BY <1>1, <1>2, <2>2
  <2>5. /\ Len(adapter) <= Len(adapter') /\ current' \in 0..Len(adapter')
        /\ Len(socket) <= Len(socket') /\ Len(socket') <= MaxSockets
        /\ SessionsTyped
    BY <1>1, <1>2, <2>1, <2>2, Sizes DEF SessionsTyped, TypeOK
  <2>6. /\ \A s \in 1..Len(socket') :
             socket'[s].owner \in 1..Len(adapter') /\ socket'[s].session <= Len(sessions')
        /\ \A a \in 1..Len(adapter') : adapter'[a].socket <= Len(socket')
    <3>1. 0 <= Len(socket') /\ Len(sessions') = Len(sessions)
      BY <1>1, <2>1, <2>2
    <3> QED
      BY <1>2, <2>1, <3>1
  <2> QED
    BY <2>1, <2>2, <2>3, <2>4, <2>5, <2>6, TypeStep
<1>25. CASE UNCHANGED vars
  <2>1. /\ UNCHANGED <<adapter, socket, current, sessionVars, crashes, cutOff>>
        /\ row' = row /\ UNCHANGED writes /\ sends' = sends
    BY <1>25 DEF vars, sessionVars
  <2> QED
    BY <1>1, <1>5, <1>19, <2>1
<1> QED
  <2>1. "SERVER" \in Mode /\ "CLIENT" \in Mode /\ FALSE \in BOOLEAN
    BY DEF Mode
  <2> QED
    BY <1>1, <1>6, <1>7, <1>8, <1>9, <1>10, <1>11, <1>12, <1>13, <1>14, <1>15, <1>16, <1>17,
       <1>18, <1>20, <1>21, <1>22, <1>23, <1>24, <1>25, <2>1, ZenonT(60) DEF Next

LEMMA TypeInitial == Init => TypeInv
<1> SUFFICES ASSUME Init PROVE TypeInv
  OBVIOUS
<1>1. /\ adapter = <<>> /\ socket = <<>> /\ current = 0 /\ sessionId = 0 /\ sessions = <<>>
      /\ row = NoRow /\ writes = [s \in 1..MaxSockets |-> 0] /\ sends = 0 /\ crashes = 0
      /\ faults = 0 /\ cutOff = {} /\ unended = {}
  BY DEF Init
<1>2. /\ <<>> \in Seq(Adapter) /\ <<>> \in Seq(Socket) /\ <<>> \in Seq(Session)
      /\ Len(<<>>) = 0
  BY EmptySeq
<1>3. TypeOK
  BY <1>1, <1>2 DEF TypeOK
<1>4. Indices
  BY <1>1, <1>2, BoundIsNat DEF Indices
<1> QED
  BY <1>3, <1>4 DEF TypeInv

\* The variables have their types and indices stay in range, for an address to
\* bind to that is an IP address and for one that is a host name.
THEOREM TypeCorrect == Spec => []TypeOK
<1>1. TypeInv => TypeOK
  BY DEF TypeInv
<1> QED
  BY <1>1, TypeInitial, TypeInductive, PTL DEF Spec

-----------------------------------------------------------------------------
(* The manager and the adapters, where listen() binds in its own turn.     *)

\* What the fields of one adapter say of each other.
Fits(x) ==
  /\ x.mode = "CLIENT" => x.server = "none"
  /\ x.mode = "SERVER" => ~x.timer /\ (x.socket # 0 => x.server = "listening")
  /\ x.status = "CONNECTED" => x.socket # 0
  /\ x.timer => x.socket = 0

\* A client that is to connect has a socket or a timer, or has given up; or its
\* manager was left with a session that did not end.
Tries(x, leftOver) ==
  \/ x.socket # 0
  \/ x.reconnect /\ x.timer
  \/ ~x.reconnect /\ x.status = "ERROR"
  \/ leftOver

\* What is left of an adapter after stop() or start() of another.
Left(x) ==
  /\ x.status = "STOPPED" /\ x.server = "none" /\ x.socket = 0 /\ ~x.timer
  /\ x.mode = "CLIENT" => x.manualStop

\* The current adapter is left, too, when its stop() threw.
AdapterFits(a) ==
  /\ Fits(adapter[a])
  /\ a # current => Left(adapter[a])
  /\ a = current /\ adapter[a].mode = "CLIENT" =>
       \/ Left(adapter[a])
       \/ ~adapter[a].manualStop /\ Tries(adapter[a], sessionId \in unended)

AdaptersFit == \A a \in 1..Len(adapter) : AdapterFits(a)

\* Only the current adapter has a live socket, one, and the session is its.  A socket
\* has no listeners because the INSERT of its session threw.
SocketFits(s) ==
  /\ socket[s].state \in {"connecting", "open"} =>
       socket[s].owner = current /\ adapter[current].socket = s
  /\ socket[s].state = "dying" /\ socket[s].owner = current =>
       adapter[current].socket = s \/ Left(adapter[current])
  /\ socket[s].state = "dying" /\ sessionId # 0 =>
       socket[s].owner = current /\ socket[s].session = sessionId
  /\ socket[s].failed => socket[s].state \in {"dying", "closed"}
  /\ writes[s] > 0 => socket[s].state \in {"open", "dying"}
  /\ sessionId # 0 /\ socket[s].session = sessionId /\ sessionId \notin unended =>
       current # 0 /\ adapter[current].socket = s
  /\ ~socket[s].handled =>
       socket[s].session # 0 /\ ~sessions[socket[s].session].stored

SocketsFit == \A s \in 1..Len(socket) : SocketFits(s)

WritesFit == \A s \in 1..MaxSockets : writes[s] > 0 => s <= Len(socket)

\* An adapter and the socket it has.
Joined(x, y) ==
  /\ y.owner = current /\ y.session = sessionId
  /\ x.status # "CONNECTED" => sessionId = 0
  /\ y.failed => x.lastError = "net" \/ ~y.handled
  /\ y.state = "closed" => ~y.handled

CurrentSocket ==
  /\ current = 0 => sessionId = 0
  /\ current # 0 /\ adapter[current].socket # 0 =>
       Joined(adapter[current], socket[adapter[current].socket])

CutOffFits == sessionId \notin cutOff

\* Two connections have one session only when its UPDATE threw.
SharedFits ==
  \A s, t \in 1..Len(socket) :
    s # t /\ socket[s].session # 0 /\ socket[t].session = socket[s].session =>
      socket[s].session \in unended

RowFits == row # NoRow /\ row.socket # 0 => socket[row.socket].state # "connecting"

Structure == AdaptersFit /\ SocketsFit /\ WritesFit /\ CurrentSocket

Sessions == SessionsAccounted /\ CutOffFits /\ BreakIsTheReason /\ SharedFits

Rows == RowFits /\ RowsOfTheirSession

ManagerInv == TypeInv /\ Structure /\ Sessions /\ Rows

LEMMA Bounds ==
  ASSUME TypeInv
  PROVE  /\ TypeOK /\ Len(adapter) \in Nat /\ Len(socket) \in Nat /\ Len(sessions) \in Nat
         /\ DOMAIN adapter = 1..Len(adapter) /\ DOMAIN socket = 1..Len(socket)
         /\ DOMAIN sessions = 1..Len(sessions)
         /\ current \in 0..Len(adapter) /\ (current # 0 => current \in 1..Len(adapter))
         /\ sessionId \in 0..Len(sessions) /\ cutOff \subseteq 1..Len(sessions)
         /\ unended \subseteq 1..Len(sessions)
         /\ Len(socket) <= MaxSockets /\ MaxSockets \in Nat
         /\ \A a \in 1..Len(adapter) : adapter[a].socket \in 0..Len(socket)
         /\ \A s \in 1..Len(socket) : /\ socket[s].owner \in 1..Len(adapter)
                                      /\ socket[s].session \in 0..Len(sessions)
         /\ \A s \in 1..MaxSockets : writes[s] \in Nat
<1>1. /\ TypeOK /\ Len(adapter) \in Nat /\ Len(socket) \in Nat /\ Len(sessions) \in Nat
      /\ DOMAIN adapter = 1..Len(adapter) /\ DOMAIN socket = 1..Len(socket)
      /\ DOMAIN sessions = 1..Len(sessions)
      /\ \A a \in 1..Len(adapter) : adapter[a] \in Adapter
      /\ \A s \in 1..Len(socket) : socket[s] \in Socket
  BY Sizes DEF TypeInv
<1>2. /\ current \in 0..Len(adapter) /\ sessionId \in 0..Len(sessions)
      /\ cutOff \subseteq DOMAIN sessions /\ unended \subseteq DOMAIN sessions
      /\ writes \in [1..MaxSockets -> Nat]
  BY DEF TypeInv, TypeOK
<1>3. /\ Len(socket) <= MaxSockets
      /\ \A s \in 1..Len(socket) :
           socket[s].owner \in 1..Len(adapter) /\ socket[s].session <= Len(sessions)
      /\ \A a \in 1..Len(adapter) : adapter[a].socket <= Len(socket)
  BY DEF TypeInv, Indices
<1>4. \A a \in 1..Len(adapter) : adapter[a].socket \in Nat
  BY <1>1 DEF Adapter
<1>5. \A s \in 1..Len(socket) : socket[s].session \in Nat
  BY <1>1 DEF Socket
<1>6. \A a \in 1..Len(adapter) : adapter[a].socket \in 0..Len(socket)
  BY <1>1, <1>3, <1>4
<1>7. \A s \in 1..Len(socket) : socket[s].session \in 0..Len(sessions)
  BY <1>1, <1>3, <1>5
<1>8. current # 0 => current \in 1..Len(adapter)
  BY <1>1, <1>2
<1>9. MaxSockets \in Nat /\ \A s \in 1..MaxSockets : writes[s] \in Nat
  BY <1>2, BoundIsNat
<1> QED
  BY <1>1, <1>2, <1>3, <1>6, <1>7, <1>8, <1>9

LEMMA Known ==
  ASSUME ManagerInv
  PROVE  /\ TypeInv /\ TypeOK /\ AdaptersFit /\ SocketsFit /\ WritesFit /\ CurrentSocket
         /\ Sessions /\ SessionsAccounted /\ CutOffFits /\ BreakIsTheReason /\ SharedFits /\ Rows
BY DEF ManagerInv, TypeInv, Structure, Sessions

\* What is known of the adapter that steps.
LEMMA AdapterKnown ==
  ASSUME TypeInv, AdaptersFit, SessionsAccounted, NEW a \in 1..Len(adapter)
  PROVE  /\ a # 0 /\ adapter[a] \in Adapter /\ adapter[a].mode \in {"SERVER", "CLIENT"}
         /\ Fits(adapter[a]) /\ (a # current => Left(adapter[a]))
         /\ adapter[a].mode = "CLIENT" =>
              \/ Left(adapter[a])
              \/ ~adapter[a].manualStop /\ Tries(adapter[a], sessionId \in unended)
         /\ a = current /\ adapter[a].status # "CONNECTED" => sessionId \in {0} \cup unended
         /\ a = current /\ adapter[a].status = "CONNECTED" => sessionId # 0
<1>1. AdapterFits(a) /\ adapter[a] \in Adapter
  BY Sizes DEF AdaptersFit, TypeInv
<1>2. a = current => Shown = adapter[a].status
  BY DEF Shown
<1> QED
  BY <1>1, <1>2 DEF AdapterFits, SessionsAccounted, Adapter, Mode

\* What is known of the socket an adapter has: the adapter is current, the session its.
LEMMA SocketKnown ==
  ASSUME TypeInv, AdaptersFit, CurrentSocket, NEW a \in 1..Len(adapter), adapter[a].socket # 0,
         NEW s, s = adapter[a].socket
  PROVE  /\ a = current /\ s \in 1..Len(socket) /\ ~Left(adapter[a])
         /\ socket[s].owner = a /\ socket[s].session = sessionId
         /\ adapter[a].status # "CONNECTED" => sessionId = 0
         /\ socket[s].failed => adapter[a].lastError = "net" \/ ~socket[s].handled
         /\ socket[s].state = "closed" => ~socket[s].handled
<1>1. ~Left(adapter[a])
  BY DEF Left
<1>2. a = current
  BY <1>1 DEF AdaptersFit, AdapterFits
<1>3. a # 0 /\ s \in 1..Len(socket)
  BY Bounds
<1>4. Joined(adapter[a], socket[s])
  BY <1>2, <1>3 DEF CurrentSocket
<1> QED
  BY <1>1, <1>2, <1>3, <1>4 DEF Joined

LEMMA SessionsMove ==
  ASSUME TypeInv, NEW info, info.lastError \in LastError, NEW ok \in BOOLEAN,
         HandleStatusChange(info, ok)
  PROVE  /\ SessionsTyped /\ unended \subseteq unended'
         /\ sessionId' \in {0, sessionId, Len(sessions) + 1}
<1>1. TypeOK
  BY DEF TypeInv
<1>2. /\ SessionsTyped
      /\ SessionBegins(ok) \/ SessionEnds(info) \/ EndThrows \/ SessionStays
  BY <1>1, StatusChange
<1> QED
  BY <1>2 DEF SessionBegins, SessionEnds, EndThrows, SessionStays

\* A report of the status the manager has seen changes nothing, unless stop() threw.
LEMMA ReportStays ==
  ASSUME TypeInv, SessionsAccounted, AdaptersFit, CurrentSocket, NEW a \in 1..Len(adapter),
         NEW info, NEW ok \in BOOLEAN, HandleStatusChange(info, ok),
         info.status = adapter[a].status,
         \/ adapter[a].socket # 0
         \/ a # current /\ sessionId = 0
  PROVE  ok /\ SessionStays
<1>1. (info.status = "CONNECTED") = (sessionId # 0)
  <2>1. CASE adapter[a].socket # 0
    BY <2>1, SocketKnown, AdapterKnown
  <2>2. CASE a # current /\ sessionId = 0
    <3>1. Left(adapter[a])
      BY <2>2, AdapterKnown
    <3> QED
      BY <2>2, <3>1 DEF Left
  <2> QED
    BY <2>1, <2>2
<1>2. ~Begins(info) /\ ~Ends(info)
  BY <1>1 DEF Begins, Ends
<1> QED
  BY <1>2 DEF HandleStatusChange, SessionStays

\* The table of sessions after a report: the open ones are still accounted for.
LEMMA TableKept ==
  ASSUME TypeInv, SessionsAccounted, CutOffFits, NEW info, info.lastError \in LastError,
         NEW ok \in BOOLEAN, HandleStatusChange(info, ok), cutOff' = cutOff
  PROVE  /\ sessionId' \notin cutOff'
         /\ \A n \in DOMAIN sessions' :
              sessions'[n].open <=> sessions'[n].stored /\ (n = sessionId' \/ n \in cutOff')
<1>1. /\ TypeOK /\ Len(sessions) \in Nat /\ DOMAIN sessions = 1..Len(sessions)
      /\ sessionId \in 0..Len(sessions) /\ cutOff \subseteq 1..Len(sessions)
  BY Bounds
<1>2. /\ SessionsTyped
      /\ SessionBegins(ok) \/ SessionEnds(info) \/ EndThrows \/ SessionStays
  BY <1>1, StatusChange
<1>3. DOMAIN sessions' = 1..Len(sessions')
  BY <1>2, LenProperties DEF SessionsTyped
<1>4. /\ sessionId \notin cutOff
      /\ \A n \in 1..Len(sessions) :
           sessions[n].open <=> sessions[n].stored /\ (n = sessionId \/ n \in cutOff)
  BY <1>1 DEF SessionsAccounted, CutOffFits
<1>5. /\ sessionId' \notin cutOff
      /\ \A n \in 1..Len(sessions') :
           sessions'[n].open <=> sessions'[n].stored /\ (n = sessionId' \/ n \in cutOff)
  <2>1. CASE SessionBegins(ok)
    <3>1. /\ sessionId' = Len(sessions) + 1 /\ Len(sessions') = Len(sessions) + 1
          /\ sessions'[Len(sessions) + 1].stored = ok /\ sessions'[Len(sessions) + 1].open = ok
          /\ \A n \in 1..Len(sessions) : sessions'[n] = sessions[n]
          /\ sessionId = 0
      BY <2>1 DEF SessionBegins
    <3>2. \A n \in 1..Len(sessions') : n \in 1..Len(sessions) \/ n = Len(sessions) + 1
      BY <1>1, <3>1
    <3>3. Len(sessions) + 1 \notin cutOff
      BY <1>1
    <3>4. \A n \in 1..Len(sessions) : n # 0 /\ n # Len(sessions) + 1
      BY <1>1
    <3> QED
      BY <1>4, <3>1, <3>2, <3>3, <3>4
  <2>2. CASE SessionEnds(info)
    <3>1. /\ sessionId \in 1..Len(sessions) /\ sessionId' = 0
          /\ Len(sessions') = Len(sessions)
          /\ sessions'[sessionId].stored = sessions[sessionId].stored
          /\ sessions[sessionId].stored => ~sessions'[sessionId].open
          /\ ~sessions[sessionId].stored => sessions'[sessionId] = sessions[sessionId]
          /\ \A n \in 1..Len(sessions) : n # sessionId => sessions'[n] = sessions[n]
      BY <2>2 DEF SessionEnds
    <3>2. 0 \notin cutOff /\ \A n \in 1..Len(sessions) : n # 0
      BY <1>1
    <3> QED
      BY <1>4, <3>1, <3>2
  <2>3. CASE EndThrows \/ SessionStays
    BY <1>4, <2>3 DEF EndThrows, SessionStays
  <2> QED
    BY <1>2, <2>1, <2>2, <2>3
<1> QED
  BY <1>3, <1>5

\* What a report does to the account of sessions, when what it reports is shown.
LEMMA Accounts ==
  ASSUME TypeInv, SessionsAccounted, CutOffFits, NEW info, info.lastError \in LastError,
         NEW ok \in BOOLEAN, HandleStatusChange(info, ok), cutOff' = cutOff,
         info.status = "CONNECTED" <=> Shown' = "CONNECTED"
  PROVE  SessionsAccounted' /\ CutOffFits'
<1>1. TypeOK /\ Len(sessions) \in Nat
  BY Bounds
<1>2. /\ sessionId' \notin cutOff'
      /\ \A n \in DOMAIN sessions' :
           sessions'[n].open <=> sessions'[n].stored /\ (n = sessionId' \/ n \in cutOff')
  BY TableKept
<1>3. info.status # "CONNECTED" => sessionId' \in {0} \cup unended'
  BY <1>1, ReportedUnconnected
<1>4. info.status = "CONNECTED" => sessionId' # 0
  <2>1. info.status = "CONNECTED" => SessionBegins(ok) \/ (sessionId # 0 /\ SessionStays)
    BY <1>1, ReportedConnected
  <2> QED
    BY <1>1, <2>1 DEF SessionBegins, SessionStays
<1> QED
  BY <1>2, <1>3, <1>4 DEF SessionsAccounted, CutOffFits

\* The socket of a connection that broke is the current one, which knows.
LEMMA BreakKnown ==
  ASSUME TypeInv, SocketsFit, CurrentSocket, NEW s \in 1..Len(socket),
         socket[s].failed, sessionId # 0, socket[s].session = sessionId,
         sessionId \notin unended, sessions[sessionId].stored
  PROVE  current # 0 /\ adapter[current].lastError = "net"
<1>1. SocketFits(s) /\ s # 0
  BY DEF SocketsFit
<1>2. current # 0 /\ adapter[current].socket = s /\ socket[s].handled
  BY <1>1 DEF SocketFits
<1> QED
  BY <1>1, <1>2 DEF CurrentSocket, Joined

\* A socket keeps its session, and fails only while the session goes on; or it is a
\* connection that begins now.
SocketSame(i) ==
  /\ i \in 1..Len(socket) /\ socket'[i].session = socket[i].session
  /\ socket'[i].failed => socket[i].failed \/ socket[i].session = sessionId'

SocketBegins(i) ==
  /\ ~socket'[i].failed
  /\ socket'[i].session \in {0, Len(sessions) + 1} \cup unended'

OneBegins(z) ==
  /\ socket' \in Seq(Socket)
  /\ \A i \in 1..Len(socket') : SocketSame(i) \/ (i = z /\ SocketBegins(i))

LEMMA SharedKept ==
  ASSUME TypeInv, SharedFits, unended \subseteq unended', NEW z, OneBegins(z)
  PROVE  SharedFits'
<1>1. /\ Len(sessions) \in Nat
      /\ \A s \in 1..Len(socket) : socket[s].session \in 0..Len(sessions)
  BY Bounds
<1> SUFFICES ASSUME NEW s \in 1..Len(socket'), NEW t \in 1..Len(socket'), s # t,
                    socket'[s].session # 0, socket'[t].session = socket'[s].session
             PROVE  socket'[s].session \in unended'
  BY DEF SharedFits
<1>2. CASE SocketSame(s) /\ SocketSame(t)
  BY <1>2 DEF SocketSame, SharedFits
<1>3. CASE SocketSame(s) /\ SocketBegins(t)
  <2>1. socket'[s].session \in 0..Len(sessions)
    BY <1>1, <1>3 DEF SocketSame
  <2> QED
    BY <1>1, <1>3, <2>1 DEF SocketBegins
<1>4. CASE SocketSame(t) /\ SocketBegins(s)
  <2>1. socket'[t].session \in 0..Len(sessions)
    BY <1>1, <1>4 DEF SocketSame
  <2> QED
    BY <1>1, <1>4, <2>1 DEF SocketBegins
<1> QED
  BY <1>2, <1>3, <1>4 DEF OneBegins

\* A session that ends tells of the break of its connection.
LEMMA ReasonKept ==
  ASSUME TypeInv, SocketsFit, CurrentSocket, BreakIsTheReason, SessionsAccounted',
         NEW info, info.lastError \in LastError, NEW ok \in BOOLEAN,
         HandleStatusChange(info, ok), NEW z, OneBegins(z),
         (current # 0 /\ sessionId # 0 /\ sessionId \notin unended /\ sessionId' = 0) =>
           info.lastError = adapter[current].lastError
  PROVE  BreakIsTheReason'
<1>1. /\ TypeOK /\ Len(sessions) \in Nat /\ DOMAIN socket = 1..Len(socket)
      /\ \A s \in 1..Len(socket) : socket[s].session \in 0..Len(sessions)
  BY Bounds
<1>2. /\ SessionsTyped
      /\ SessionBegins(ok) \/ SessionEnds(info) \/ EndThrows \/ SessionStays
  BY <1>1, StatusChange
<1>3. DOMAIN socket' = 1..Len(socket') /\ DOMAIN sessions' = 1..Len(sessions')
  BY <1>2, LenProperties DEF SessionsTyped, OneBegins
<1> SUFFICES ASSUME NEW s \in 1..Len(socket'), socket'[s].failed, socket'[s].session # 0,
                    sessions'[socket'[s].session].stored, ~sessions'[socket'[s].session].open
             PROVE  \/ sessions'[socket'[s].session].reason = "net"
                    \/ socket'[s].session \in unended'
  BY <1>3 DEF BreakIsTheReason
<1> PICK n : n = socket[s].session
  OBVIOUS
<1>4. /\ s \in 1..Len(socket) /\ socket'[s].session = n /\ n # 0
      /\ socket[s].failed \/ n = sessionId'
  BY DEF OneBegins, SocketSame, SocketBegins
<1>5. n \in 1..Len(sessions)
  BY <1>1, <1>4
<1>6. n # sessionId'
  <2>1. n \in DOMAIN sessions'
    BY <1>1, <1>2, <1>3, <1>5, LenProperties DEF SessionsTyped
  <2> QED
    BY <1>4, <2>1 DEF SessionsAccounted
<1>7. socket[s].failed /\ sessions[n].stored
  BY <1>2, <1>4, <1>5, <1>6 DEF SessionsTyped
<1>8. ~sessions[n].open => sessions[n].reason = "net" \/ n \in unended
  BY <1>1, <1>4, <1>7 DEF BreakIsTheReason
<1>9. unended \subseteq unended'
  BY SessionsMove
<1>10. CASE sessions'[n] = sessions[n]
  BY <1>4, <1>8, <1>9, <1>10
<1>11. CASE SessionEnds(info) /\ sessionId = n /\ n \notin unended
  <2>1. current # 0 /\ adapter[current].lastError = "net"
    BY <1>4, <1>7, <1>11, BreakKnown
  <2>2. info.lastError = "net"
    BY <1>4, <1>11, <2>1 DEF SessionEnds
  <2> QED
    BY <1>4, <1>7, <1>11, <2>2 DEF SessionEnds
<1>12. \/ sessions'[n] = sessions[n]
       \/ SessionEnds(info) /\ sessionId = n
  BY <1>2, <1>5 DEF SessionBegins, SessionEnds, EndThrows, SessionStays
<1> QED
  BY <1>4, <1>9, <1>10, <1>11, <1>12

\* Nothing happens to the sessions.
LEMMA SessionsKept ==
  ASSUME TypeInv, Sessions, UNCHANGED <<sessionId, sessions, unended, cutOff>>,
         Shown = "CONNECTED" <=> Shown' = "CONNECTED", NEW z, OneBegins(z)
  PROVE  Sessions'
<1>1. /\ SessionsAccounted /\ CutOffFits /\ BreakIsTheReason /\ SharedFits
  BY DEF Sessions
<1>2. SessionsAccounted' /\ CutOffFits'
  BY <1>1 DEF SessionsAccounted, CutOffFits
<1>3. /\ DOMAIN socket' = 1..Len(socket') /\ DOMAIN socket = 1..Len(socket)
      /\ DOMAIN sessions = 1..Len(sessions) /\ Len(sessions) \in Nat
      /\ \A s \in 1..Len(socket) : socket[s].session \in 0..Len(sessions)
  BY Bounds, LenProperties DEF OneBegins
<1>4. BreakIsTheReason'
  <2> SUFFICES ASSUME NEW s \in 1..Len(socket'), socket'[s].failed, socket'[s].session # 0,
                      sessions[socket'[s].session].stored, ~sessions[socket'[s].session].open
               PROVE  \/ sessions[socket'[s].session].reason = "net"
                      \/ socket'[s].session \in unended
    BY <1>3 DEF BreakIsTheReason
  <2>1. SocketSame(s)
    BY DEF OneBegins, SocketBegins
  <2>2. socket[s].session \in 1..Len(sessions)
    BY <1>3, <2>1 DEF SocketSame
  <2>3. socket[s].failed
    BY <1>1, <1>3, <2>1, <2>2 DEF SocketSame, SessionsAccounted
  <2> QED
    BY <1>1, <1>3, <2>1, <2>3 DEF SocketSame, BreakIsTheReason
<1>5. SharedFits'
  BY <1>1, SharedKept
<1> QED
  BY <1>2, <1>4, <1>5 DEF Sessions

\* The adapter whose status is shown reports it.
LEMMA SessionsReported ==
  ASSUME ManagerInv, NEW info, info.lastError \in LastError, NEW ok \in BOOLEAN,
         HandleStatusChange(info, ok), cutOff' = cutOff,
         info.status = "CONNECTED" <=> Shown' = "CONNECTED",
         (current # 0 /\ sessionId # 0 /\ sessionId \notin unended /\ sessionId' = 0) =>
           info.lastError = adapter[current].lastError,
         NEW z, OneBegins(z)
  PROVE  Sessions'
<1>1. /\ TypeInv /\ SocketsFit /\ CurrentSocket
      /\ SessionsAccounted /\ CutOffFits /\ BreakIsTheReason /\ SharedFits
  BY Known
<1>2. SessionsAccounted' /\ CutOffFits'
  BY <1>1, Accounts
<1>3. BreakIsTheReason'
  BY <1>1, <1>2, ReasonKept
<1>4. SharedFits'
  BY <1>1, SessionsMove, SharedKept
<1> QED
  BY <1>2, <1>3, <1>4 DEF Sessions

\* The sockets are as they were.
LEMMA SocketsSame ==
  ASSUME TypeOK, UNCHANGED socket
  PROVE  OneBegins(0)
BY DEF TypeOK, OneBegins, SocketSame

\* No row is written, and the sockets keep their owners and sessions.
LEMMA RowKept ==
  ASSUME TypeInv, Rows, SharedFits', row' = row, unended \subseteq unended',
         socket' \in Seq(Socket), Len(socket) <= Len(socket'),
         \A s \in 1..Len(socket) :
           /\ socket'[s].owner = socket[s].owner
           /\ socket[s].state # "connecting" =>
                socket'[s].state # "connecting" /\ socket'[s].session = socket[s].session,
         \A a \in 1..Len(adapter) :
           adapter'[a].socket \in {adapter[a].socket, 0, Len(socket) + 1}
  PROVE  Rows'
<1>1. /\ Len(socket) \in Nat /\ DOMAIN socket = 1..Len(socket)
      /\ \A s \in 1..Len(socket) : socket[s].owner \in 1..Len(adapter)
  BY Bounds
<1>2. DOMAIN socket' = 1..Len(socket') /\ Len(socket') \in Nat
  BY LenProperties
<1> PICK r : r = row.socket
  OBVIOUS
<1>3. row # NoRow => r \in 0..Len(socket)
  <2>1. row \in Row \cup {NoRow} /\ (row # NoRow => row.socket <= Len(socket))
    BY DEF TypeInv, TypeOK, Indices
  <2>2. row # NoRow => row.socket \in Nat
    BY <2>1 DEF Row
  <2> QED
    BY <1>1, <2>1, <2>2
<1>4. ASSUME row # NoRow, r # 0
      PROVE  /\ r \in 1..Len(socket) /\ r \in 1..Len(socket') /\ r # Len(socket) + 1
             /\ socket'[r].state # "connecting"
             /\ socket'[r].session = socket[r].session /\ socket'[r].owner = socket[r].owner
             /\ socket[r].owner \in 1..Len(adapter)
  <2>1. r \in 1..Len(socket) /\ r \in 1..Len(socket') /\ r # Len(socket) + 1
    BY <1>1, <1>2, <1>3, <1>4
  <2>2. socket[r].state # "connecting"
    BY <1>4 DEF Rows, RowFits
  <2> QED
    BY <1>1, <2>1, <2>2
<1>5. RowFits'
  BY <1>4 DEF RowFits
<1>6. CASE row # NoRow /\ r # 0
  <2>1. CASE row.session = socket[r].session
    <3>1. \A s \in DOMAIN socket' :
            s # r /\ row.session # 0 /\ socket'[s].session = row.session =>
              row.session \in unended'
      BY <1>2, <1>4, <1>6, <2>1 DEF SharedFits
    <3> QED
      BY <1>4, <1>5, <1>6, <2>1, <3>1 DEF Rows, RowsOfTheirSession
  <2>2. CASE /\ row.session = 0 /\ row.direction = "TX"
             /\ adapter[socket[r].owner].socket # r
    <3>1. adapter'[socket'[r].owner].socket # r
      BY <1>4, <1>6, <2>2
    <3> QED
      BY <1>5, <1>6, <2>2, <3>1 DEF Rows, RowsOfTheirSession
  <2> QED
    BY <1>6, <2>1, <2>2 DEF Rows, RowsOfTheirSession
<1>7. CASE ~(row # NoRow /\ r # 0)
  BY <1>5, <1>7 DEF Rows, RowsOfTheirSession
<1> QED
  BY <1>6, <1>7

\* A row of a socket that is made, written with the session it has.
LEMMA RowWritten ==
  ASSUME SharedFits', socket' \in Seq(Socket),
         NEW direction, NEW status, NEW session, NEW s,
         row' = [direction |-> direction, status |-> status, session |-> session, socket |-> s],
         \/ s = 0 /\ session \in {0} \cup unended'
         \/ /\ s # 0 /\ s \in 1..Len(socket') /\ socket'[s].state # "connecting"
            /\ \/ session = socket'[s].session
               \/ /\ session = 0 /\ direction = "TX"
                  /\ adapter'[socket'[s].owner].socket # s
  PROVE  Rows'
<1>1. DOMAIN socket' = 1..Len(socket')
  BY LenProperties
<1>2. RowFits'
  BY DEF RowFits
<1>3. CASE s # 0 /\ s \in 1..Len(socket') /\ session = socket'[s].session
  <2>1. \A i \in DOMAIN socket' :
          i # s /\ session # 0 /\ socket'[i].session = session => session \in unended'
    BY <1>1, <1>3 DEF SharedFits
  <2> QED
    BY <1>2, <1>3, <2>1 DEF Rows, RowsOfTheirSession
<1>4. CASE s = 0 /\ session \in {0} \cup unended'
  BY <1>2, <1>4 DEF Rows, RowsOfTheirSession
<1>5. CASE /\ s # 0 /\ session = 0 /\ direction = "TX"
           /\ adapter'[socket'[s].owner].socket # s
  BY <1>2, <1>5 DEF Rows, RowsOfTheirSession
<1> QED
  BY <1>3, <1>4, <1>5

LEMMA AdaptersStep ==
  ASSUME TypeInv, AdaptersFit, NEW a \in 1..Len(adapter), OnlyAdapter(a), current' = current,
         Fits(adapter'[a]),
         a # current => Left(adapter'[a]) /\ sessionId' = sessionId /\ unended \subseteq unended',
         a = current /\ adapter'[a].mode = "CLIENT" =>
           \/ Left(adapter'[a])
           \/ ~adapter'[a].manualStop /\ Tries(adapter'[a], sessionId' \in unended')
  PROVE  AdaptersFit'
<1>1. /\ Len(adapter') = Len(adapter)
      /\ \A b \in 1..Len(adapter) : b # a => adapter'[b] = adapter[b]
  BY DEF OnlyAdapter
<1> SUFFICES ASSUME NEW b \in 1..Len(adapter) PROVE AdapterFits(b)'
  BY <1>1 DEF AdaptersFit
<1>2. CASE b = a
  BY <1>2 DEF AdapterFits
<1>3. CASE b # a
  <2>1. AdapterFits(b) /\ adapter'[b] = adapter[b]
    BY <1>1, <1>3 DEF AdaptersFit
  <2>2. CASE b = current
    BY <1>3, <2>1, <2>2 DEF AdapterFits, Tries
  <2>3. CASE b # current
    BY <2>1, <2>3 DEF AdapterFits
  <2> QED
    BY <2>2, <2>3
<1> QED
  BY <1>2, <1>3

\* A socket nothing happens to.
LEMMA SocketStays ==
  ASSUME TypeInv, SocketsFit, NEW i \in 1..Len(socket), socket'[i] = socket[i],
         current' = current, SessionsTyped, unended \subseteq unended',
         writes'[i] > 0 => writes[i] > 0,
         \/ sessionId' \in {0, sessionId}
         \/ sessionId' = Len(sessions) + 1 /\ socket[i].state # "dying",
         current # 0 /\ adapter[current].socket = i => adapter'[current].socket = i,
         current # 0 /\ Left(adapter[current]) => Left(adapter'[current])
  PROVE  SocketFits(i)'
<1>1. /\ SocketFits(i) /\ socket[i].owner # 0 /\ i # 0
      /\ socket[i].session \in 0..Len(sessions) /\ Len(sessions) \in Nat
  BY Bounds DEF SocketsFit
<1>2. socket[i].session # 0 => sessions'[socket[i].session].stored = sessions[socket[i].session].stored
  BY <1>1 DEF SessionsTyped
<1>3. sessionId' # Len(sessions) + 1 \/ socket[i].session # sessionId'
  BY <1>1
<1>4. /\ socket'[i].state \in {"connecting", "open"} =>
           socket'[i].owner = current' /\ adapter'[current'].socket = i
      /\ socket'[i].state = "dying" /\ socket'[i].owner = current' =>
           adapter'[current'].socket = i \/ Left(adapter'[current'])
  BY <1>1 DEF SocketFits
<1>5. /\ socket'[i].state = "dying" /\ sessionId' # 0 =>
           socket'[i].owner = current' /\ socket'[i].session = sessionId'
      /\ socket'[i].failed => socket'[i].state \in {"dying", "closed"}
      /\ writes'[i] > 0 => socket'[i].state \in {"open", "dying"}
  BY <1>1 DEF SocketFits
<1>6. sessionId' # 0 /\ socket'[i].session = sessionId' /\ sessionId' \notin unended' =>
        current' # 0 /\ adapter'[current'].socket = i
  BY <1>1, <1>3 DEF SocketFits
<1>7. ~socket'[i].handled => socket'[i].session # 0 /\ ~sessions'[socket'[i].session].stored
  BY <1>1, <1>2 DEF SocketFits
<1> QED
  BY <1>4, <1>5, <1>6, <1>7 DEF SocketFits

LEMMA ListenKeeps ==
  ASSUME ManagerInv, NEW a \in 1..Len(adapter), NEW ok \in BOOLEAN,
         ListenSucceeds(a, ok) \/ ListenFails(a, ok)
  PROVE  Structure' /\ Sessions' /\ Rows'
<1>1. /\ TypeInv /\ TypeOK /\ AdaptersFit /\ SocketsFit /\ WritesFit /\ CurrentSocket
      /\ SessionsAccounted /\ Rows
  BY Known
<1>2. /\ OnlyAdapter(a) /\ HandleStatusChange(adapter'[a], ok)
      /\ adapter'[a].mode = adapter[a].mode
      /\ adapter'[a].status # "CONNECTED" /\ adapter'[a].lastError \in LastError
      /\ adapter'[a].socket = adapter[a].socket
      /\ adapter'[a].timer = adapter[a].timer
      /\ adapter[a].server = "pending"
  BY <1>1, ListenSucceedsFacts, ListenFailsFacts DEF LastError
<1>3. UNCHANGED <<socket, current, row, writes, sends, crashes, cutOff>>
  BY DEF ListenSucceeds, ListenFails
<1>4. /\ a = current /\ a # 0 /\ adapter[a].mode = "SERVER" /\ adapter[a].socket = 0
      /\ adapter[a].status # "CONNECTED" /\ ~adapter[a].timer /\ ~Left(adapter[a])
      /\ sessionId \in {0} \cup unended
  BY <1>1, <1>2, AdapterKnown DEF Fits, Left
<1>5. /\ sessionId' \in {0, sessionId} /\ sessionId' \in {0} \cup unended'
      /\ SessionsTyped /\ unended \subseteq unended'
  BY <1>1, <1>2, ReportedUnconnected, SessionsMove
<1>6. AdaptersFit'
  <2>1. Fits(adapter'[a]) /\ adapter'[a].mode # "CLIENT"
    BY <1>2, <1>4 DEF Fits
  <2> QED
    BY <1>1, <1>2, <1>3, <1>4, <2>1, AdaptersStep
<1>7. SocketsFit'
  <2> SUFFICES ASSUME NEW i \in 1..Len(socket) PROVE SocketFits(i)'
    BY <1>3 DEF SocketsFit
  <2> QED
    BY <1>1, <1>2, <1>3, <1>4, <1>5, SocketStays
<1>8. WritesFit' /\ CurrentSocket'
  BY <1>1, <1>2, <1>3, <1>4 DEF WritesFit, CurrentSocket
<1>9. Sessions'
  <2>1. OneBegins(0)
    BY <1>1, <1>3, SocketsSame
  <2>2. Shown' = adapter'[a].status
    BY <1>3, <1>4 DEF Shown
  <2> QED
    BY <1>2, <1>3, <1>4, <2>1, <2>2, SessionsReported
<1>10. Rows'
  <2>1. \A b \in 1..Len(adapter) : adapter'[b].socket = adapter[b].socket
    BY <1>2 DEF OnlyAdapter
  <2>2. socket' \in Seq(Socket) /\ Len(socket) <= Len(socket')
    BY <1>1, <1>3, Sizes DEF TypeOK
  <2> QED
    BY <1>1, <1>3, <1>5, <1>9, <2>1, <2>2, RowKept DEF Sessions
<1> QED
  BY <1>6, <1>7, <1>8, <1>9, <1>10 DEF Structure

LEMMA HandleConnectionKeeps ==
  ASSUME ManagerInv, NEW a \in 1..Len(adapter), NEW ok \in BOOLEAN, HandleConnection(a, ok)
  PROVE  Structure' /\ Sessions' /\ Rows'
<1>1. /\ TypeInv /\ TypeOK /\ AdaptersFit /\ SocketsFit /\ WritesFit /\ CurrentSocket
      /\ SessionsAccounted /\ Rows
  BY Known
<1> PICK n : n = Len(socket) + 1
  OBVIOUS
<1>2. /\ OnlyAdapter(a) /\ HandleStatusChange(adapter'[a], ok)
      /\ adapter'[a].mode = adapter[a].mode
      /\ adapter'[a].status = "CONNECTED" /\ adapter'[a].lastError \in LastError
      /\ adapter'[a].server = "listening" /\ adapter'[a].socket = n
      /\ adapter'[a].timer = adapter[a].timer
      /\ adapter[a].server = "listening" /\ adapter[a].socket = 0
      /\ NewestSocket(NewSocket(a, "open", ok, sessionId'))
      /\ Swept /\ Len(socket) < MaxSockets
  BY <1>1, HandleConnectionFacts DEF LastError
<1>3. UNCHANGED <<current, row, writes, sends, crashes, cutOff>>
  BY DEF HandleConnection
<1>4. /\ a = current /\ a # 0 /\ adapter[a].mode = "SERVER"
      /\ adapter[a].status # "CONNECTED" /\ ~adapter[a].timer /\ ~Left(adapter[a])
      /\ sessionId \in {0} \cup unended
  BY <1>1, <1>2, AdapterKnown DEF Fits, Left
<1>5. \/ sessionId = 0 /\ SessionBegins(ok)
      \/ sessionId # 0 /\ ok /\ SessionStays
  BY <1>1, <1>2, ReportedConnected
<1>6. /\ SessionsTyped /\ unended \subseteq unended' /\ sessionId' # 0
      /\ sessionId' = sessionId \/ sessionId' = Len(sessions) + 1
      /\ sessionId' \in {Len(sessions) + 1} \cup unended'
  <2>1. Len(sessions) \in Nat /\ SessionsTyped /\ unended \subseteq unended'
    BY <1>1, <1>2, Bounds, SessionsMove
  <2> QED
    BY <1>4, <1>5, <2>1 DEF SessionBegins, SessionStays
<1>7. /\ socket' \in Seq(Socket) /\ Len(socket') = n /\ n \in Nat /\ Len(socket) \in Nat
      /\ socket'[n].owner = a /\ socket'[n].state = "open" /\ ~socket'[n].failed
      /\ socket'[n].session = sessionId' /\ socket'[n].handled = ok
      /\ \A i \in 1..Len(socket) : socket'[i] = socket[i] /\ i # n /\ i # 0
      /\ \A i \in 1..n : i \in 1..Len(socket) \/ i = n
      /\ n # 0
  <2>1. Len(socket) \in Nat
    BY <1>1, Bounds
  <2> QED
    BY <1>2, <2>1 DEF NewestSocket, NewSocket
<1>8. AdaptersFit'
  <2>1. Fits(adapter'[a]) /\ adapter'[a].mode # "CLIENT"
    BY <1>2, <1>4, <1>7 DEF Fits
  <2> QED
    BY <1>1, <1>2, <1>3, <1>4, <2>1, AdaptersStep
<1>9. \A i \in 1..Len(socket) : socket[i].state # "dying"
  <2> SUFFICES ASSUME NEW i \in 1..Len(socket), socket[i].state = "dying" PROVE FALSE
    OBVIOUS
  <2>1. SocketFits(i) /\ i # 0 /\ socket[i].owner = current
    BY <1>1, <1>2, Bounds DEF SocketsFit, Swept
  <2> QED
    BY <1>2, <1>4, <2>1 DEF SocketFits
<1>10. SocketFits(n)'
  <2>1. ok \/ sessions'[sessionId'].stored = ok
    BY <1>5 DEF SessionBegins
  <2> QED
    BY <1>2, <1>3, <1>4, <1>6, <1>7, <2>1 DEF SocketFits
<1>11. SocketsFit'
  <2> SUFFICES ASSUME NEW i \in 1..Len(socket) PROVE SocketFits(i)'
    BY <1>7, <1>10 DEF SocketsFit
  <2> QED
    BY <1>1, <1>2, <1>3, <1>4, <1>6, <1>7, <1>9, SocketStays
<1>12. WritesFit'
  <2>1. \A s \in 1..MaxSockets : s <= Len(socket) => s <= n
    BY <1>1, Bounds
  <2> QED
    BY <1>1, <1>3, <1>7, <2>1 DEF WritesFit
<1>13. CurrentSocket'
  BY <1>2, <1>3, <1>4, <1>7 DEF CurrentSocket, Joined
<1>14. Sessions'
  <2>1. OneBegins(n)
    BY <1>6, <1>7 DEF OneBegins, SocketSame, SocketBegins
  <2>2. Shown' = adapter'[a].status
    BY <1>3, <1>4 DEF Shown
  <2> QED
    BY <1>2, <1>3, <1>4, <2>1, <2>2, SessionsReported
<1>15. Rows'
  <2>1. \A b \in 1..Len(adapter) :
          adapter'[b].socket \in {adapter[b].socket, 0, Len(socket) + 1}
    BY <1>2 DEF OnlyAdapter
  <2>2. Len(socket) <= Len(socket')
    BY <1>7
  <2> QED
    BY <1>1, <1>3, <1>6, <1>7, <1>14, <2>1, <2>2, RowKept DEF Sessions
<1> QED
  BY <1>8, <1>11, <1>12, <1>13, <1>14, <1>15 DEF Structure

\* A socket closes without a report.
LEMMA ClosesSilently ==
  ASSUME ManagerInv, NEW s \in 1..Len(socket), OnlySocket(s),
         socket[s].state = "dying", socket'[s].state = "closed", writes[s] = 0,
         socket'[s].failed = socket[s].failed, socket'[s].session = socket[s].session,
         adapter' \in Seq(Adapter), Len(adapter') = Len(adapter),
         \A b \in 1..Len(adapter) : adapter'[b] = adapter[b],
         UNCHANGED <<current, row, writes, cutOff, sessionVars>>,
         adapter[socket[s].owner].socket = s => ~socket[s].handled
  PROVE  Structure' /\ Sessions' /\ Rows'
<1>1. /\ TypeInv /\ TypeOK /\ AdaptersFit /\ SocketsFit /\ WritesFit /\ CurrentSocket
      /\ Sessions /\ Rows
  BY Known
<1>2. /\ UNCHANGED <<sessionId, sessions, unended>> /\ SessionsTyped
      /\ unended \subseteq unended'
  BY <1>1, SessionsSame DEF sessionVars
<1>3. /\ socket' \in Seq(Socket) /\ Len(socket') = Len(socket) /\ Len(socket) \in Nat
      /\ socket'[s].owner = socket[s].owner /\ socket'[s].handled = socket[s].handled
      /\ \A i \in 1..Len(socket) : i # s => socket'[i] = socket[i]
  BY <1>1, Sizes DEF OnlySocket
<1>4. current # 0 => /\ current \in 1..Len(adapter) /\ adapter'[current] = adapter[current]
  BY <1>1, Bounds
<1>5. AdaptersFit'
  BY <1>1, <1>2 DEF AdaptersFit, AdapterFits
<1>6. SocketsFit'
  <2> SUFFICES ASSUME NEW i \in 1..Len(socket) PROVE SocketFits(i)'
    BY <1>3 DEF SocketsFit
  <2>1. CASE i = s
    <3>1. SocketFits(s)
      BY <1>1 DEF SocketsFit
    <3> QED
      BY <1>2, <1>3, <1>4, <2>1, <3>1 DEF SocketFits
  <2>2. CASE i # s
    <3>1. socket'[i] = socket[i] /\ sessionId' \in {0, sessionId}
      BY <1>2, <1>3, <2>2
    <3> QED
      BY <1>1, <1>2, <1>4, <3>1, SocketStays
  <2> QED
    BY <2>1, <2>2
<1>7. WritesFit'
  BY <1>1, <1>3 DEF WritesFit
<1>8. CurrentSocket'
  <2>1. current = 0 => sessionId = 0
    BY <1>1 DEF CurrentSocket
  <2> SUFFICES ASSUME current # 0, NEW j, j = adapter[current].socket, j # 0
               PROVE  Joined(adapter[current], socket[j])'
    BY <1>2, <1>4, <2>1 DEF CurrentSocket
  <2>2. /\ Joined(adapter[current], socket[j]) /\ j \in 1..Len(socket)
        /\ socket[j].owner = current
    BY <1>1, <1>4, Bounds DEF CurrentSocket, Joined
  <2>3. CASE j = s
    BY <1>2, <1>3, <1>4, <2>2, <2>3 DEF Joined
  <2>4. CASE j # s
    BY <1>2, <1>3, <1>4, <2>2, <2>4 DEF Joined
  <2> QED
    BY <2>3, <2>4
<1>9. Sessions'
  <2>1. OneBegins(0)
    BY <1>3 DEF OneBegins, SocketSame
  <2>2. Shown' = Shown
    BY <1>4 DEF Shown
  <2> QED
    BY <1>1, <1>2, <2>1, <2>2, SessionsKept
<1>10. Rows'
  <2>1. \A i \in 1..Len(socket) :
          /\ socket'[i].owner = socket[i].owner
          /\ socket[i].state # "connecting" =>
               socket'[i].state # "connecting" /\ socket'[i].session = socket[i].session
    BY <1>3
  <2> QED
    BY <1>1, <1>2, <1>3, <1>9, <2>1, RowKept DEF Sessions
<1> QED
  BY <1>5, <1>6, <1>7, <1>8, <1>9, <1>10 DEF Structure

\* The socket of an adapter closes, and the adapter reports that it has none.
LEMMA ClosesReported ==
  ASSUME ManagerInv, NEW s \in 1..Len(socket), OnlySocket(s),
         socket[s].state = "dying", socket'[s].state = "closed", writes[s] = 0,
         socket'[s].failed = socket[s].failed, socket'[s].session = socket[s].session,
         NEW a, a = socket[s].owner, OnlyAdapter(a), ~Left(adapter[a]),
         NEW ok \in BOOLEAN, HandleStatusChange(adapter'[a], ok),
         adapter'[a].status # "CONNECTED", adapter'[a].lastError = adapter[a].lastError,
         adapter'[a].socket = 0, adapter'[a].mode = adapter[a].mode,
         adapter'[a].server = adapter[a].server,
         adapter'[a].mode = "SERVER" => adapter'[a].timer = adapter[a].timer,
         adapter'[a].mode = "CLIENT" =>
           /\ ~adapter'[a].manualStop
           /\ Tries(adapter'[a], ~ok),
         UNCHANGED <<current, row, writes, cutOff>>
  PROVE  Structure' /\ Sessions' /\ Rows'
<1>1. /\ TypeInv /\ TypeOK /\ AdaptersFit /\ SocketsFit /\ WritesFit /\ CurrentSocket
      /\ SessionsAccounted /\ Rows
  BY Known
<1>2. /\ a \in 1..Len(adapter) /\ a # 0 /\ a = current /\ Fits(adapter[a])
      /\ adapter[a].lastError \in LastError
  <2>1. a \in 1..Len(adapter) /\ adapter[a] \in Adapter
    BY <1>1, Owner
  <2> QED
    BY <1>1, <2>1, AdapterKnown DEF Adapter
<1>3. adapter[a].socket = s /\ s # 0
  <2>1. SocketFits(s) /\ s # 0
    BY <1>1 DEF SocketsFit
  <2> QED
    BY <1>2, <2>1 DEF SocketFits
<1>4. /\ sessionId' \in {0, sessionId} /\ sessionId' \in {0} \cup unended'
      /\ SessionsTyped /\ unended \subseteq unended'
      /\ ~ok => sessionId' \in unended'
  <2>1. ~ok => EndThrows
    BY <1>1, <1>2, StatusChange
  <2>2. SessionsTyped /\ unended \subseteq unended'
    BY <1>1, <1>2, SessionsMove
  <2> QED
    BY <1>1, <1>2, <2>1, <2>2, ReportedUnconnected DEF EndThrows
<1>5. /\ socket' \in Seq(Socket) /\ Len(socket') = Len(socket) /\ Len(socket) \in Nat
      /\ socket'[s].owner = socket[s].owner /\ socket'[s].handled = socket[s].handled
      /\ \A i \in 1..Len(socket) : i # s => socket'[i] = socket[i]
  BY <1>1, Sizes DEF OnlySocket
<1>6. AdaptersFit'
  <2>1. Fits(adapter'[a])
    BY <1>2 DEF Fits
  <2>2. adapter'[a].mode = "CLIENT" => Tries(adapter'[a], sessionId' \in unended')
    BY <1>4 DEF Tries
  <2> QED
    BY <1>1, <1>2, <2>1, <2>2, AdaptersStep
<1>7. SocketFits(s)'
  <2>1. SocketFits(s) /\ socket[s].session \in 0..Len(sessions)
    BY <1>1, Bounds DEF SocketsFit
  <2>2. socket[s].session # 0 =>
          sessions'[socket[s].session].stored = sessions[socket[s].session].stored
    BY <1>1, <1>4, <2>1, Bounds DEF SessionsTyped
  <2> QED
    BY <1>4, <1>5, <2>1, <2>2 DEF SocketFits
<1>8. SocketsFit'
  <2> SUFFICES ASSUME NEW i \in 1..Len(socket), i # s PROVE SocketFits(i)'
    BY <1>5, <1>7 DEF SocketsFit
  <2> QED
    BY <1>1, <1>2, <1>3, <1>4, <1>5, SocketStays
<1>9. WritesFit' /\ CurrentSocket'
  BY <1>1, <1>2, <1>5 DEF WritesFit, CurrentSocket
<1>10. Sessions'
  <2>1. OneBegins(0)
    BY <1>5 DEF OneBegins, SocketSame
  <2>2. Shown' = adapter'[a].status
    BY <1>2 DEF Shown
  <2> QED
    BY <1>2, <2>1, <2>2, SessionsReported
<1>11. Rows'
  <2>1. \A i \in 1..Len(socket) :
          /\ socket'[i].owner = socket[i].owner
          /\ socket[i].state # "connecting" =>
               socket'[i].state # "connecting" /\ socket'[i].session = socket[i].session
    BY <1>5
  <2>2. \A b \in 1..Len(adapter) : adapter'[b].socket \in {adapter[b].socket, 0}
    BY DEF OnlyAdapter
  <2> QED
    BY <1>1, <1>4, <1>5, <1>10, <2>1, <2>2, RowKept DEF Sessions
<1> QED
  BY <1>6, <1>8, <1>9, <1>10, <1>11 DEF Structure

LEMMA SameAdapter ==
  ASSUME NEW x \in Adapter, NEW y \in Adapter,
         x.mode = y.mode, x.reconnect = y.reconnect, x.status = y.status,
         x.lastError = y.lastError, x.server = y.server, x.socket = y.socket,
         x.timer = y.timer, x.manualStop = y.manualStop
  PROVE  x = y
BY DEF Adapter

LEMMA ServerSocketClosesKeeps ==
  ASSUME ManagerInv, NEW s \in 1..Len(socket), NEW ok \in BOOLEAN, ServerSocketCloses(s, ok)
  PROVE  Structure' /\ Sessions' /\ Rows'
<1> PICK a : a = socket[s].owner
  OBVIOUS
<1>1. TypeInv /\ TypeOK /\ AdaptersFit /\ CurrentSocket /\ SessionsAccounted
  BY Known
<1>2. a \in 1..Len(adapter) /\ adapter[a] \in Adapter /\ s # 0 /\ Fits(adapter[a])
  BY <1>1, Owner, AdapterKnown
<1>3. /\ OnlyAdapter(a) /\ OnlySocket(s)
      /\ socket[s].state = "dying" /\ socket'[s].state = "closed"
      /\ socket'[s].failed = socket[s].failed /\ socket'[s].session = socket[s].session
      /\ writes[s] = 0 /\ adapter[a].mode = "SERVER"
      /\ adapter'[a].mode = adapter[a].mode /\ adapter'[a].reconnect = adapter[a].reconnect
      /\ adapter'[a].lastError = adapter[a].lastError
      /\ adapter'[a].server = adapter[a].server
      /\ adapter'[a].timer = adapter[a].timer
      /\ adapter'[a].manualStop = adapter[a].manualStop
      /\ \/ /\ socket[s].handled /\ adapter[a].server = "listening" /\ adapter'[a].socket = 0
            /\ adapter'[a].status = "LISTENING" /\ HandleStatusChange(adapter'[a], ok)
         \/ /\ socket[s].handled /\ adapter[a].server # "listening" /\ adapter'[a].socket = 0
            /\ adapter'[a].status = adapter[a].status /\ UNCHANGED sessionVars
         \/ ~socket[s].handled /\ UNCHANGED <<adapter, sessionVars>>
  BY <1>1, ServerSocketClosesFacts
<1>4. UNCHANGED <<current, row, writes, sends, crashes, cutOff>>
  BY DEF ServerSocketCloses
<1>5. CASE /\ adapter[a].server = "listening" /\ adapter'[a].socket = 0
           /\ adapter'[a].status = "LISTENING" /\ HandleStatusChange(adapter'[a], ok)
  <2>1. ~Left(adapter[a])
    BY <1>5 DEF Left
  <2> QED
    BY <1>3, <1>4, <1>5, <2>1, ClosesReported
<1>6. CASE /\ adapter[a].server # "listening" /\ adapter'[a].socket = 0
           /\ adapter'[a].status = adapter[a].status /\ UNCHANGED sessionVars
  <2>1. adapter[a].socket = 0
    BY <1>2, <1>3, <1>6 DEF Fits
  <2>2. adapter'[a] \in Adapter
    BY <1>2, <1>3, ElementOfSeq DEF OnlyAdapter
  <2>3. adapter'[a] = adapter[a]
    BY <1>2, <1>3, <1>6, <2>1, <2>2, SameAdapter
  <2>4. /\ adapter' \in Seq(Adapter) /\ Len(adapter') = Len(adapter)
        /\ \A b \in 1..Len(adapter) : adapter'[b] = adapter[b]
    BY <1>3, <2>3 DEF OnlyAdapter
  <2> QED
    BY <1>2, <1>3, <1>4, <1>6, <2>1, <2>4, ClosesSilently
<1>7. CASE ~socket[s].handled /\ UNCHANGED <<adapter, sessionVars>>
  <2>1. adapter' \in Seq(Adapter) /\ Len(adapter') = Len(adapter)
    BY <1>3 DEF OnlyAdapter
  <2> QED
    BY <1>3, <1>4, <1>7, <2>1, ClosesSilently
<1> QED
  BY <1>3, <1>5, <1>6, <1>7

LEMMA ConnectsKeeps ==
  ASSUME ManagerInv, NEW s \in 1..Len(socket), NEW ok \in BOOLEAN, Connects(s, ok)
  PROVE  Structure' /\ Sessions' /\ Rows'
<1> PICK a : a = socket[s].owner
  OBVIOUS
<1>1. /\ TypeInv /\ TypeOK /\ AdaptersFit /\ SocketsFit /\ WritesFit /\ CurrentSocket
      /\ SessionsAccounted /\ Rows
  BY Known
<1>2. a \in 1..Len(adapter) /\ s # 0 /\ SocketFits(s)
  BY <1>1, Owner DEF SocketsFit
<1>3. /\ OnlyAdapter(a) /\ OnlySocket(s) /\ HandleStatusChange(adapter'[a], ok)
      /\ socket[s].state = "connecting" /\ socket'[s].state = "open"
      /\ socket'[s].failed = socket[s].failed /\ socket'[s].session = sessionId'
      /\ Swept
      /\ adapter'[a].mode = adapter[a].mode
      /\ adapter'[a].status = "CONNECTED" /\ adapter'[a].lastError \in LastError
      /\ adapter'[a].server = adapter[a].server /\ adapter'[a].socket = adapter[a].socket
      /\ adapter'[a].timer = adapter[a].timer
      /\ adapter'[a].manualStop = adapter[a].manualStop
  BY <1>1, ConnectsFacts DEF LastError
<1>4. UNCHANGED <<current, row, writes, sends, crashes, cutOff>>
  BY DEF Connects
<1>5. /\ socket' \in Seq(Socket) /\ Len(socket') = Len(socket) /\ Len(socket) \in Nat
      /\ socket'[s].owner = socket[s].owner /\ socket'[s].handled = socket[s].handled
      /\ \A i \in 1..Len(socket) : i # s => socket'[i] = socket[i]
  BY <1>1, <1>3, Sizes DEF OnlySocket
<1>6. /\ a = current /\ current # 0 /\ adapter[a].socket = s /\ ~socket[s].failed
      /\ adapter'[current].socket = s
  BY <1>2, <1>3 DEF SocketFits
<1>7. ~Left(adapter[a]) /\ socket[s].session = sessionId /\ Fits(adapter[a])
  BY <1>1, <1>2, <1>6, SocketKnown, AdapterKnown
<1>8. \/ sessionId = 0 /\ SessionBegins(ok)
      \/ sessionId # 0 /\ ok /\ SessionStays
  BY <1>1, <1>3, ReportedConnected
<1>9. /\ SessionsTyped /\ unended \subseteq unended' /\ sessionId' # 0
      /\ sessionId' = sessionId \/ sessionId' = Len(sessions) + 1
      /\ sessionId # 0 => sessionId' = sessionId /\ sessions' = sessions
  <2>1. Len(sessions) \in Nat /\ SessionsTyped /\ unended \subseteq unended'
    BY <1>1, <1>3, Bounds, SessionsMove
  <2> QED
    BY <1>8, <2>1 DEF SessionBegins, SessionStays
<1>10. AdaptersFit'
  <2>1. Fits(adapter'[a])
    BY <1>2, <1>3, <1>6, <1>7 DEF Fits
  <2>2. adapter'[a].mode = "CLIENT" => ~adapter'[a].manualStop
    BY <1>1, <1>2, <1>3, <1>7, AdapterKnown
  <2>3. Tries(adapter'[a], sessionId' \in unended')
    BY <1>2, <1>3, <1>6 DEF Tries
  <2> QED
    BY <1>1, <1>2, <1>3, <1>4, <1>6, <2>1, <2>2, <2>3, AdaptersStep
<1>11. \A i \in 1..Len(socket) : i # s => socket[i].state # "dying"
  <2> SUFFICES ASSUME NEW i \in 1..Len(socket), i # s, socket[i].state = "dying" PROVE FALSE
    OBVIOUS
  <2>1. SocketFits(i) /\ socket[i].owner = current
    BY <1>1, <1>3, Bounds DEF SocketsFit, Swept
  <2> QED
    BY <1>6, <1>7, <2>1 DEF SocketFits
<1>12. SocketFits(s)'
  <2>1. socket[s].handled \/ (sessionId # 0 /\ ~sessions[sessionId].stored)
    BY <1>2, <1>7 DEF SocketFits
  <2> QED
    BY <1>2, <1>3, <1>4, <1>5, <1>6, <1>9, <2>1 DEF SocketFits
<1>13. SocketsFit'
  <2> SUFFICES ASSUME NEW i \in 1..Len(socket), i # s PROVE SocketFits(i)'
    BY <1>5, <1>12 DEF SocketsFit
  <2> QED
    BY <1>1, <1>4, <1>5, <1>6, <1>7, <1>9, <1>11, SocketStays
<1>14. WritesFit'
  BY <1>1, <1>4, <1>5 DEF WritesFit
<1>15. CurrentSocket'
  BY <1>3, <1>4, <1>5, <1>6 DEF CurrentSocket, Joined
<1>16. Sessions'
  <2>1. SocketSame(s) \/ SocketBegins(s)
    BY <1>3, <1>6, <1>7, <1>9 DEF SocketSame, SocketBegins
  <2>2. OneBegins(s)
    BY <1>5, <2>1 DEF OneBegins, SocketSame
  <2>3. Shown' = adapter'[a].status
    BY <1>4, <1>6 DEF Shown
  <2> QED
    BY <1>3, <1>4, <1>9, <2>2, <2>3, SessionsReported
<1>17. Rows'
  <2>1. \A i \in 1..Len(socket) :
          /\ socket'[i].owner = socket[i].owner
          /\ socket[i].state # "connecting" =>
               socket'[i].state # "connecting" /\ socket'[i].session = socket[i].session
    BY <1>3, <1>5
  <2>2. \A b \in 1..Len(adapter) : adapter'[b].socket = adapter[b].socket
    BY <1>3 DEF OnlyAdapter
  <2> QED
    BY <1>1, <1>4, <1>5, <1>9, <1>16, <2>1, <2>2, RowKept DEF Sessions
<1> QED
  BY <1>10, <1>13, <1>14, <1>15, <1>16, <1>17 DEF Structure

LEMMA ClientSocketClosesKeeps ==
  ASSUME ManagerInv, NEW s \in 1..Len(socket), NEW ok \in BOOLEAN, ClientSocketCloses(s, ok)
  PROVE  Structure' /\ Sessions' /\ Rows'
<1> PICK a : a = socket[s].owner
  OBVIOUS
<1>1. TypeInv /\ TypeOK /\ AdaptersFit /\ CurrentSocket /\ SessionsAccounted
  BY Known
<1>2. /\ a \in 1..Len(adapter) /\ adapter[a] \in Adapter /\ s # 0 /\ Fits(adapter[a])
      /\ adapter[a].mode = "CLIENT" =>
           \/ Left(adapter[a])
           \/ ~adapter[a].manualStop /\ Tries(adapter[a], sessionId \in unended)
  BY <1>1, Owner, AdapterKnown
<1>3. /\ OnlyAdapter(a) /\ OnlySocket(s)
      /\ socket[s].state = "dying" /\ socket'[s].state = "closed"
      /\ socket'[s].failed = socket[s].failed /\ socket'[s].session = socket[s].session
      /\ writes[s] = 0 /\ adapter[a].mode = "CLIENT"
      /\ adapter'[a].mode = adapter[a].mode /\ adapter'[a].reconnect = adapter[a].reconnect
      /\ adapter'[a].lastError = adapter[a].lastError
      /\ adapter'[a].server = adapter[a].server /\ adapter'[a].socket = 0
      /\ adapter'[a].manualStop = adapter[a].manualStop
      /\ \/ /\ adapter[a].manualStop /\ adapter'[a].timer = adapter[a].timer
            /\ adapter'[a].status = adapter[a].status /\ UNCHANGED sessionVars
         \/ /\ ~adapter[a].manualStop /\ HandleStatusChange(adapter'[a], ok)
            /\ \/ /\ adapter[a].reconnect /\ adapter'[a].timer = ok
                  /\ adapter'[a].status = "RECONNECTING"
               \/ /\ ~adapter[a].reconnect /\ adapter'[a].timer = adapter[a].timer
                  /\ adapter'[a].status = "ERROR"
  BY <1>1, ClientSocketClosesFacts
<1>4. UNCHANGED <<current, row, writes, sends, crashes, cutOff>>
  BY DEF ClientSocketCloses
<1>5. CASE /\ adapter[a].manualStop /\ adapter'[a].timer = adapter[a].timer
           /\ adapter'[a].status = adapter[a].status /\ UNCHANGED sessionVars
  <2>1. adapter[a].socket = 0
    BY <1>2, <1>3, <1>5 DEF Left
  <2>2. adapter'[a] \in Adapter
    BY <1>2, <1>3, ElementOfSeq DEF OnlyAdapter
  <2>3. adapter'[a] = adapter[a]
    BY <1>2, <1>3, <1>5, <2>1, <2>2, SameAdapter
  <2>4. /\ adapter' \in Seq(Adapter) /\ Len(adapter') = Len(adapter)
        /\ \A b \in 1..Len(adapter) : adapter'[b] = adapter[b]
    BY <1>3, <2>3 DEF OnlyAdapter
  <2> QED
    BY <1>2, <1>3, <1>4, <1>5, <2>1, <2>4, ClosesSilently
<1>6. CASE /\ ~adapter[a].manualStop /\ HandleStatusChange(adapter'[a], ok)
           /\ \/ /\ adapter[a].reconnect /\ adapter'[a].timer = ok
                 /\ adapter'[a].status = "RECONNECTING"
              \/ /\ ~adapter[a].reconnect /\ adapter'[a].timer = adapter[a].timer
                 /\ adapter'[a].status = "ERROR"
  <2>1. ~Left(adapter[a])
    BY <1>3, <1>6 DEF Left
  <2>2. Tries(adapter'[a], ~ok)
    BY <1>3, <1>6, Zenon DEF Tries
  <2> QED
    BY <1>3, <1>4, <1>6, <2>1, <2>2, ClosesReported
<1> QED
  BY <1>3, <1>5, <1>6

LEMMA ReconnectKeeps ==
  ASSUME ManagerInv, NEW a \in 1..Len(adapter), NEW ok \in BOOLEAN, Reconnect(a, ok)
  PROVE  Structure' /\ Sessions' /\ Rows'
<1>1. /\ TypeInv /\ TypeOK /\ AdaptersFit /\ SocketsFit /\ WritesFit /\ CurrentSocket
      /\ SessionsAccounted /\ Rows
  BY Known
<1> PICK n : n = Len(socket) + 1
  OBVIOUS
<1>2. /\ OnlyAdapter(a) /\ HandleStatusChange(adapter'[a], ok)
      /\ adapter[a].timer /\ Len(socket) < MaxSockets
      /\ adapter'[a].mode = adapter[a].mode
      /\ adapter'[a].status = "CONNECTING" /\ adapter'[a].lastError \in LastError
      /\ adapter'[a].server = adapter[a].server
      /\ ~adapter'[a].timer /\ adapter'[a].manualStop = adapter[a].manualStop
      /\ \/ /\ ok /\ adapter'[a].socket = n
            /\ NewestSocket(NewSocket(a, "connecting", TRUE, 0))
         \/ ~ok /\ adapter'[a].socket = adapter[a].socket /\ UNCHANGED socket
  BY <1>1, ReconnectFacts DEF LastError
<1>3. UNCHANGED <<current, row, writes, sends, crashes, cutOff>>
  BY DEF Reconnect
<1>4. /\ a = current /\ a # 0 /\ adapter[a].mode = "CLIENT" /\ adapter[a].server = "none"
      /\ adapter[a].socket = 0 /\ ~Left(adapter[a])
      /\ adapter[a].status # "CONNECTED" /\ ~adapter[a].manualStop
      /\ sessionId \in {0} \cup unended
  BY <1>1, <1>2, AdapterKnown DEF Fits, Left
<1>5. /\ sessionId' \in {0, sessionId} /\ sessionId' \in {0} \cup unended'
      /\ SessionsTyped /\ unended \subseteq unended' /\ (ok => sessionId' = 0)
      /\ ~ok => sessionId' \in unended'
  <2>1. ~ok => EndThrows
    BY <1>1, <1>2, StatusChange
  <2>2. SessionsTyped /\ unended \subseteq unended'
    BY <1>1, <1>2, SessionsMove
  <2> QED
    BY <1>1, <1>2, <2>1, <2>2, ReportedUnconnected DEF EndThrows
<1>6. Len(socket) \in Nat /\ MaxSockets \in Nat
  BY <1>1, Bounds
<1>7. ok => /\ socket' \in Seq(Socket) /\ Len(socket') = n /\ n \in Nat
            /\ n \in 1..MaxSockets /\ ~(n <= Len(socket))
            /\ socket'[n].owner = a /\ socket'[n].state = "connecting"
            /\ ~socket'[n].failed /\ socket'[n].handled /\ socket'[n].session = 0
            /\ \A i \in 1..Len(socket) : socket'[i] = socket[i] /\ i # n
            /\ \A i \in 1..n : i \in 1..Len(socket) \/ i = n
            /\ n # 0 /\ adapter'[a].socket = n
  BY <1>2, <1>6 DEF NewestSocket, NewSocket
<1>8. ~ok => UNCHANGED socket /\ adapter'[a].socket = 0
  BY <1>2, <1>4
<1>9. /\ socket' \in Seq(Socket) /\ Len(socket) <= Len(socket')
      /\ \A i \in 1..Len(socket) : socket'[i] = socket[i] /\ i # 0
      /\ \A i \in 1..Len(socket') : i \in 1..Len(socket) \/ (ok /\ i = n)
  <2>1. CASE ok
    BY <1>6, <1>7, <2>1
  <2>2. CASE ~ok
    BY <1>1, <1>6, <1>8, <2>2 DEF TypeOK
  <2> QED
    BY <2>1, <2>2
<1>10. AdaptersFit'
  <2>1. Fits(adapter'[a])
    BY <1>2, <1>4 DEF Fits
  <2>2. Tries(adapter'[a], sessionId' \in unended')
    BY <1>5, <1>7 DEF Tries
  <2> QED
    BY <1>1, <1>2, <1>3, <1>4, <2>1, <2>2, AdaptersStep
<1>11. SocketsFit'
  <2> SUFFICES ASSUME NEW i \in 1..Len(socket') PROVE SocketFits(i)'
    BY DEF SocketsFit
  <2>1. CASE ok /\ i = n
    <3>1. ~(writes[n] > 0)
      BY <1>1, <1>7, <2>1 DEF WritesFit
    <3> QED
      BY <1>3, <1>4, <1>5, <1>7, <2>1, <3>1 DEF SocketFits
  <2>2. CASE i \in 1..Len(socket)
    <3>1. adapter[current].socket # i
      BY <1>4, <1>9, <2>2
    <3> QED
      BY <1>1, <1>3, <1>4, <1>5, <1>9, <2>2, <3>1, SocketStays
  <2> QED
    BY <1>9, <2>1, <2>2
<1>12. WritesFit'
  <2>1. \A s \in 1..MaxSockets : s <= Len(socket) => s <= Len(socket')
    BY <1>6, <1>9, LenProperties
  <2> QED
    BY <1>1, <1>3, <2>1 DEF WritesFit
<1>13. CurrentSocket'
  BY <1>2, <1>3, <1>4, <1>5, <1>7, <1>8 DEF CurrentSocket, Joined
<1>14. Sessions'
  <2>1. OneBegins(n)
    BY <1>7, <1>9 DEF OneBegins, SocketSame, SocketBegins
  <2>2. Shown' = adapter'[a].status
    BY <1>3, <1>4 DEF Shown
  <2> QED
    BY <1>2, <1>3, <1>4, <2>1, <2>2, SessionsReported
<1>15. Rows'
  <2>1. \A b \in 1..Len(adapter) :
          adapter'[b].socket \in {adapter[b].socket, 0, Len(socket) + 1}
    BY <1>2 DEF OnlyAdapter
  <2> QED
    BY <1>1, <1>3, <1>5, <1>9, <1>14, <2>1, RowKept DEF Sessions
<1> QED
  BY <1>10, <1>11, <1>12, <1>13, <1>14, <1>15 DEF Structure

\* The adapter keeps all but its last error.
SameButError(a) ==
  /\ adapter'[a].mode = adapter[a].mode /\ adapter'[a].reconnect = adapter[a].reconnect
  /\ adapter'[a].status = adapter[a].status
  /\ adapter'[a].server = adapter[a].server /\ adapter'[a].socket = adapter[a].socket
  /\ adapter'[a].timer = adapter[a].timer
  /\ adapter'[a].manualStop = adapter[a].manualStop

LEMMA SameButErrorKeeps ==
  ASSUME TypeInv, AdaptersFit, NEW a \in 1..Len(adapter), OnlyAdapter(a), SameButError(a),
         UNCHANGED <<current, sessionId, unended>>
  PROVE  /\ AdaptersFit' /\ Shown' = Shown
         /\ current # 0 => /\ adapter'[current].socket = adapter[current].socket
                           /\ adapter'[current].status = adapter[current].status
                           /\ Left(adapter[current]) => Left(adapter'[current])
         /\ \A b \in 1..Len(adapter) : adapter'[b].socket = adapter[b].socket
<1>1. AdapterFits(a)
  BY DEF AdaptersFit
<1>2. AdaptersFit'
  <2>1. Fits(adapter'[a])
    BY <1>1 DEF AdapterFits, Fits, SameButError
  <2>2. Left(adapter[a]) => Left(adapter'[a])
    BY DEF Left, SameButError
  <2>3. a = current /\ adapter'[a].mode = "CLIENT" =>
          \/ Left(adapter'[a])
          \/ ~adapter'[a].manualStop /\ Tries(adapter'[a], sessionId' \in unended')
    BY <1>1, <2>2 DEF AdapterFits, Tries, SameButError
  <2>4. a # current => Left(adapter'[a])
    BY <1>1, <2>2 DEF AdapterFits
  <2> QED
    BY <2>1, <2>3, <2>4, AdaptersStep
<1>3. current # 0 => /\ adapter'[current].socket = adapter[current].socket
                     /\ adapter'[current].status = adapter[current].status
                     /\ Left(adapter[current]) => Left(adapter'[current])
  <2>1. CASE a = current
    BY <2>1 DEF SameButError, Left
  <2>2. CASE a # current
    BY <2>2, Bounds DEF OnlyAdapter
  <2> QED
    BY <2>1, <2>2
<1>4. Shown' = Shown
  BY <1>3 DEF Shown
<1>5. \A b \in 1..Len(adapter) : adapter'[b].socket = adapter[b].socket
  BY DEF OnlyAdapter, SameButError
<1> QED
  BY <1>2, <1>3, <1>4, <1>5

\* An adapter reports, but no change of its status.
LEMMA ReportKeeps ==
  ASSUME ManagerInv, NEW a \in 1..Len(adapter), OnlyAdapter(a), SameButError(a),
         NEW ok \in BOOLEAN, HandleStatusChange(adapter'[a], ok), UNCHANGED <<current, cutOff>>,
         \/ adapter[a].socket # 0
         \/ a # current /\ sessionId = 0
  PROVE  /\ ok /\ UNCHANGED <<sessionId, sessions, unended>> /\ SessionsTyped
         /\ AdaptersFit' /\ Shown' = Shown
         /\ current # 0 => /\ adapter'[current].socket = adapter[current].socket
                           /\ adapter'[current].status = adapter[current].status
                           /\ Left(adapter[current]) => Left(adapter'[current])
         /\ \A b \in 1..Len(adapter) : adapter'[b].socket = adapter[b].socket
<1>1. TypeInv /\ AdaptersFit /\ SessionsAccounted /\ CurrentSocket
  BY Known
<1>2. adapter'[a].status = adapter[a].status
  BY DEF SameButError
<1>3. adapter'[a].lastError \in LastError
  <2>1. adapter'[a] \in Adapter
    BY ElementOfSeq DEF OnlyAdapter
  <2> QED
    BY <2>1 DEF Adapter
<1>4. ok /\ UNCHANGED <<sessionId, sessions, unended>>
  BY <1>1, <1>2, ReportStays DEF SessionStays
<1>5. SessionsTyped
  BY <1>1, <1>3, SessionsMove
<1> QED
  BY <1>1, <1>4, <1>5, SameButErrorKeeps

LEMMA ReceiveKeeps ==
  ASSUME ManagerInv, NEW s \in 1..Len(socket), NEW ok \in BOOLEAN, Receive(s, ok)
  PROVE  Structure' /\ Sessions' /\ Rows'
<1> PICK a : a = socket[s].owner
  OBVIOUS
<1>1. /\ TypeInv /\ TypeOK /\ AdaptersFit /\ SocketsFit /\ WritesFit /\ CurrentSocket
      /\ Sessions /\ Rows
  BY Known
<1>2. a \in 1..Len(adapter) /\ s # 0 /\ SocketFits(s)
  BY <1>1, Owner DEF SocketsFit
<1>3. /\ OnlyAdapter(a) /\ HandleStatusChange(adapter'[a], ok) /\ adapter'[a] = adapter[a]
      /\ socket[s].state = "open"
      /\ row' = row \/ Recorded("RX", "COMPLETED", s)
  BY <1>1, ReceiveFacts
<1>4. UNCHANGED <<socket, current, writes, sends, crashes, cutOff>>
  BY DEF Receive
<1>5. a = current /\ adapter[a].socket = s /\ current # 0
  BY <1>2, <1>3 DEF SocketFits
<1>6. SameButError(a)
  BY <1>3 DEF SameButError
<1>7. /\ UNCHANGED <<sessionId, sessions, unended>> /\ SessionsTyped
      /\ AdaptersFit' /\ Shown' = Shown
      /\ \A b \in 1..Len(adapter) : adapter'[b].socket = adapter[b].socket
  BY <1>2, <1>3, <1>4, <1>5, <1>6, ReportKeeps
<1>8. SocketsFit'
  <2> SUFFICES ASSUME NEW i \in 1..Len(socket) PROVE SocketFits(i)'
    BY <1>4 DEF SocketsFit
  <2>1. SocketFits(i)
    BY <1>1 DEF SocketsFit
  <2> QED
    BY <1>3, <1>4, <1>5, <1>7, <2>1 DEF SocketFits
<1>9. WritesFit' /\ CurrentSocket'
  BY <1>1, <1>3, <1>4, <1>5, <1>7 DEF WritesFit, CurrentSocket, Joined
<1>10. Sessions'
  <2>1. OneBegins(0)
    BY <1>1, <1>4, SocketsSame
  <2> QED
    BY <1>1, <1>4, <1>7, <2>1, SessionsKept
<1>11. socket' \in Seq(Socket) /\ Len(socket) <= Len(socket') /\ SharedFits'
  BY <1>1, <1>4, <1>10, Sizes DEF TypeOK, Sessions
<1>12. CASE row' = row
  <2>1. Rows'
    BY <1>1, <1>4, <1>7, <1>11, <1>12, RowKept
  <2> QED
    BY <1>7, <1>8, <1>9, <1>10, <2>1 DEF Structure
<1>13. CASE Recorded("RX", "COMPLETED", s)
  <2>1. socket[s].session = sessionId
    BY <1>1, <1>2, <1>5, SocketKnown
  <2>2. /\ row' = [direction |-> "RX", status |-> "COMPLETED", session |-> sessionId', socket |-> s]
        /\ s \in 1..Len(socket') /\ socket'[s].state # "connecting"
        /\ sessionId' = socket'[s].session
    BY <1>3, <1>4, <1>7, <1>13, <2>1 DEF Recorded
  <2>3. Rows'
    BY <1>2, <1>11, <2>2, RowWritten
  <2> QED
    BY <1>7, <1>8, <1>9, <1>10, <2>3 DEF Structure
<1> QED
  BY <1>3, <1>12, <1>13

LEMMA FrameErrorKeeps ==
  ASSUME ManagerInv, NEW s \in 1..Len(socket), NEW ok \in BOOLEAN, FrameError(s, ok)
  PROVE  Structure' /\ Sessions' /\ Rows'
<1> PICK a : a = socket[s].owner
  OBVIOUS
<1>1. /\ TypeInv /\ TypeOK /\ AdaptersFit /\ SocketsFit /\ WritesFit /\ CurrentSocket
      /\ Sessions /\ Rows
  BY Known
<1>2. a \in 1..Len(adapter) /\ s # 0 /\ SocketFits(s)
  BY <1>1, Owner DEF SocketsFit
<1>3. /\ OnlyAdapter(a) /\ HandleStatusChange(adapter'[a], ok) /\ SameButError(a)
      /\ socket[s].state = "open"
  BY <1>1, FrameErrorFacts DEF SameButError
<1>4. UNCHANGED <<socket, current, row, writes, sends, crashes, cutOff>>
  BY DEF FrameError
<1>5. a = current /\ adapter[a].socket = s /\ current # 0 /\ ~socket[s].failed
  BY <1>2, <1>3 DEF SocketFits
<1>6. /\ UNCHANGED <<sessionId, sessions, unended>> /\ SessionsTyped
      /\ AdaptersFit' /\ Shown' = Shown
      /\ adapter'[current].socket = adapter[current].socket
      /\ adapter'[current].status = adapter[current].status
      /\ Left(adapter[current]) => Left(adapter'[current])
      /\ \A b \in 1..Len(adapter) : adapter'[b].socket = adapter[b].socket
  BY <1>2, <1>3, <1>4, <1>5, ReportKeeps
<1>7. SocketsFit'
  <2> SUFFICES ASSUME NEW i \in 1..Len(socket) PROVE SocketFits(i)'
    BY <1>4 DEF SocketsFit
  <2> QED
    BY <1>1, <1>4, <1>6, SocketStays
<1>8. WritesFit' /\ CurrentSocket'
  BY <1>1, <1>4, <1>5, <1>6 DEF WritesFit, CurrentSocket, Joined
<1>9. Sessions'
  <2>1. OneBegins(0)
    BY <1>1, <1>4, SocketsSame
  <2> QED
    BY <1>1, <1>4, <1>6, <2>1, SessionsKept
<1>10. socket' \in Seq(Socket) /\ Len(socket) <= Len(socket') /\ SharedFits'
  BY <1>1, <1>4, <1>9, Sizes DEF TypeOK, Sessions
<1>11. Rows'
  BY <1>1, <1>4, <1>6, <1>10, RowKept
<1> QED
  BY <1>6, <1>7, <1>8, <1>9, <1>11 DEF Structure

\* A socket that was live is destroyed, and keeps its session.
LEMMA DiesKeeps ==
  ASSUME ManagerInv, NEW s \in 1..Len(socket), OnlySocket(s),
         socket[s].state \in {"connecting", "open"}, socket'[s].state = "dying",
         socket'[s].session = socket[s].session,
         AdaptersFit', Shown' = Shown, SessionsTyped,
         UNCHANGED <<current, sessionId, sessions, unended, row, writes, cutOff>>,
         current # 0 => /\ adapter'[current].socket = adapter[current].socket
                        /\ adapter'[current].status = adapter[current].status
                        /\ Left(adapter[current]) => Left(adapter'[current]),
         \A b \in 1..Len(adapter) : adapter'[b].socket = adapter[b].socket,
         socket'[s].failed =>
           socket[s].failed \/ adapter'[current].lastError = "net" \/ ~socket[s].handled
  PROVE  Structure' /\ Sessions' /\ Rows'
<1>1. /\ TypeInv /\ TypeOK /\ AdaptersFit /\ SocketsFit /\ WritesFit /\ CurrentSocket
      /\ Sessions /\ Rows
  BY Known
<1>2. s # 0 /\ SocketFits(s) /\ socket[s].owner \in 1..Len(adapter)
  BY <1>1, Owner DEF SocketsFit
<1>3. /\ socket[s].owner = current /\ current # 0 /\ adapter[current].socket = s
      /\ ~socket[s].failed
  BY <1>2 DEF SocketFits
<1>4. socket[s].session = sessionId
  BY <1>1, <1>2, <1>3, SocketKnown
<1>5. /\ socket' \in Seq(Socket) /\ Len(socket') = Len(socket) /\ Len(socket) \in Nat
      /\ socket'[s].owner = socket[s].owner /\ socket'[s].handled = socket[s].handled
      /\ \A i \in 1..Len(socket) : i # s => socket'[i] = socket[i]
  BY <1>1, Sizes DEF OnlySocket
<1>6. SocketFits(s)'
  BY <1>2, <1>3, <1>4, <1>5 DEF SocketFits
<1>7. SocketsFit'
  <2> SUFFICES ASSUME NEW i \in 1..Len(socket), i # s PROVE SocketFits(i)'
    BY <1>5, <1>6 DEF SocketsFit
  <2> QED
    BY <1>1, <1>5, SocketStays
<1>8. WritesFit'
  BY <1>1, <1>5 DEF WritesFit
<1>9. CurrentSocket'
  <2>1. Joined(adapter[current], socket[s])
    BY <1>1, <1>2, <1>3 DEF CurrentSocket
  <2>2. Joined(adapter[current], socket[s])'
    BY <1>3, <1>5, <2>1 DEF Joined
  <2> QED
    BY <1>3, <2>2 DEF CurrentSocket
<1>10. Sessions'
  <2>1. OneBegins(0)
    BY <1>4, <1>5 DEF OneBegins, SocketSame
  <2> QED
    BY <1>1, <2>1, SessionsKept
<1>11. Rows'
  <2>1. \A i \in 1..Len(socket) :
          /\ socket'[i].owner = socket[i].owner
          /\ socket[i].state # "connecting" =>
               socket'[i].state # "connecting" /\ socket'[i].session = socket[i].session
    BY <1>5
  <2> QED
    BY <1>1, <1>5, <1>10, <2>1, RowKept DEF Sessions
<1> QED
  BY <1>7, <1>8, <1>9, <1>10, <1>11 DEF Structure

LEMMA SocketFailsKeeps ==
  ASSUME ManagerInv, NEW s \in 1..Len(socket), NEW ok \in BOOLEAN, SocketFails(s, ok)
  PROVE  Structure' /\ Sessions' /\ Rows'
<1> PICK a : a = socket[s].owner
  OBVIOUS
<1>1. /\ TypeInv /\ TypeOK /\ AdaptersFit /\ SocketsFit
  BY Known
<1>2. a \in 1..Len(adapter) /\ s # 0 /\ SocketFits(s)
  BY <1>1, Owner DEF SocketsFit
<1>3. /\ OnlyAdapter(a) /\ OnlySocket(s)
      /\ socket[s].state \in {"connecting", "open"} /\ socket'[s].state = "dying"
      /\ socket'[s].session = socket[s].session
      /\ SameButError(a)
      /\ \/ adapter'[a].lastError = "net" /\ HandleStatusChange(adapter'[a], ok)
         \/ ~socket[s].handled /\ UNCHANGED <<adapter, sessionVars>>
  <2>1. /\ OnlyAdapter(a) /\ OnlySocket(s)
        /\ socket[s].state \in {"connecting", "open"} /\ socket'[s].state = "dying"
        /\ socket'[s].session = socket[s].session
    BY <1>1, SocketFailsFacts, Zenon
  <2>2. /\ adapter'[a].mode = adapter[a].mode /\ adapter'[a].reconnect = adapter[a].reconnect
        /\ adapter'[a].status = adapter[a].status
        /\ adapter'[a].server = adapter[a].server /\ adapter'[a].socket = adapter[a].socket
        /\ adapter'[a].timer = adapter[a].timer
        /\ adapter'[a].manualStop = adapter[a].manualStop
    BY <1>1, SocketFailsFacts, ZenonT(40)
  <2>3. \/ adapter'[a].lastError = "net" /\ HandleStatusChange(adapter'[a], ok)
        \/ ~socket[s].handled /\ UNCHANGED <<adapter, sessionVars>>
    BY <1>1, SocketFailsFacts, ZenonT(40)
  <2> QED
    BY <2>1, <2>2, <2>3, Zenon DEF SameButError
<1>4. UNCHANGED <<current, row, writes, sends, crashes, cutOff>>
  BY DEF SocketFails
<1>5. a = current /\ adapter[a].socket = s /\ current # 0
  BY <1>2, <1>3 DEF SocketFits
<1>6. CASE adapter'[a].lastError = "net" /\ HandleStatusChange(adapter'[a], ok)
  <2>1. /\ UNCHANGED <<sessionId, sessions, unended>> /\ SessionsTyped
        /\ AdaptersFit' /\ Shown' = Shown
        /\ adapter'[current].socket = adapter[current].socket
        /\ adapter'[current].status = adapter[current].status
        /\ Left(adapter[current]) => Left(adapter'[current])
        /\ \A b \in 1..Len(adapter) : adapter'[b].socket = adapter[b].socket
    BY <1>2, <1>3, <1>4, <1>5, <1>6, ReportKeeps
  <2> QED
    BY <1>3, <1>4, <1>5, <1>6, <2>1, DiesKeeps
<1>7. CASE ~socket[s].handled /\ UNCHANGED <<adapter, sessionVars>>
  <2>1. UNCHANGED <<sessionId, sessions, unended>> /\ SessionsTyped
    BY <1>1, <1>7, SessionsSame DEF sessionVars
  <2>2. AdaptersFit' /\ Shown' = Shown
    BY <1>1, <1>4, <1>7, <2>1 DEF AdaptersFit, AdapterFits, Shown
  <2> QED
    BY <1>3, <1>4, <1>7, <2>1, <2>2, DiesKeeps
<1> QED
  BY <1>3, <1>6, <1>7

LEMMA PeerEndsKeeps ==
  ASSUME ManagerInv, NEW s \in 1..Len(socket), PeerEnds(s)
  PROVE  Structure' /\ Sessions' /\ Rows'
<1>1. TypeInv /\ TypeOK /\ AdaptersFit
  BY Known
<1>2. /\ OnlySocket(s) /\ socket[s].state = "open" /\ socket'[s].state = "dying"
      /\ socket'[s].failed = socket[s].failed /\ socket'[s].session = socket[s].session
  BY <1>1, PeerEndsFacts
<1>3. UNCHANGED <<adapter, current, sessionVars, row, writes, sends, crashes, cutOff>>
  BY DEF PeerEnds
<1>4. UNCHANGED <<sessionId, sessions, unended>> /\ SessionsTyped
  BY <1>1, <1>3, SessionsSame DEF sessionVars
<1>5. AdaptersFit' /\ Shown' = Shown
  BY <1>1, <1>3, <1>4 DEF AdaptersFit, AdapterFits, Shown
<1> QED
  BY <1>2, <1>3, <1>4, <1>5, DiesKeeps

\* A send request begins or fails, or its write fails: the connection stays.
LEMMA ConnectionKeeps ==
  ASSUME ManagerInv, UNCHANGED <<adapter, socket, current, sessionVars, cutOff>>,
         \A s \in 1..MaxSockets : writes'[s] > 0 =>
           \/ writes[s] > 0
           \/ s \in 1..Len(socket) /\ socket[s].state = "open"
  PROVE  /\ Structure' /\ Sessions' /\ UNCHANGED <<sessionId, sessions, unended>>
         /\ SharedFits' /\ socket' \in Seq(Socket) /\ Len(socket) <= Len(socket')
<1>1. /\ TypeInv /\ TypeOK /\ AdaptersFit /\ SocketsFit /\ WritesFit /\ CurrentSocket
      /\ Sessions
  BY Known
<1>2. /\ Len(socket) \in Nat /\ MaxSockets \in Nat /\ Len(socket) <= MaxSockets
      /\ UNCHANGED <<sessionId, sessions, unended>>
  BY <1>1, Bounds DEF sessionVars
<1>3. AdaptersFit' /\ CurrentSocket'
  BY <1>1, <1>2 DEF AdaptersFit, AdapterFits, CurrentSocket, Joined
<1>4. SocketsFit'
  <2> SUFFICES ASSUME NEW i \in 1..Len(socket) PROVE SocketFits(i)'
    BY DEF SocketsFit
  <2>1. SocketFits(i) /\ i \in 1..MaxSockets
    BY <1>1, <1>2 DEF SocketsFit
  <2>2. writes'[i] > 0 => socket[i].state \in {"open", "dying"}
    BY <2>1 DEF SocketFits
  <2> QED
    BY <1>2, <2>1, <2>2 DEF SocketFits
<1>5. WritesFit'
  BY <1>1, <1>2 DEF WritesFit
<1>6. Sessions'
  <2>1. Shown' = Shown
    BY DEF Shown
  <2>2. OneBegins(0)
    BY <1>1, SocketsSame
  <2> QED
    BY <1>1, <1>2, <2>1, <2>2, SessionsKept
<1>7. SharedFits' /\ socket' \in Seq(Socket) /\ Len(socket) <= Len(socket')
  BY <1>1, <1>2, <1>6 DEF Sessions, TypeOK
<1> QED
  BY <1>2, <1>3, <1>4, <1>5, <1>6, <1>7 DEF Structure

LEMMA SendFailsKeeps ==
  ASSUME ManagerInv, SendFails
  PROVE  Structure' /\ Sessions' /\ Rows'
<1>1. TypeInv /\ AdaptersFit /\ SocketsFit /\ CurrentSocket /\ SessionsAccounted /\ Rows
  BY Known
<1>2. /\ current # 0 /\ current \in 1..Len(adapter)
      /\ UNCHANGED <<adapter, socket, current, sessionVars, writes, crashes, cutOff>>
  BY <1>1, Bounds DEF SendFails
<1>3. /\ Structure' /\ Sessions' /\ UNCHANGED <<sessionId, sessions, unended>>
      /\ SharedFits' /\ socket' \in Seq(Socket) /\ Len(socket) <= Len(socket')
  <2>1. \A s \in 1..MaxSockets : writes'[s] > 0 => writes[s] > 0
    BY <1>2
  <2> QED
    BY <1>2, <2>1, ConnectionKeeps
<1>4. CASE row' = row
  BY <1>1, <1>2, <1>3, <1>4, RowKept
<1>5. CASE /\ ~CanWrite(current)
           /\ row' = [direction |-> "TX", status |-> "FAILED", session |-> sessionId',
                      socket |-> 0]
  <2>1. adapter[current].status # "CONNECTED"
    BY <1>1, <1>2, <1>5, AdapterKnown DEF CanWrite, Fits
  <2>2. sessionId' \in {0} \cup unended'
    BY <1>1, <1>2, <1>3, <2>1, AdapterKnown
  <2> QED
    BY <1>3, <1>5, <2>2, RowWritten
<1>6. CASE /\ CanWrite(current) /\ socket[adapter[current].socket].state \in {"dying", "closed"}
           /\ row' = [direction |-> "TX", status |-> "FAILED", session |-> sessionId',
                      socket |-> adapter[current].socket]
  <2> PICK s : s = adapter[current].socket
    OBVIOUS
  <2>1. s # 0 /\ s \in 1..Len(socket) /\ socket[s].session = sessionId
    BY <1>1, <1>2, <1>6, SocketKnown DEF CanWrite
  <2>2. s \in 1..Len(socket') /\ socket'[s].state # "connecting" /\ sessionId' = socket'[s].session
    BY <1>2, <1>3, <1>6, <2>1
  <2> QED
    BY <1>3, <1>6, <2>1, <2>2, RowWritten
<1> QED
  BY <1>4, <1>5, <1>6 DEF SendFails, RecordLog

LEMMA SendStartsKeeps ==
  ASSUME ManagerInv, SendStarts
  PROVE  Structure' /\ Sessions' /\ Rows'
<1>1. TypeInv /\ TypeOK /\ Rows
  BY Known
<1> PICK i : i = adapter[current].socket
  OBVIOUS
<1>2. /\ UNCHANGED <<adapter, socket, current, sessionVars, row, cutOff>>
      /\ socket[i].state = "open" /\ current # 0 /\ i # 0
      /\ writes' = [writes EXCEPT ![i] = writes[i] + 1]
  BY DEF SendStarts, CanWrite
<1>3. i \in 1..Len(socket)
  BY <1>1, <1>2, Bounds
<1>4. /\ Structure' /\ Sessions' /\ UNCHANGED <<sessionId, sessions, unended>>
      /\ SharedFits' /\ socket' \in Seq(Socket) /\ Len(socket) <= Len(socket')
  <2>1. \A s \in 1..MaxSockets : writes'[s] > 0 => writes[s] > 0 \/ s = i
    BY <1>1, <1>2 DEF TypeOK
  <2> QED
    BY <1>2, <1>3, <2>1, ConnectionKeeps
<1>5. Rows'
  BY <1>1, <1>2, <1>4, RowKept
<1> QED
  BY <1>4, <1>5

LEMMA WriteFailsKeeps ==
  ASSUME ManagerInv, NEW s \in 1..Len(socket), WriteFails(s)
  PROVE  Structure' /\ Sessions' /\ Rows'
<1>1. /\ TypeInv /\ TypeOK /\ AdaptersFit /\ SocketsFit /\ CurrentSocket /\ Rows
  BY Known
<1>2. /\ UNCHANGED <<adapter, socket, current, sessionVars, cutOff>>
      /\ writes[s] > 0 /\ socket[s].state = "dying"
      /\ writes' = [writes EXCEPT ![s] = writes[s] - 1]
      /\ \/ row' = row
         \/ row' = [direction |-> "TX", status |-> "FAILED", session |-> sessionId', socket |-> s]
  BY DEF WriteFails, RecordLog
<1>3. /\ Structure' /\ Sessions' /\ UNCHANGED <<sessionId, sessions, unended>>
      /\ SharedFits' /\ socket' \in Seq(Socket) /\ Len(socket) <= Len(socket')
  <2>1. \A i \in 1..MaxSockets : writes'[i] > 0 => writes[i] > 0
    BY <1>1, <1>2 DEF TypeOK
  <2> QED
    BY <1>2, <2>1, ConnectionKeeps
<1>4. CASE row' = row
  BY <1>1, <1>2, <1>3, <1>4, RowKept
<1>5. CASE row' = [direction |-> "TX", status |-> "FAILED", session |-> sessionId', socket |-> s]
  <2>1. s # 0 /\ SocketFits(s) /\ socket[s].owner \in 1..Len(adapter)
    BY <1>1, Bounds DEF SocketsFit
  <2>2. \/ sessionId = socket[s].session
        \/ sessionId = 0 /\ adapter[socket[s].owner].socket # s
    <3>1. CASE adapter[socket[s].owner].socket = s
      BY <1>1, <2>1, <3>1, SocketKnown
    <3>2. CASE adapter[socket[s].owner].socket # s
      BY <1>2, <2>1, <3>2 DEF SocketFits
    <3> QED
      BY <3>1, <3>2
  <2> QED
    BY <1>2, <1>3, <1>5, <2>1, <2>2, RowWritten
<1> QED
  BY <1>2, <1>4, <1>5

\* The adapter of the write has a socket, or the manager has left it: the report is
\* of the status the manager has seen.
LEMMA WriteOfConnection ==
  ASSUME ManagerInv, NEW s \in 1..Len(socket), NEW ok \in BOOLEAN, WriteSucceeds(s, ok),
         NEW a, a = socket[s].owner,
         \/ adapter[a].socket # 0
         \/ a # current /\ sessionId = 0
  PROVE  Structure' /\ Sessions' /\ Rows'
<1>1. /\ TypeInv /\ TypeOK /\ AdaptersFit /\ SocketsFit /\ WritesFit /\ CurrentSocket
      /\ Sessions /\ Rows
  BY Known
<1>2. a \in 1..Len(adapter) /\ s # 0
  BY <1>1, Owner
<1>3. /\ OnlyAdapter(a) /\ HandleStatusChange(adapter'[a], ok) /\ adapter'[a] = adapter[a]
      /\ writes[s] > 0 /\ writes' = [writes EXCEPT ![s] = writes[s] - 1]
      /\ row' = row \/ \E status \in {"COMPLETED", "FAILED"} : Recorded("TX", status, s)
  BY <1>1, WriteSucceedsFacts
<1>4. UNCHANGED <<socket, current, sends, crashes, cutOff>>
  BY DEF WriteSucceeds
<1>5. SameButError(a)
  BY <1>3 DEF SameButError
<1>6. /\ UNCHANGED <<sessionId, sessions, unended>> /\ SessionsTyped
      /\ AdaptersFit' /\ Shown' = Shown
      /\ current # 0 => /\ adapter'[current].socket = adapter[current].socket
                        /\ Left(adapter[current]) => Left(adapter'[current])
      /\ \A b \in 1..Len(adapter) : adapter'[b].socket = adapter[b].socket
  BY <1>2, <1>3, <1>4, <1>5, ReportKeeps
<1>7. \A i \in 1..MaxSockets : writes'[i] > 0 => writes[i] > 0
  BY <1>1, <1>3 DEF TypeOK
<1>8. SocketsFit'
  <2> SUFFICES ASSUME NEW i \in 1..Len(socket) PROVE SocketFits(i)'
    BY <1>4 DEF SocketsFit
  <2>1. i \in 1..MaxSockets
    BY <1>1, Bounds
  <2> QED
    BY <1>1, <1>4, <1>6, <1>7, <2>1, SocketStays
<1>9. WritesFit'
  BY <1>1, <1>4, <1>7 DEF WritesFit
<1>10. CurrentSocket'
  <2>1. current # 0 => adapter'[current] = adapter[current]
    BY <1>1, <1>3, Bounds DEF OnlyAdapter
  <2> QED
    BY <1>1, <1>4, <1>6, <2>1 DEF CurrentSocket, Joined
<1>11. Sessions'
  <2>1. OneBegins(0)
    BY <1>1, <1>4, SocketsSame
  <2> QED
    BY <1>1, <1>4, <1>6, <2>1, SessionsKept
<1>12. SharedFits' /\ socket' \in Seq(Socket) /\ Len(socket) <= Len(socket')
  BY <1>1, <1>4, <1>11, Sizes DEF Sessions, TypeOK
<1>13. CASE row' = row
  <2>1. Rows'
    BY <1>1, <1>4, <1>6, <1>12, <1>13, RowKept
  <2> QED
    BY <1>6, <1>8, <1>9, <1>10, <1>11, <2>1 DEF Structure
<1>14. ASSUME NEW status, Recorded("TX", status, s)
       PROVE  Rows'
  <2>1. /\ socket[s].state \in {"open", "dying"}
        /\ \/ sessionId = socket[s].session
           \/ sessionId = 0 /\ adapter[a].socket # s
    <3>1. SocketFits(s) /\ (adapter[a].socket = s => sessionId = socket[s].session)
      BY <1>1, <1>2, SocketKnown DEF SocketsFit
    <3>2. a # current => sessionId = 0
      BY <1>1, <1>2, SocketKnown
    <3>3. a = current => adapter[a].socket = s
      <4>1. a = current => ~Left(adapter[a])
        BY DEF Left
      <4> QED
        BY <1>2, <1>3, <3>1, <4>1 DEF SocketFits
    <3> QED
      BY <1>3, <3>1, <3>2, <3>3 DEF SocketFits
  <2>2. /\ row' = [direction |-> "TX", status |-> status, session |-> sessionId', socket |-> s]
        /\ s \in 1..Len(socket') /\ socket'[s].state # "connecting"
        /\ \/ sessionId' = socket'[s].session
           \/ sessionId' = 0 /\ adapter'[socket'[s].owner].socket # s
    BY <1>2, <1>4, <1>6, <1>14, <2>1 DEF Recorded
  <2> QED
    BY <1>2, <1>12, <2>2, RowWritten
<1> QED
  BY <1>3, <1>6, <1>8, <1>9, <1>10, <1>11, <1>13, <1>14 DEF Structure

\* The write of an adapter whose stop() threw: its report of STOPPED ends the session.
LEMMA WriteAfterStop ==
  ASSUME ManagerInv, NEW s \in 1..Len(socket), NEW ok \in BOOLEAN, WriteSucceeds(s, ok),
         NEW a, a = socket[s].owner, a = current, adapter[a].socket = 0
  PROVE  Structure' /\ Sessions' /\ Rows'
<1>1. /\ TypeInv /\ TypeOK /\ AdaptersFit /\ SocketsFit /\ WritesFit /\ CurrentSocket
      /\ SessionsAccounted /\ Rows
  BY Known
<1>2. a \in 1..Len(adapter) /\ a # 0 /\ s # 0 /\ SocketFits(s) /\ adapter[a] \in Adapter
  <2>1. a \in 1..Len(adapter) /\ adapter[a] \in Adapter
    BY <1>1, Owner
  <2> QED
    BY <1>1, <2>1, AdapterKnown DEF SocketsFit
<1>3. /\ OnlyAdapter(a) /\ HandleStatusChange(adapter'[a], ok) /\ adapter'[a] = adapter[a]
      /\ writes[s] > 0 /\ writes' = [writes EXCEPT ![s] = writes[s] - 1]
      /\ row' = row \/ (ok /\ \E status \in {"COMPLETED", "FAILED"} : Recorded("TX", status, s))
  BY <1>1, WriteSucceedsFacts
<1>4. UNCHANGED <<socket, current, sends, crashes, cutOff>>
  BY DEF WriteSucceeds
<1>5. socket[s].state \in {"open", "dying"} /\ Left(adapter[a])
  BY <1>2, <1>3 DEF SocketFits
<1>6. /\ adapter'[a].status # "CONNECTED" /\ adapter'[a].lastError \in LastError
      /\ sessionId \in {0} \cup unended
  <2>1. adapter[a].status = "STOPPED" /\ adapter[a].lastError \in LastError
    BY <1>2, <1>5 DEF Left, Adapter
  <2>2. sessionId \in {0} \cup unended
    BY <1>1, <1>2, <2>1, AdapterKnown
  <2> QED
    BY <1>3, <2>1, <2>2
<1>7. /\ sessionId' \in {0, sessionId} /\ (ok => sessionId' = 0)
      /\ SessionsTyped /\ unended \subseteq unended'
  BY <1>1, <1>3, <1>6, ReportedUnconnected, SessionsMove
<1>8. \A b \in 1..Len(adapter) : adapter'[b] = adapter[b]
  BY <1>3 DEF OnlyAdapter
<1>9. AdaptersFit'
  <2>1. Fits(adapter'[a])
    BY <1>1, <1>2, <1>3, AdapterKnown
  <2> QED
    BY <1>1, <1>2, <1>3, <1>4, <1>5, <2>1, AdaptersStep
<1>10. \A i \in 1..MaxSockets : writes'[i] > 0 => writes[i] > 0
  BY <1>1, <1>3 DEF TypeOK
<1>11. SocketsFit'
  <2> SUFFICES ASSUME NEW i \in 1..Len(socket) PROVE SocketFits(i)'
    BY <1>4 DEF SocketsFit
  <2>1. i \in 1..MaxSockets
    BY <1>1, Bounds
  <2> QED
    BY <1>1, <1>3, <1>4, <1>7, <1>10, <2>1, SocketStays
<1>12. WritesFit' /\ CurrentSocket'
  BY <1>1, <1>2, <1>3, <1>4, <1>10 DEF WritesFit, CurrentSocket
<1>13. Sessions'
  <2>1. OneBegins(0)
    BY <1>1, <1>4, SocketsSame
  <2>2. Shown' = adapter'[a].status
    BY <1>2, <1>4 DEF Shown
  <2> QED
    BY <1>3, <1>4, <1>6, <2>1, <2>2, SessionsReported
<1>14. SharedFits' /\ socket' \in Seq(Socket) /\ Len(socket) <= Len(socket')
  BY <1>1, <1>4, <1>13, Sizes DEF Sessions, TypeOK
<1>15. CASE row' = row
  <2>1. Rows'
    BY <1>1, <1>4, <1>7, <1>8, <1>14, <1>15, RowKept
  <2> QED
    BY <1>9, <1>11, <1>12, <1>13, <2>1 DEF Structure
<1>16. ASSUME NEW status, ok, Recorded("TX", status, s)
       PROVE  Rows'
  <2>1. /\ row' = [direction |-> "TX", status |-> status, session |-> 0, socket |-> s]
        /\ s \in 1..Len(socket') /\ socket'[s].state # "connecting"
        /\ adapter'[socket'[s].owner].socket # s
    BY <1>2, <1>3, <1>4, <1>5, <1>7, <1>16 DEF Recorded
  <2> QED
    BY <1>2, <1>14, <2>1, RowWritten
<1> QED
  BY <1>3, <1>9, <1>11, <1>12, <1>13, <1>15, <1>16 DEF Structure

LEMMA WriteSucceedsKeeps ==
  ASSUME ManagerInv, NEW s \in 1..Len(socket), NEW ok \in BOOLEAN, WriteSucceeds(s, ok)
  PROVE  Structure' /\ Sessions' /\ Rows'
<1> PICK a : a = socket[s].owner
  OBVIOUS
<1>1. TypeInv /\ AdaptersFit /\ SocketsFit
  BY Known
<1>2. SocketFits(s) /\ s # 0 /\ a \in 1..Len(adapter) /\ writes[s] > 0
  BY <1>1, Owner DEF SocketsFit, WriteSucceeds
<1>3. a # current => sessionId = 0
  BY <1>2 DEF SocketFits
<1>4. CASE a = current /\ adapter[a].socket = 0
  BY <1>4, WriteAfterStop
<1>5. CASE a # current \/ adapter[a].socket # 0
  BY <1>3, <1>5, WriteOfConnection
<1> QED
  BY <1>4, <1>5

\* An adapter that is stopped when no listen() is pending is done.
LEMMA StoppedIsLeft ==
  ASSUME TypeOK, NEW a \in 1..Len(adapter), Fits(adapter[a]), adapter[a].server # "pending"
  PROVE  Left(Stopped(a)) /\ Fits(Stopped(a))
<1> PICK y : y = Stopped(a)
  OBVIOUS
<1>1. /\ y \in Adapter /\ y.mode = adapter[a].mode /\ y.status = "STOPPED" /\ y.socket = 0
      /\ y.mode = "SERVER" =>
           /\ y.server = (IF adapter[a].server = "listening" THEN "none" ELSE adapter[a].server)
           /\ y.timer = adapter[a].timer
      /\ y.mode = "CLIENT" => y.server = adapter[a].server /\ ~y.timer /\ y.manualStop
  BY StoppedFacts
<1>2. adapter[a].server \in {"none", "listening"} /\ y.mode \in {"SERVER", "CLIENT"}
  <2>1. adapter[a] \in Adapter
    BY Sizes
  <2> QED
    BY <1>1, <2>1 DEF Adapter, Mode
<1> QED
  BY <1>1, <1>2 DEF Fits, Left

\* After stop() and start() the sockets there were are dying or closed, and their
\* session is over, unless its UPDATE threw.
LEMMA SocketsLeft ==
  ASSUME ManagerInv, NEW s \in 1..Len(socket), KeptSocket(s), UNCHANGED writes, SessionsTyped,
         \/ sessionId' = 0 /\ current' \in {0, Len(adapter) + 1}
         \/ /\ sessionId' = sessionId /\ sessionId \in unended'
            /\ current' = current /\ Left(adapter'[current])
  PROVE  SocketFits(s)'
<1>1. /\ TypeInv /\ AdaptersFit /\ SocketsFit /\ CurrentSocket /\ SocketFits(s)
  BY Known DEF SocketsFit
<1>2. /\ socket[s].owner \in 1..Len(adapter) /\ Len(adapter) \in Nat
      /\ socket[s] \in Socket /\ s # 0 /\ Len(sessions) \in Nat
      /\ socket[s].session \in 0..Len(sessions)
      /\ (current # 0 => current \in 1..Len(adapter))
  BY <1>1, Bounds, Owner
<1>3. socket[s].owner # 0 /\ socket[s].owner # Len(adapter) + 1
  BY <1>2
<1>4. socket'[s].state \in {"dying", "closed"}
  <2>1. CASE current # 0 /\ adapter[current].socket = s
    BY <1>2, <2>1 DEF KeptSocket, Socket
  <2>2. CASE ~(current # 0 /\ adapter[current].socket = s)
    <3>1. socket'[s].state = socket[s].state
      BY <2>2 DEF KeptSocket
    <3>2. socket[s].state \notin {"connecting", "open"}
      BY <1>1, <1>3, <2>2 DEF SocketFits
    <3> QED
      BY <1>2, <3>1, <3>2 DEF Socket
  <2> QED
    BY <2>1, <2>2
<1>5. writes[s] > 0 => socket'[s].state = "dying"
  <2>1. writes[s] > 0 => socket[s].state \in {"open", "dying"}
    BY <1>1 DEF SocketFits
  <2> QED
    BY <1>4, <2>1 DEF KeptSocket
<1>6. socket'[s].state = "dying" =>
        \/ socket[s].state = "dying"
        \/ current # 0 /\ adapter[current].socket = s
  BY DEF KeptSocket
<1>7. socket'[s].state = "dying" /\ sessionId # 0 =>
        socket[s].owner = current /\ socket[s].session = sessionId
  <2>1. current # 0 /\ adapter[current].socket = s =>
          socket[s].owner = current /\ socket[s].session = sessionId
    BY <1>1, <1>2, SocketKnown
  <2>2. socket[s].state = "dying" /\ sessionId # 0 =>
          socket[s].owner = current /\ socket[s].session = sessionId
    BY <1>1 DEF SocketFits
  <2> QED
    BY <1>6, <2>1, <2>2
<1>8. ~socket[s].handled =>
        socket[s].session # 0 /\ ~sessions'[socket[s].session].stored
  <2>1. ~socket[s].handled => socket[s].session # 0 /\ ~sessions[socket[s].session].stored
    BY <1>1 DEF SocketFits
  <2>2. socket[s].session # 0 =>
          sessions'[socket[s].session].stored = sessions[socket[s].session].stored
    BY <1>2 DEF SessionsTyped
  <2> QED
    BY <2>1, <2>2
<1>9. /\ socket'[s].owner = socket[s].owner /\ socket'[s].session = socket[s].session
      /\ socket'[s].handled = socket[s].handled /\ writes'[s] = writes[s]
  BY DEF KeptSocket
<1>10. CASE sessionId' = 0 /\ current' \in {0, Len(adapter) + 1}
  <2>1. socket'[s].owner # current'
    BY <1>3, <1>9, <1>10
  <2> QED
    BY <1>4, <1>5, <1>8, <1>9, <1>10, <2>1 DEF SocketFits
<1>11. CASE /\ sessionId' = sessionId /\ sessionId \in unended'
            /\ current' = current /\ Left(adapter'[current])
  BY <1>4, <1>5, <1>7, <1>8, <1>9, <1>11 DEF SocketFits
<1> QED
  BY <1>10, <1>11

LEMMA StopKeeps ==
  ASSUME ~SlowLookup, ManagerInv, NEW ok \in BOOLEAN, Stop(ok)
  PROVE  Structure' /\ Sessions' /\ Rows'
<1>1. /\ TypeInv /\ TypeOK /\ AdaptersFit /\ SocketsFit /\ WritesFit /\ CurrentSocket
      /\ SessionsAccounted /\ Rows
  BY Known
<1> PICK y : y = Stopped(current)
  OBVIOUS
<1>2. /\ current \in 1..Len(adapter) /\ current # 0 /\ OnlyAdapter(current)
      /\ adapter'[current] = y /\ HandleStatusChange(y, ok)
      /\ socket' = Destroyed(current) /\ current' = IF ok THEN 0 ELSE current
  BY <1>1, StopFacts, Bounds
<1>3. UNCHANGED <<row, writes, sends, crashes, cutOff>>
  BY DEF Stop
<1>4. /\ socket' \in Seq(Socket) /\ Len(socket') = Len(socket) /\ Len(socket) \in Nat
      /\ \A s \in 1..Len(socket) : KeptSocket(s)
  BY <1>1, <1>2, DestroyedSocket, Sizes DEF KeptSocket
<1>5. Left(y) /\ Fits(y)
  <2>1. adapter[current].server # "pending"
    BY <1>1, <1>2, Bounds DEF Stop, TurnEnds
  <2>2. Fits(adapter[current])
    BY <1>1, <1>2 DEF AdaptersFit, AdapterFits
  <2> QED
    BY <1>1, <1>2, <2>1, <2>2, StoppedIsLeft
<1>6. y.lastError = adapter[current].lastError /\ y.lastError \in LastError
      /\ y.status # "CONNECTED" /\ y.socket = 0
  <2>1. y \in Adapter /\ y.lastError = adapter[current].lastError
    BY <1>1, <1>2, StoppedFacts
  <2> QED
    BY <1>5, <2>1 DEF Adapter, Left
<1>7. /\ SessionsTyped /\ unended \subseteq unended'
      /\ \/ ok /\ sessionId' = 0
         \/ ~ok /\ sessionId' = sessionId /\ sessionId \in unended'
  <2>1. ~ok => EndThrows
    BY <1>1, <1>2, <1>6, StatusChange
  <2>2. SessionsTyped /\ unended \subseteq unended'
    BY <1>1, <1>2, <1>6, SessionsMove
  <2>3. ok => sessionId' = 0
    BY <1>1, <1>2, <1>6, ReportedUnconnected
  <2> QED
    BY <2>1, <2>2, <2>3 DEF EndThrows
<1>8. AdaptersFit'
  <2>1. /\ Len(adapter') = Len(adapter)
        /\ \A b \in 1..Len(adapter) : b # current => adapter'[b] = adapter[b]
    BY <1>2 DEF OnlyAdapter
  <2> SUFFICES ASSUME NEW b \in 1..Len(adapter) PROVE AdapterFits(b)'
    BY <2>1 DEF AdaptersFit
  <2>2. b # 0
    BY <1>1, Bounds
  <2>3. CASE b = current
    BY <1>2, <1>5, <2>3 DEF AdapterFits
  <2>4. CASE b # current
    BY <1>1, <1>2, <2>1, <2>2, <2>4 DEF AdaptersFit, AdapterFits
  <2> QED
    BY <2>3, <2>4
<1>9. SocketsFit'
  <2> SUFFICES ASSUME NEW s \in 1..Len(socket) PROVE SocketFits(s)'
    BY <1>4 DEF SocketsFit
  <2>1. KeptSocket(s)
    BY <1>4
  <2>2. \/ sessionId' = 0 /\ current' \in {0, Len(adapter) + 1}
        \/ /\ sessionId' = sessionId /\ sessionId \in unended'
           /\ current' = current /\ Left(adapter'[current])
    BY <1>2, <1>5, <1>7
  <2> QED
    BY <1>3, <1>7, <2>1, <2>2, SocketsLeft
<1>10. WritesFit'
  BY <1>1, <1>3, <1>4 DEF WritesFit
<1>11. CurrentSocket'
  BY <1>2, <1>6, <1>7 DEF CurrentSocket
<1>12. Sessions'
  <2>1. OneBegins(0)
    BY <1>4 DEF OneBegins, SocketSame, KeptSocket
  <2>2. Shown' # "CONNECTED"
    BY <1>2, <1>6 DEF Shown
  <2> QED
    BY <1>2, <1>3, <1>6, <2>1, <2>2, SessionsReported
<1>13. Rows'
  <2>1. \A b \in 1..Len(adapter) : adapter'[b].socket \in {adapter[b].socket, 0}
    BY <1>2, <1>6 DEF OnlyAdapter
  <2>2. \A s \in 1..Len(socket) :
          /\ socket'[s].owner = socket[s].owner
          /\ socket[s].state # "connecting" =>
               socket'[s].state # "connecting" /\ socket'[s].session = socket[s].session
    BY <1>4 DEF KeptSocket
  <2> QED
    BY <1>1, <1>3, <1>4, <1>7, <1>12, <2>1, <2>2, RowKept DEF Sessions
<1> QED
  BY <1>8, <1>9, <1>10, <1>11, <1>12, <1>13 DEF Structure

LEMMA StartKeeps ==
  ASSUME ~SlowLookup, ManagerInv, NEW mode \in Mode, NEW reconnect \in BOOLEAN,
         Start(mode, reconnect)
  PROVE  Structure' /\ Sessions' /\ Rows'
<1> PICK n : n = Len(adapter) + 1
  OBVIOUS
<1> PICK m : m = Len(socket) + 1
  OBVIOUS
<1> PICK x : x = Started(mode, reconnect, m)
  OBVIOUS
<1> PICK y : y = Stopped(current)
  OBVIOUS
<1>1. /\ TypeInv /\ TypeOK /\ AdaptersFit /\ SocketsFit /\ WritesFit /\ CurrentSocket
      /\ Sessions /\ SessionsAccounted /\ Rows
      /\ Len(adapter) \in Nat /\ Len(socket) \in Nat
  BY Known, Bounds
<1>2. /\ adapter' \in Seq(Adapter) /\ Len(adapter') = n
      /\ adapter'[n] = x
      /\ \A b \in 1..Len(adapter) :
           adapter'[b] = IF b = current THEN y ELSE adapter[b]
      /\ current' = n
      /\ \/ current = 0 /\ mode = "SERVER" /\ UNCHANGED sessionVars
         \/ current = 0 /\ mode = "CLIENT" /\ HandleStatusChange(x, TRUE)
         \/ current # 0 /\ HandleStatusChange(y, TRUE)
      /\ socket' \in Seq(Socket) /\ \A s \in 1..Len(socket) : KeptSocket(s)
      /\ mode = "SERVER" => Len(socket') = Len(socket)
      /\ mode = "CLIENT" => /\ Len(socket') = m /\ Len(socket) < MaxSockets
                            /\ socket'[m] = NewSocket(n, "connecting", TRUE, 0)
  BY <1>1, StartFacts
<1>3. UNCHANGED <<row, writes, sends, crashes, cutOff>>
  BY DEF Start
<1>4. /\ x \in Adapter /\ x.mode = mode /\ ~x.timer /\ ~x.manualStop /\ x.status # "CONNECTED"
      /\ x.lastError \in LastError
      /\ mode = "SERVER" => x.socket = 0 /\ x.server = "pending"
      /\ mode = "CLIENT" => x.socket = m /\ x.server = "none"
  BY <1>1, StartedFacts DEF LastError
<1>5. Fits(x) /\ (mode = "CLIENT" => Tries(x, sessionId' \in unended'))
  BY <1>1, <1>4 DEF Fits, Tries, Mode
<1>6. n \notin 1..Len(adapter) /\ n # 0 /\ m # 0 /\ \A b \in 1..n : b \in 1..Len(adapter) \/ b = n
  BY <1>1
<1>7. current # 0 => /\ current \in 1..Len(adapter) /\ Left(y) /\ Fits(y)
                     /\ y.lastError = adapter[current].lastError /\ y.lastError \in LastError
                     /\ y.status # "CONNECTED" /\ y.socket = 0
  <2> SUFFICES ASSUME current # 0
               PROVE  /\ current \in 1..Len(adapter) /\ Left(y) /\ Fits(y)
                      /\ y.lastError = adapter[current].lastError /\ y.lastError \in LastError
                      /\ y.status # "CONNECTED" /\ y.socket = 0
    OBVIOUS
  <2>1. current \in 1..Len(adapter)
    BY <1>1, Bounds
  <2>2. adapter[current].server # "pending"
    BY <1>1, <2>1, Bounds DEF Start, TurnEnds
  <2>3. Fits(adapter[current])
    BY <1>1, <2>1 DEF AdaptersFit, AdapterFits
  <2>4. Left(y) /\ Fits(y)
    BY <1>1, <2>1, <2>2, <2>3, StoppedIsLeft
  <2>5. y \in Adapter /\ y.lastError = adapter[current].lastError
    BY <1>1, <2>1, StoppedFacts
  <2> QED
    BY <2>1, <2>4, <2>5 DEF Adapter, Left
<1>8. AdaptersFit'
  <2> SUFFICES ASSUME NEW b \in 1..n PROVE AdapterFits(b)'
    BY <1>2 DEF AdaptersFit
  <2>1. CASE b = n
    BY <1>2, <1>4, <1>5, <2>1 DEF AdapterFits
  <2>2. CASE b \in 1..Len(adapter) /\ b = current
    <3>1. adapter'[b] = y /\ current # 0 /\ b # current'
      BY <1>1, <1>2, <1>6, <2>2, Bounds
    <3> QED
      BY <1>7, <3>1 DEF AdapterFits
  <2>3. CASE b \in 1..Len(adapter) /\ b # current
    <3>1. adapter'[b] = adapter[b] /\ b # current'
      BY <1>2, <1>6, <2>3
    <3> QED
      BY <1>1, <2>3, <3>1 DEF AdaptersFit, AdapterFits
  <2> QED
    BY <1>6, <2>1, <2>2, <2>3
<1>9. mode = "CLIENT" =>
        /\ socket'[m].owner = n /\ socket'[m].state = "connecting" /\ ~socket'[m].failed
        /\ socket'[m].handled
        /\ socket'[m].session = 0 /\ m \in 1..MaxSockets /\ ~(m <= Len(socket))
  <2>1. m <= MaxSockets <=> Len(socket) < MaxSockets
    BY <1>1, Bounds
  <2> QED
    BY <1>1, <1>2, <2>1, Bounds DEF NewSocket
<1>10. /\ \A s \in 1..Len(socket') : s \in 1..Len(socket) \/ (mode = "CLIENT" /\ s = m)
       /\ Len(socket') \in {Len(socket), m} /\ Len(socket) <= Len(socket')
  <2>1. CASE mode = "SERVER"
    <3>1. Len(socket') = Len(socket)
      BY <1>2, <2>1
    <3> QED
      BY <1>1, <3>1
  <2>2. CASE mode = "CLIENT"
    <3>1. Len(socket') = m
      BY <1>2, <2>2
    <3> QED
      BY <1>1, <2>2, <3>1
  <2> QED
    BY <2>1, <2>2 DEF Mode
<1>11. \A s \in 1..Len(socket) :
         /\ socket'[s].owner = socket[s].owner
         /\ socket'[s].session = socket[s].session
         /\ socket'[s].failed = socket[s].failed
         /\ socket[s].state # "connecting" => socket'[s].state # "connecting"
  BY <1>2 DEF KeptSocket
<1>12. OneBegins(m)
  BY <1>2, <1>9, <1>10, <1>11 DEF OneBegins, SocketSame, SocketBegins
<1>13. Shown' # "CONNECTED"
  BY <1>2, <1>4, <1>6 DEF Shown
<1>14. Sessions' /\ sessionId' = 0 /\ SessionsTyped /\ unended \subseteq unended'
  <2>1. CASE current = 0 /\ mode = "SERVER" /\ UNCHANGED sessionVars
    <3>1. sessionId = 0 /\ Shown # "CONNECTED"
      BY <1>1, <2>1 DEF CurrentSocket, Shown
    <3>2. UNCHANGED <<sessionId, sessions, unended>> /\ SessionsTyped
      BY <1>1, <2>1, SessionsSame DEF sessionVars
    <3> QED
      BY <1>1, <1>3, <1>12, <1>13, <3>1, <3>2, SessionsKept
  <2>2. CASE current = 0 /\ mode = "CLIENT" /\ HandleStatusChange(x, TRUE)
    <3>1. sessionId' = 0 /\ SessionsTyped /\ unended \subseteq unended'
      BY <1>1, <1>4, <2>2, ReportedUnconnected, SessionsMove
    <3> QED
      BY <1>3, <1>4, <1>12, <1>13, <2>2, <3>1, SessionsReported
  <2>3. CASE current # 0 /\ HandleStatusChange(y, TRUE)
    <3>1. sessionId' = 0 /\ SessionsTyped /\ unended \subseteq unended'
      BY <1>1, <1>7, <2>3, ReportedUnconnected, SessionsMove
    <3> QED
      BY <1>3, <1>7, <1>12, <1>13, <2>3, <3>1, SessionsReported
  <2> QED
    BY <1>2, <2>1, <2>2, <2>3
<1>15. SocketsFit'
  <2> SUFFICES ASSUME NEW s \in 1..Len(socket') PROVE SocketFits(s)'
    BY DEF SocketsFit
  <2>1. CASE s \in 1..Len(socket)
    <3>1. KeptSocket(s) /\ current' \in {0, Len(adapter) + 1}
      BY <1>2, <2>1
    <3> QED
      BY <1>3, <1>14, <2>1, <3>1, SocketsLeft
  <2>2. CASE mode = "CLIENT" /\ s = m
    <3>1. ~(writes[m] > 0)
      BY <1>1, <1>9, <2>2 DEF WritesFit
    <3>2. adapter'[current'].socket = m
      BY <1>2, <1>4, <2>2
    <3> QED
      BY <1>2, <1>3, <1>9, <1>14, <2>2, <3>1, <3>2 DEF SocketFits
  <2> QED
    BY <1>10, <2>1, <2>2
<1>16. WritesFit' /\ Len(socket) <= Len(socket')
  <2>1. \A s \in 1..MaxSockets : s <= Len(socket) => s <= m
    BY <1>1, Bounds
  <2> QED
    BY <1>1, <1>3, <1>10, <2>1 DEF WritesFit
<1>17. CurrentSocket'
  <2>1. CASE mode = "SERVER"
    BY <1>2, <1>4, <1>6, <2>1 DEF CurrentSocket
  <2>2. CASE mode = "CLIENT"
    BY <1>2, <1>4, <1>6, <1>9, <1>14, <2>2 DEF CurrentSocket, Joined
  <2> QED
    BY <2>1, <2>2 DEF Mode
<1>18. Rows'
  <2>1. \A b \in 1..Len(adapter) : adapter'[b].socket \in {adapter[b].socket, 0}
    <3> SUFFICES ASSUME NEW b \in 1..Len(adapter)
                 PROVE  adapter'[b].socket \in {adapter[b].socket, 0}
      OBVIOUS
    <3>1. b # 0
      BY <1>1
    <3> QED
      BY <1>2, <1>7, <3>1
  <2> QED
    BY <1>1, <1>2, <1>3, <1>11, <1>14, <1>16, <2>1, RowKept DEF Sessions
<1> QED
  BY <1>8, <1>14, <1>15, <1>16, <1>17, <1>18 DEF Structure

LEMMA CrashKeeps ==
  ASSUME ManagerInv, Crash
  PROVE  Structure' /\ Sessions' /\ Rows'
<1>1. /\ TypeInv /\ TypeOK /\ SessionsAccounted /\ SocketsFit /\ BreakIsTheReason
      /\ SharedFits /\ Rows
  BY Known
<1>2. /\ adapter' \in Seq(Adapter) /\ Len(adapter') = Len(adapter)
      /\ \A a \in 1..Len(adapter) :
           /\ adapter'[a].mode = adapter[a].mode /\ adapter'[a].status = "STOPPED"
           /\ adapter'[a].server = "none" /\ adapter'[a].socket = 0
           /\ ~adapter'[a].timer /\ adapter'[a].manualStop
      /\ socket' \in Seq(Socket) /\ Len(socket') = Len(socket)
      /\ \A s \in 1..Len(socket) :
           /\ socket'[s].owner = socket[s].owner /\ socket'[s].state = "closed"
           /\ socket'[s].failed = socket[s].failed
           /\ socket'[s].session = socket[s].session
           /\ socket'[s].handled = socket[s].handled
  BY <1>1, CrashFacts
<1>3. /\ current' = 0 /\ sessionId' = 0 /\ writes' = [s \in 1..MaxSockets |-> 0]
      /\ cutOff' = cutOff \cup ({sessionId} \ {0}) /\ UNCHANGED <<sessions, row, unended>>
  BY DEF Crash
<1>4. AdaptersFit'
  <2>1. \A a \in 1..Len(adapter) : a # 0
    BY <1>1, Bounds
  <2> QED
    BY <1>2, <1>3, <2>1 DEF AdaptersFit, AdapterFits, Fits, Left
<1>5. SocketsFit' /\ WritesFit' /\ CurrentSocket'
  <2>1. \A s \in 1..MaxSockets : ~(writes'[s] > 0)
    BY <1>3
  <2>2. \A s \in 1..Len(socket) : s \in 1..MaxSockets
    BY <1>1, Bounds
  <2>3. SocketsFit'
    BY <1>1, <1>2, <1>3, <2>1, <2>2 DEF SocketsFit, SocketFits
  <2> QED
    BY <1>3, <2>1, <2>3 DEF WritesFit, CurrentSocket
<1>6. SessionsAccounted' /\ CutOffFits'
  <2>1. DOMAIN sessions = 1..Len(sessions) /\ cutOff \subseteq 1..Len(sessions)
    BY <1>1, Bounds
  <2>2. 0 \notin cutOff' /\ \A k \in 1..Len(sessions) : k # 0
    BY <1>1, <1>3, <2>1, Bounds
  <2>3. Shown' # "CONNECTED"
    BY <1>3 DEF Shown
  <2> QED
    BY <1>1, <1>3, <2>1, <2>2, <2>3 DEF SessionsAccounted, CutOffFits
<1>7. BreakIsTheReason'
  <2>1. DOMAIN socket' = 1..Len(socket) /\ DOMAIN socket = 1..Len(socket)
    BY <1>1, <1>2, Bounds, LenProperties
  <2> QED
    BY <1>1, <1>2, <1>3, <2>1 DEF BreakIsTheReason
<1>8. SharedFits'
  BY <1>1, <1>2, <1>3 DEF SharedFits
<1>9. Rows'
  <2>1. Len(socket) <= Len(socket') /\ unended \subseteq unended'
    BY <1>1, <1>2, <1>3, Bounds
  <2> QED
    BY <1>1, <1>2, <1>3, <1>8, <2>1, RowKept
<1> QED
  BY <1>4, <1>5, <1>6, <1>7, <1>8, <1>9 DEF Structure, Sessions

LEMMA ManagerInitial == Init => ManagerInv
<1> SUFFICES ASSUME Init PROVE ManagerInv
  OBVIOUS
<1>1. TypeInv
  BY TypeInitial
<1>2. /\ adapter = <<>> /\ socket = <<>> /\ current = 0 /\ sessionId = 0 /\ sessions = <<>>
      /\ row = NoRow /\ writes = [s \in 1..MaxSockets |-> 0] /\ cutOff = {} /\ unended = {}
  BY DEF Init
<1>3. Len(<<>>) = 0
  BY EmptySeq
<1>4. \A i \in 1..0 : FALSE
  OBVIOUS
<1>5. Structure
  BY <1>2, <1>3, <1>4
     DEF Structure, AdaptersFit, SocketsFit, WritesFit, CurrentSocket
<1>6. Sessions
  <2>1. DOMAIN <<>> = {}
    OBVIOUS
  <2>2. SharedFits
    BY <1>2, <1>3, <1>4 DEF SharedFits
  <2> QED
    BY <1>2, <2>1, <2>2 DEF Sessions, SessionsAccounted, CutOffFits, BreakIsTheReason, Shown
<1>7. Rows
  BY <1>2 DEF Rows, RowFits, RowsOfTheirSession
<1> QED
  BY <1>1, <1>5, <1>6, <1>7 DEF ManagerInv

LEMMA ManagerInductive ==
  ASSUME ~SlowLookup
  PROVE  ManagerInv /\ [Next]_vars => ManagerInv'
<1> SUFFICES ASSUME ManagerInv, [Next]_vars PROVE ManagerInv'
  OBVIOUS
<1>1. TypeInv'
  BY Known, TypeInductive
<1>2. DOMAIN adapter = 1..Len(adapter) /\ DOMAIN socket = 1..Len(socket)
  BY Known, Bounds
<1>3. Structure' /\ Sessions' /\ Rows'
  <2>1. CASE Next
    <3>1. "SERVER" \in Mode /\ "CLIENT" \in Mode /\ FALSE \in BOOLEAN
      BY DEF Mode
    <3>2. CASE Start("SERVER", FALSE)
      BY <3>1, <3>2, StartKeeps
    <3>3. CASE \E reconnect \in BOOLEAN : Start("CLIENT", reconnect)
      BY <3>1, <3>3, StartKeeps
    <3>4. CASE \E ok \in BOOLEAN : Stop(ok)
      BY <3>4, StopKeeps
    <3>5. CASE \E a \in DOMAIN adapter, ok \in BOOLEAN : ListenSucceeds(a, ok)
      BY <1>2, <3>5, ListenKeeps
    <3>6. CASE \E a \in DOMAIN adapter, ok \in BOOLEAN : ListenFails(a, ok)
      BY <1>2, <3>6, ListenKeeps
    <3>7. CASE \E a \in DOMAIN adapter, ok \in BOOLEAN : HandleConnection(a, ok)
      BY <1>2, <3>7, HandleConnectionKeeps
    <3>8. CASE \E s \in DOMAIN socket, ok \in BOOLEAN : ServerSocketCloses(s, ok)
      BY <1>2, <3>8, ServerSocketClosesKeeps
    <3>9. CASE \E s \in DOMAIN socket, ok \in BOOLEAN : Connects(s, ok)
      BY <1>2, <3>9, ConnectsKeeps
    <3>10. CASE \E s \in DOMAIN socket, ok \in BOOLEAN : ClientSocketCloses(s, ok)
      BY <1>2, <3>10, ClientSocketClosesKeeps
    <3>11. CASE \E a \in DOMAIN adapter, ok \in BOOLEAN : Reconnect(a, ok)
      BY <1>2, <3>11, ReconnectKeeps
    <3>12. CASE \E s \in DOMAIN socket, ok \in BOOLEAN : Receive(s, ok)
      BY <1>2, <3>12, ReceiveKeeps
    <3>13. CASE \E s \in DOMAIN socket, ok \in BOOLEAN : FrameError(s, ok)
      BY <1>2, <3>13, FrameErrorKeeps
    <3>14. CASE \E s \in DOMAIN socket, ok \in BOOLEAN : SocketFails(s, ok)
      BY <1>2, <3>14, SocketFailsKeeps
    <3>15. CASE \E s \in DOMAIN socket : PeerEnds(s)
      BY <1>2, <3>15, PeerEndsKeeps
    <3>16. CASE SendFails
      BY <3>16, SendFailsKeeps
    <3>17. CASE SendStarts
      BY <3>17, SendStartsKeeps
    <3>18. CASE \E s \in DOMAIN socket, ok \in BOOLEAN : WriteSucceeds(s, ok)
      BY <1>2, <3>18, WriteSucceedsKeeps
    <3>19. CASE \E s \in DOMAIN socket : WriteFails(s)
      BY <1>2, <3>19, WriteFailsKeeps
    <3>20. CASE Crash
      BY <3>20, CrashKeeps
    <3> QED
      BY <2>1, <3>2, <3>3, <3>4, <3>5, <3>6, <3>7, <3>8, <3>9, <3>10, <3>11, <3>12, <3>13,
         <3>14, <3>15, <3>16, <3>17, <3>18, <3>19, <3>20, Zenon DEF Next
  <2>2. CASE UNCHANGED vars
    <3>1. /\ UNCHANGED <<adapter, socket, current, sessionId, sessions, row, writes>>
          /\ UNCHANGED <<cutOff, unended>>
      BY <2>2 DEF vars
    <3>2. Structure'
      BY <3>1 DEF ManagerInv, Structure, AdaptersFit, AdapterFits, SocketsFit, SocketFits,
         WritesFit, CurrentSocket, Joined
    <3>3. Sessions'
      BY <3>1 DEF ManagerInv, Sessions, SessionsAccounted, Shown, CutOffFits,
         BreakIsTheReason, SharedFits
    <3>4. Rows'
      BY <3>1 DEF ManagerInv, Rows, RowFits, RowsOfTheirSession
    <3> QED
      BY <3>2, <3>3, <3>4
  <2> QED
    BY <2>1, <2>2
<1> QED
  BY <1>1, <1>3 DEF ManagerInv

\* Every state the program reaches satisfies the invariant.
LEMMA ManagerAlways ==
  ASSUME ~SlowLookup
  PROVE  Spec => []ManagerInv
<1> QED
  BY ManagerInitial, ManagerInductive, PTL DEF Spec

\* The manager has a session while it shows a connection, and another only when the
\* UPDATE that was to end it threw; the table has no other open session but those a
\* crash cut off.
THEOREM SessionsAreAccounted == ~SlowLookup => (Spec => []SessionsAccounted)
<1> SUFFICES ASSUME ~SlowLookup PROVE Spec => []SessionsAccounted
  OBVIOUS
<1>1. ManagerInv => SessionsAccounted
  BY Known
<1> QED
  BY <1>1, ManagerAlways, PTL

\* A row names the session of the socket its data went over, which no other socket
\* has unless the UPDATE of that session threw; or none, when its write was reported
\* after stop().
THEOREM RowsNameTheirSession == ~SlowLookup => (Spec => []RowsOfTheirSession)
<1> SUFFICES ASSUME ~SlowLookup PROVE Spec => []RowsOfTheirSession
  OBVIOUS
<1>1. ManagerInv => RowsOfTheirSession
  BY DEF ManagerInv, Rows
<1> QED
  BY <1>1, ManagerAlways, PTL

\* An adapter the manager has left neither listens nor connects, receives or has
\* a timer.
THEOREM LeftIsQuiet == ~SlowLookup => (Spec => []StoppedIsQuiet)
<1> SUFFICES ASSUME ~SlowLookup PROVE Spec => []StoppedIsQuiet
  OBVIOUS
<1>1. ManagerInv => StoppedIsQuiet
  <2> SUFFICES ASSUME ManagerInv, NEW a \in 1..Len(adapter), a # current
               PROVE  /\ adapter[a].server = "none" /\ ~adapter[a].timer
                      /\ \A s \in 1..Len(socket) : socket[s].owner = a =>
                           socket[s].state \in {"dying", "closed"}
    BY Known, Bounds DEF StoppedIsQuiet
  <2>1. AdapterFits(a) /\ TypeOK
    BY Known DEF AdaptersFit
  <2>2. \A s \in 1..Len(socket) : SocketFits(s) /\ socket[s] \in Socket
    BY Known, Sizes DEF SocketsFit
  <2> QED
    BY <2>1, <2>2 DEF AdapterFits, Left, SocketFits, Socket
<1> QED
  BY <1>1, ManagerAlways, PTL

\* The session of a connection that broke says so once it has ended, unless its
\* UPDATE threw.
THEOREM BreaksAreReported == ~SlowLookup => (Spec => []BreakIsTheReason)
<1> SUFFICES ASSUME ~SlowLookup PROVE Spec => []BreakIsTheReason
  OBVIOUS
<1>1. ManagerInv => BreakIsTheReason
  BY Known
<1> QED
  BY <1>1, ManagerAlways, PTL

\* A client that is started has a socket or a timer, or shows ERROR because it is
\* not to reconnect; a server that listens is free, or will be.  Only a statement
\* that threw ends that.
THEOREM ClientKeepsTrying == ~SlowLookup => (Spec => []NeverAbandoned)
<1> SUFFICES ASSUME ~SlowLookup PROVE Spec => []NeverAbandoned
  OBVIOUS
<1>1. ManagerInv => NeverAbandoned
  <2> SUFFICES ASSUME ManagerInv, current # 0 PROVE NeverAbandoned
    BY DEF NeverAbandoned
  <2>1. /\ TypeInv /\ AdaptersFit /\ SocketsFit /\ CurrentSocket
        /\ current \in 1..Len(adapter)
    BY Known, Bounds
  <2> PICK x : x = adapter[current]
    OBVIOUS
  <2> PICK s : s = x.socket
    OBVIOUS
  <2>2. x.mode = "CLIENT" /\ ~x.manualStop =>
          \/ x.socket # 0
          \/ x.reconnect /\ x.timer
          \/ ~x.reconnect /\ x.status = "ERROR"
          \/ sessionId \in unended
    BY <2>1 DEF AdaptersFit, AdapterFits, Left, Tries
  <2>3. s # 0 /\ socket[s].state = "closed" => sessionId # 0 /\ ~sessions[sessionId].stored
    <3> SUFFICES ASSUME s # 0, socket[s].state = "closed"
                 PROVE  sessionId # 0 /\ ~sessions[sessionId].stored
      OBVIOUS
    <3>1. s \in 1..Len(socket) /\ socket[s].session = sessionId /\ ~socket[s].handled
      BY <2>1, SocketKnown
    <3> QED
      BY <2>1, <3>1 DEF SocketsFit, SocketFits
  <2> QED
    BY <2>2, <2>3 DEF NeverAbandoned
<1> QED
  BY <1>1, ManagerAlways, PTL

=============================================================================
