------------------------------- MODULE Framer -------------------------------
(***************************************************************************)
(* DelimiterFramer: the byte stream of one TCP connection is cut into      *)
(* messages at a delimiter.  The framer keeps one buffer; push() appends a *)
(* chunk, delivers every message that is now complete (one synchronous     *)
(* callback per message, the loop of push) and finally drops an unfinished *)
(* message that has outgrown the limit.  The callback records the message  *)
(* in the database, and may throw: nobody catches before the event loop,   *)
(* so push ends there, and the packaged program goes on with the next      *)
(* packet.                                                                 *)
(*                                                                         *)
(* `rx' and `output' are history: the stream the peer sent, and what       *)
(* became of it, as positions in rx together with the bytes handed over.   *)
(*                                                                         *)
(* A definition named X_Y is X with the plausible bug Y.  No specification *)
(* uses it: it shows which property would notice the bug.                  *)
(***************************************************************************)
EXTENDS Integers, Sequences

CONSTANTS
  CR, LF,            \* the two control bytes
  Text,              \* the other bytes a device sends
  DelimiterKind,     \* profile.delimiterKind
  CustomDelimiter,   \* profile.customDelimiter, as bytes
  MaxMessageBytes,   \* profile.maxMessageBytes
  MaxStream          \* bound: the bytes one connection carries

Byte == Text \cup {CR, LF}

\* resolveDelimiterBytes
Delimiter ==
  CASE DelimiterKind = "CR"     -> <<CR>>
    [] DelimiterKind = "LF"     -> <<LF>>
    [] DelimiterKind = "CRLF"   -> <<CR, LF>>
    [] DelimiterKind = "CUSTOM" -> CustomDelimiter

ASSUME KindAssumption == DelimiterKind \in {"CR", "LF", "CRLF", "CUSTOM"}
ASSUME CustomAssumption == CustomDelimiter \in Seq(Byte) \ {<<>>}
ASSUME LimitAssumption == MaxMessageBytes \in Nat \ {0} /\ MaxStream \in Nat

VARIABLES
  buffer,     \* this.buffer
  scanning,   \* TRUE while push is between its concat and its end
  cutShort,   \* history: did the last push end in a throw of the message handler?
  rx,         \* history: every byte pushed so far
  output      \* history: what was delivered or dropped, oldest first

framerVars == <<buffer, scanning, cutShort, rx, output>>

\* The delimiter starts right after the first i bytes of s (Buffer.indexOf).
Occurs(s, i) ==
  /\ i + Len(Delimiter) <= Len(s)
  /\ \A k \in 1..Len(Delimiter) : s[i + k] = Delimiter[k]

IsIndexOf_Last(s, i) == Occurs(s, i) /\ \A j \in (i + 1)..Len(s) : ~Occurs(s, j)

IsIndexOf(s, i) == Occurs(s, i) /\ \A j \in 0..(i - 1) : ~Occurs(s, j)

\* Where the bytes that follow an entry of output start in rx.
After(e) == IF e.kind = "message" THEN e.to + Len(Delimiter) ELSE e.to

Consumed == Len(rx) - Len(buffer)

Entry == [kind: {"message", "dropped"}, from: Nat, to: Nat, bytes: Seq(Byte)]

-----------------------------------------------------------------------------

FramerInit ==
  /\ buffer = <<>>
  /\ scanning = FALSE /\ cutShort = FALSE
  /\ rx = <<>>
  /\ output = <<>>

\* A 'data' event: the first statement of push.
Push(chunk) ==
  /\ ~scanning
  /\ Len(rx) + Len(chunk) <= MaxStream
  /\ buffer' = buffer \o chunk
  /\ scanning' = TRUE /\ cutShort' = FALSE
  /\ rx' = rx \o chunk
  /\ UNCHANGED output

\* this.buffer.subarray(0, index) and this.buffer.subarray(index + length).
MessageOf_WithDelimiter(s, index) == SubSeq(s, 1, index + Len(Delimiter))
MessageOf(s, index) == SubSeq(s, 1, index)
Rest_OneByte(s, index) == SubSeq(s, index + 2, Len(s))
Rest(s, index) == SubSeq(s, index + Len(Delimiter) + 1, Len(s))

\* One iteration of the loop: the leftmost delimiter ends a message, which has left
\* the buffer when the handler is called.  A handler that throws ends push, with
\* the rest of the buffer unread and the limit untested.
Deliver(index, throws) ==
  /\ scanning
  /\ IsIndexOf(buffer, index)
  /\ output' = Append(output, [kind  |-> "message",
                               from  |-> Consumed,
                               to    |-> Consumed + index,
                               bytes |-> MessageOf(buffer, index)])
  /\ buffer' = Rest(buffer, index)
  /\ scanning' = ~throws /\ cutShort' = throws
  /\ UNCHANGED rx

TooLarge(s) == Len(s) > MaxMessageBytes

\* The loop found no delimiter: the limit is checked and push ends.  A throw of the
\* error handler changes nothing here: the buffer is empty by then.
Finish ==
  /\ scanning
  /\ \A i \in 0..Len(buffer) : ~Occurs(buffer, i)
  /\ scanning' = FALSE
  /\ IF TooLarge(buffer)
     THEN /\ buffer' = <<>>
          /\ output' = Append(output, [kind  |-> "dropped",
                                       from  |-> Consumed,
                                       to    |-> Len(rx),
                                       bytes |-> buffer])
     ELSE UNCHANGED <<buffer, output>>
  /\ UNCHANGED <<cutShort, rx>>

Chunk == UNION {[1..n -> Byte] : n \in 1..(MaxStream - Len(rx))}

FramerNext ==
  \/ \E chunk \in Chunk : Push(chunk)
  \/ \E index \in 0..Len(buffer), throws \in BOOLEAN : Deliver(index, throws)
  \/ Finish

FramerSpec == FramerInit /\ [][FramerNext]_framerVars

-----------------------------------------------------------------------------

\* Every variable has its type.
FramerTypeOK ==
  /\ buffer \in Seq(Byte)
  /\ scanning \in BOOLEAN /\ cutShort \in BOOLEAN
  /\ rx \in Seq(Byte)
  /\ output \in Seq(Entry)

\* The delivered messages, the delimiters behind them, the dropped runs and
\* the buffer tile the received stream: no byte is lost, repeated or moved,
\* whatever the chunks were (framer.ts, push).
Tiling ==
  /\ Len(buffer) <= Len(rx)
  /\ \A k \in 1..Len(output) :
       output[k].from = (IF k = 1 THEN 0 ELSE After(output[k - 1]))
  /\ Consumed = (IF output = <<>> THEN 0 ELSE After(output[Len(output)]))
  /\ \A i \in 1..Len(buffer) : buffer[i] = rx[Consumed + i]

\* The bytes handed to the message handler are the bytes at that place of the
\* stream, and a delimiter follows them.
ExactContents ==
  \A k \in 1..Len(output) :
    LET e == output[k] IN
    /\ After(e) <= Consumed
    /\ Len(e.bytes) = e.to - e.from
    /\ \A i \in 1..Len(e.bytes) : e.bytes[i] = rx[e.from + i]
    /\ e.kind = "message" => Occurs(rx, e.to)

\* The stream is accounted for: the output tiles it, and what was handed over is
\* what was received at that place.
StreamAccounted == Tiling /\ ExactContents

\* Every message ends at the first delimiter behind its start.  With Tiling this
\* leaves one way to cut a stream, so the cuts do not depend on the packets: no
\* two messages of one packet are merged, no message is split between two.
\* A dropped run holds no whole delimiter either.
CutsAreLeftmost ==
  \A k \in 1..Len(output) :
    LET e == output[k] IN
    \A i \in e.from..(e.to - 1) :
      Occurs(rx, i) => e.kind = "dropped" /\ i + Len(Delimiter) > e.to

\* When push returns, the buffer holds no complete message (none waits for the
\* next packet) and no more than the limit (the buffer cannot grow without
\* bound while a device sends no delimiter).  A push that a throw has ended leaves
\* messages behind; the first one after it that returns has made up for it.
QuietBuffer ==
  ~scanning /\ ~cutShort =>
    /\ Len(buffer) <= MaxMessageBytes
    /\ \A i \in 0..Len(buffer) : ~Occurs(buffer, i)

\* No delimiter is overlooked, neither in what was delivered nor in what waits
\* for the next packet, wherever the packets split it.
NothingOverlooked == CutsAreLeftmost /\ QuietBuffer

\* Every iteration of the loop of push consumes input, so push ends.
LoopProgress == [][scanning /\ scanning' => Len(buffer') < Len(buffer)]_framerVars
=============================================================================
