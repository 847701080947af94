------------------------------ MODULE MCFramer ------------------------------
(***************************************************************************)
(* Instances of Framer for TLC, with the reference definition of framing:  *)
(* the cuts of a whole stream, computed from the stream alone.             *)
(***************************************************************************)
EXTENDS Framer

\* A custom delimiter that can overlap itself.
DoubledByte == LET b == CHOOSE b \in Text : TRUE IN <<b, b>>

\* The start of the message that byte position p of stream s belongs to, for a
\* stream cut at leftmost, non-overlapping delimiters.
StartOf(s) ==
  LET start[p \in 0..Len(s)] ==
        IF p = 0 THEN 0
        ELSE LET cut == p - Len(Delimiter)
             IN  IF cut >= start[p - 1] /\ cut >= 0 /\ Occurs(s, cut)
                 THEN p ELSE start[p - 1]
  IN start

\* The places <<from, to>> of the messages of s.
ReferenceFrames(s) ==
  LET start == StartOf(s)
  IN {<<start[p - 1], p - Len(Delimiter)>> :
        p \in {q \in 1..Len(s) : start[q] = q}}

Messages == {k \in 1..Len(output) : output[k].kind = "message"}
NothingDropped == Messages = 1..Len(output)

\* However the stream was cut into packets, and wherever a handler threw, the
\* messages handed over are the messages of the stream (TCP-04), as long as no run
\* was dropped: as far as the stream is consumed, and all of them once a push has
\* returned.
ChunkingIndependent ==
  NothingDropped =>
    LET delivered == {<<output[k].from, output[k].to>> : k \in Messages}
    IN  /\ delivered = {f \in ReferenceFrames(rx) : f[2] < Consumed}
        /\ ~scanning /\ ~cutShort => delivered = ReferenceFrames(rx)
=============================================================================
