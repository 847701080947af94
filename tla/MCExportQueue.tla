---------------------------- MODULE MCExportQueue ----------------------------
(***************************************************************************)
(* ExportQueue on small instances: two directories or one, one or two      *)
(* records, and up to three of the things that go wrong.                   *)
(***************************************************************************)
EXTENDS ExportQueue, TLC

\* Records are alike.
Symmetry == Permutations(Record)

-----------------------------------------------------------------------------

\* LOG-09 and LOG-10: when the file of a format that the settings name stays
\* writable in the end, and readable, every failed write of the format is made
\* good, whatever becomes of the file of the other format; unless a crash or a
\* database error loses the job.
FailedIsMadeGood ==
  \A fmt \in Format :
    <>[](TargetOf(fmt) \notin locked) /\ []<>(~file[TargetOf(fmt)].damaged) =>
      \A r \in Record :
        job[<<r, fmt>>].status = "FAILED" ~>
          job[<<r, fmt>>].status = "SAVED" \/ <<r, fmt>> \in lost

-----------------------------------------------------------------------------

\* Chapter 12 of the specification says of a process killed while saving:
\* "recover PENDING/WRITING on restart".  Nothing in the code does.
RecoveredAfterRestart ==
  \A j \in Job : job[j].status = "WRITING" ~> job[j].status # "WRITING"
=============================================================================
