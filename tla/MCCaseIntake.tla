----------------------------- MODULE MCCaseIntake -----------------------------
(* Two episodes of two chunks that share a message (W1 lets fragments of one *)
(* message go to several episodes); an attachment in a chunk of the first.   *)
EXTENDS CaseIntake

MCRows     == <<<<{"m1"}, {"m2"}>>, <<{"m1"}, {"m3"}>>>>
MCEvidence == <<{"m2"}, {}>>

Fragment(ref, kind, messages) == [ref |-> ref, kind |-> kind, messages |-> messages]
Says(cs, nc) == [cases |-> cs, nonCase |-> nc, flaw |-> FALSE]

\* Of a chunk that does not hold the message, each of them has issues, and
\* the first, which accounts for nothing, has them of every chunk.
MCReply ==
    {Says({}, {}),
     Says({Fragment("F1", "diagnostic_case", {"m1"})}, {}),
     Says({Fragment("F1", "field_work_report", {"m1"}),
           Fragment("F2", "diagnostic_case", {"m1"})}, {}),
     Says({Fragment("F1", "diagnostic_case", {"m2"})}, {}),
     Says({}, {"m2"}),
     Says({Fragment("F1", "diagnostic_case", {"m2"})}, {"m2"}),
     Says({Fragment("F1", "coordination_only", {"m3"})}, {}),
     Says({Fragment("F1", "noise", {"m3"})}, {})}
=============================================================================
