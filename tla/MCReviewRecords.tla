-------------------------- MODULE MCReviewRecords --------------------------
(***************************************************************************)
(* Images, and what an agent may answer about them: right answers of up to *)
(* two findings, and one answer for every mistake that is looked for.      *)
(***************************************************************************)
EXTENDS ReviewRecords, TLC

Images ==
  {[hash |-> "h1", width |-> 2, look |-> "edged"],
   [hash |-> "h2", width |-> 2, look |-> "blank"],
   [hash |-> "h3", width |-> 1, look |-> "transparent"]}

Finding(id) == [id |-> id, sound |-> TRUE, bytes |-> 1, cites |-> "whole"]

Answer(findings) ==
  [answers |-> TRUE, kind |-> "agent_review", status |-> "success",
   error |-> FALSE, findings |-> findings]

Failed == [Answer(<<>>) EXCEPT !.status = "error", !.error = TRUE]

Mistaken ==
  {[Finding("f2") EXCEPT !.cites = c] : c \in Citations \ {"whole"}}
    \cup {[Finding("f2") EXCEPT !.sound = FALSE], Finding("f1")}

Responses ==
  {Answer(<<>>), Answer(<<Finding("f1")>>),
   Answer(<<Finding("f1"), Finding("f2")>>),
   Answer(<<[Finding("f1") EXCEPT !.bytes = 7]>>),
   Answer(<<[Finding("f1") EXCEPT !.bytes = 13]>>),
   Answer(<<Finding("f1"), Finding("f2"), Finding("f3"), Finding("f4")>>),
   Failed, [Failed EXCEPT !.error = FALSE],
   [Failed EXCEPT !.findings = <<Finding("f1")>>],
   [Answer(<<Finding("f1")>>) EXCEPT !.error = TRUE],
   [Answer(<<Finding("f1")>>) EXCEPT !.answers = FALSE],
   [Answer(<<Finding("f1")>>) EXCEPT !.kind = "local_capture"]}
    \cup {Answer(<<Finding("f1"), f>>) : f \in Mistaken}

\* Scales are compared with each other and nothing else.
Symmetry == Permutations(Scale)

============================================================================
