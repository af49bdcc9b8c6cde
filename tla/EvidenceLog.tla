---------------------------- MODULE EvidenceLog ----------------------------
(***************************************************************************)
(* What the evidence store of a session promises, with no file in sight:  *)
(* an append-only list of captures.  A capture is listed at the end, what  *)
(* is listed becomes durable, and a failure may take back listed captures  *)
(* that are not yet durable, from the end and in order, and nothing else.  *)
(* EvidenceStore is shown to implement it.                                 *)
(***************************************************************************)
EXTENDS Naturals, Sequences

CONSTANT Capture      \* the captures that can be published

VARIABLES
  log,                \* the captures a reader of the session finds, in order
  committed           \* how many of them no failure can take back any more

logVars == <<log, committed>>

LogInit == log = <<>> /\ committed = 0

\* One capture more.
Publish(c) ==
  /\ log' = Append(log, c)
  /\ UNCHANGED committed

\* The first n captures are durable from now on, and the others are gone:
\* a completed write settles on all of them, a power failure on any prefix
\* that holds the durable ones.
Settle(n) ==
  /\ n \in committed..Len(log)
  /\ log' = SubSeq(log, 1, n)
  /\ committed' = n

LogNext ==
  \/ \E c \in Capture : Publish(c)
  \/ \E n \in committed..Len(log) : Settle(n)

LogSpec == LogInit /\ [][LogNext]_logVars

============================================================================
