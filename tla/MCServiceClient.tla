-------------------------- MODULE MCServiceClient --------------------------
(***************************************************************************)
(* Command lines for the client: one of each behaviour, and mistakes.      *)
(***************************************************************************)
EXTENDS ServiceClient, TLC

Bare(shape) ==
  [shape |-> shape, json |-> 1, agent |-> 0, local |-> 0, external |-> 0,
   session |-> "absent", note |-> "absent", alias |-> "absent"]

Type(shape, options) == options @@ Bare(shape)

\* Agent without consent, consent of the wrong kind, an option that belongs to
\* another command, one that is given twice, one that has no value.
Lines ==
  {Bare("region"), Bare("status"), Bare("export"),
   Type("application", [alias |-> "good", note |-> "good"]),
   Type("review", [agent |-> 1, local |-> 1]),
   Type("review", [agent |-> 1]), Type("review", [agent |-> 1, external |-> 1]),
   Type("handoff", [external |-> 1]), Type("handoff", [local |-> 1]),
   Type("handoff", [session |-> "good"]),
   Type("annotate", [session |-> "good"]), Type("annotate", [note |-> "bad"]),
   Type("window", [alias |-> "good"]), Type("window", [json |-> 2])}

============================================================================
