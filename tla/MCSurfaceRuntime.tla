------------------------- MODULE MCSurfaceRuntime -------------------------
(***************************************************************************)
(* Requests of every kind for the daemon.  Three threads contend for two   *)
(* client slots; the same capture command, with the same id, comes again.  *)
(***************************************************************************)
EXTENDS SurfaceRuntime, TLC

CONSTANTS a, b, c, noted

Ask(id, kind, arg) == [id |-> id, kind |-> kind, arg |-> arg]

\* One operation of each kind that changes the manifest, and its readers.
Requests ==
  {Ask(a, "capture", NoNote), Ask(b, "review", 0), Ask(b, "annotate", noted),
   Ask(b, "select", <<1, 2>>), Ask(c, "compare", <<1, 2>>),
   Ask(c, "export", 0), Ask(c, "handoff", 1), Ask(c, "handoff_defect", 0),
   Ask(c, "status", 0), Ask(c, "cancel", 0)}

\* What a user does who captures, and another who watches and cancels.
CaptureRequests ==
  {Ask(a, "capture", noted), Ask(c, "status", 0), Ask(c, "cancel", 0)}

Symmetry == Permutations(Worker) \cup Permutations(Image)

============================================================================
