--------------------------- MODULE CaptureEngine ---------------------------
(***************************************************************************)
(* One capture of CaptureEngine: the tools it runs one after the other     *)
(* (hyprctl, slurp, grim) under DirectCommandRunner, which polls the       *)
(* cancellation flag, the child and the clock in turn, beside a tool that  *)
(* prints and ends when it likes or never, a desktop whose windows move,   *)
(* and a client that cancels.                                              *)
(*                                                                         *)
(* A window, with its address and geometry, is one value, and a picture is *)
(* the window it shows.                                                    *)
(***************************************************************************)
EXTENDS Naturals, Sequences

CONSTANTS
  Window,         \* what can be the window that is captured,
  Gone,           \* and that there is none
  MaxChanges      \* bound: the changes of the desktop

ASSUME EngineAssumption == Gone \notin Window /\ MaxChanges \in Nat

VARIABLES
  mode,           \* the CaptureMode
  n,              \* which of its tools the capture has come to
  runner,         \* what the runner does next
  child,          \* the tool: how it ended, once it has
  pipe,           \* whether a process has the tool's output open
  printed,        \* what the tool has put out
  expired,        \* whether the tool's deadline has passed
  cut,            \* whether the runner stopped the tool, and why
  flag,           \* the cancellation flag
  window,         \* the window on the desktop
  before,         \* the window as of the first look
  picture,        \* what grim's picture shows
  outcome,        \* what capture returns
  changes,        \* history: how often the desktop has changed
  warned          \* history: a tool was started with the flag up

toolVars == <<child, pipe, printed, expired>>
desktopVars == <<window, changes>>
vars == <<mode, n, runner, toolVars, cut, flag, desktopVars, before, picture,
          outcome, warned>>

Modes == {"window", "region", "explicit", "application"}

\* The tools of each mode.
Plan(m) ==
  CASE m \in {"window", "application"} -> <<"look", "grim", "look">>
    [] m = "region" -> <<"slurp", "grim">>
    [] m = "explicit" -> <<"grim">>

Tool == Plan(mode)[n]

Amounts == {"nothing", "part", "whole", "over"}
Ends == {"zero", "nonzero", "signal"}
Statuses == {"none", "success", "cancelled", "timeout", "invalid", "error",
             "missing_tool"}

NoOutput == [amount |-> "nothing", shows |-> Gone]
NoOutcome == [status |-> "none", stale |-> FALSE]

-----------------------------------------------------------------------------
\* DirectCommandRunner::run

Running == child = "running"

Spawn ==
  /\ runner = "start"
  /\ runner' = "flag"
  /\ child' = "running" /\ pipe' = TRUE
  /\ printed' = NoOutput /\ expired' = FALSE
  /\ cut' = "no"
  /\ warned' = (warned \/ flag)
  /\ UNCHANGED <<mode, n, flag, desktopVars, before, picture, outcome>>

SpawnFails ==
  /\ runner = "start"
  /\ runner' = "end"
  /\ \E s \in {"missing_tool", "error"} : outcome' = [NoOutcome EXCEPT !.status = s]
  /\ UNCHANGED <<mode, n, toolVars, cut, flag, desktopVars, before, picture,
                 warned>>

\* terminate_group kills what still runs of the tool and its group.
Terminate(why) ==
  /\ cut' = why
  /\ child' = IF Running THEN "signal" ELSE child
  /\ runner' = "collect"

\* The flag only matters to a tool that runs.
PollFlagOfRunning ==
  /\ runner = "flag"
  /\ IF flag /\ Running
     THEN Terminate("cancel")
     ELSE runner' = "child" /\ UNCHANGED <<cut, child>>
  /\ UNCHANGED <<mode, n, pipe, printed, expired, flag, desktopVars, before,
                 picture, outcome, warned>>

PollFlag ==
  /\ runner = "flag"
  /\ IF flag
     THEN Terminate("cancel")
     ELSE runner' = "child" /\ UNCHANGED <<cut, child>>
  /\ UNCHANGED <<mode, n, pipe, printed, expired, flag, desktopVars, before,
                 picture, outcome, warned>>

\* try_wait
PollChild ==
  /\ runner = "child"
  /\ runner' = IF Running THEN "clock" ELSE "collect"
  /\ UNCHANGED <<mode, n, toolVars, cut, flag, desktopVars, before, picture,
                 outcome, warned>>

PollClockNever ==
  /\ runner = "clock"
  /\ runner' = "flag"
  /\ UNCHANGED <<mode, n, toolVars, cut, flag, desktopVars, before, picture,
                 outcome, warned>>

PollClock ==
  /\ runner = "clock"
  /\ IF expired
     THEN Terminate("timeout")
     ELSE runner' = "flag" /\ UNCHANGED <<cut, child>>
  /\ UNCHANGED <<mode, n, pipe, printed, expired, flag, desktopVars, before,
                 picture, outcome, warned>>

CollectUndrained ==
  /\ runner = "collect"
  /\ ~Running
  /\ runner' = "judge"
  /\ UNCHANGED <<mode, n, toolVars, cut, flag, desktopVars, before, picture,
                 outcome, warned>>

\* wait, and the join of the reader threads, which read to the end of the pipe.
Collect ==
  /\ runner = "collect"
  /\ ~Running /\ ~pipe
  /\ runner' = "judge"
  /\ UNCHANGED <<mode, n, toolVars, cut, flag, desktopVars, before, picture,
                 outcome, warned>>

-----------------------------------------------------------------------------
\* What the engine makes of a tool's output

\* The selector leaves no output when the user dismisses it; nor does it when
\* it crashes or is stopped at its deadline, and that is looked at first.
Dismissed ==
  Tool = "slurp" /\ child # "zero" /\ printed.amount = "nothing"

\* The checks of capture_region, run_json_command and capture_region_with_grim.
ToolStatus ==
  IF Dismissed \/ cut = "cancel" THEN "cancelled"
  ELSE IF cut = "timeout" THEN "timeout"
  ELSE IF printed.amount = "over" THEN "invalid"
  ELSE IF child # "zero" THEN "error"
  ELSE IF printed.amount # "whole" THEN "invalid"
  ELSE "success"

\* The window must be there at the first look; the active window, whose answer
\* is parsed as one, at the second too.
WindowMissing ==
  /\ Tool = "look"
  /\ printed.shows = Gone
  /\ mode = "window" \/ n = 1

Status ==
  IF ToolStatus = "success" /\ WindowMissing THEN "invalid"
  ELSE ToolStatus

Fail ==
  /\ runner = "judge"
  /\ Status # "success"
  /\ outcome' = [NoOutcome EXCEPT !.status = Status]
  /\ runner' = "end"
  /\ UNCHANGED <<mode, n, toolVars, cut, flag, desktopVars, before, picture,
                 warned>>

\* What the tool printed is kept.
Keep ==
  /\ before' = IF Tool = "look" /\ n = 1 THEN printed.shows ELSE before
  /\ picture' = IF Tool = "grim" THEN printed.shows ELSE picture

GoOnPast ==
  /\ runner = "judge"
  /\ Status = "success"
  /\ n <= Len(Plan(mode))
  /\ n' = n + 1
  /\ Keep
  /\ runner' = "start"
  /\ UNCHANGED <<mode, toolVars, cut, flag, desktopVars, outcome, warned>>

GoOn ==
  /\ runner = "judge"
  /\ Status = "success"
  /\ n < Len(Plan(mode))
  /\ n' = n + 1
  /\ Keep
  /\ runner' = "start"
  /\ UNCHANGED <<mode, toolVars, cut, flag, desktopVars, outcome, warned>>

CompleteWindowOnly ==
  /\ runner = "judge"
  /\ Status = "success"
  /\ n = Len(Plan(mode))
  /\ Keep
  /\ outcome' = [status |-> "success",
                 stale |-> mode = "window"
                             /\ printed.shows # before]
  /\ runner' = "end"
  /\ UNCHANGED <<mode, n, toolVars, cut, flag, desktopVars, warned>>

\* The capture is stale if the last look does not show what the first did.
Complete ==
  /\ runner = "judge"
  /\ Status = "success"
  /\ n = Len(Plan(mode))
  /\ Keep
  /\ outcome' = [status |-> "success",
                 stale |-> mode \in {"window", "application"}
                             /\ printed.shows # before]
  /\ runner' = "end"
  /\ UNCHANGED <<mode, n, toolVars, cut, flag, desktopVars, warned>>

-----------------------------------------------------------------------------
\* The tool, the desktop, the clock and the client

\* What a tool prints shows the desktop of the moment it looks at it.
ToolPrints(amount) ==
  /\ Running
  /\ printed.amount # "over"
  /\ printed' = [amount |-> amount,
                 shows |-> IF printed.amount = "nothing" THEN window
                           ELSE printed.shows]
  /\ UNCHANGED <<mode, n, runner, child, pipe, expired, cut, flag, desktopVars,
                 before, picture, outcome, warned>>

ToolEnds(how) ==
  /\ Running
  /\ child' = how
  /\ UNCHANGED <<mode, n, runner, pipe, printed, expired, cut, flag,
                 desktopVars, before, picture, outcome, warned>>

\* The last process that has the output open ends or closes it.
PipeCloses ==
  /\ pipe /\ ~Running
  /\ pipe' = FALSE
  /\ UNCHANGED <<mode, n, runner, child, printed, expired, cut, flag,
                 desktopVars, before, picture, outcome, warned>>

Expire ==
  /\ runner \in {"flag", "child", "clock"}
  /\ ~expired
  /\ expired' = TRUE
  /\ UNCHANGED <<mode, n, runner, child, pipe, printed, cut, flag, desktopVars,
                 before, picture, outcome, warned>>

\* The window moves, closes, opens, or another takes its place.
Change(w) ==
  /\ runner # "end"
  /\ changes < MaxChanges
  /\ w # window
  /\ window' = w
  /\ changes' = changes + 1
  /\ UNCHANGED <<mode, n, runner, toolVars, cut, flag, before, picture,
                 outcome, warned>>

RaiseFlag ==
  /\ runner # "end"
  /\ ~flag
  /\ flag' = TRUE
  /\ UNCHANGED <<mode, n, runner, toolVars, cut, desktopVars, before, picture,
                 outcome, warned>>

-----------------------------------------------------------------------------

Init ==
  /\ mode \in Modes
  /\ n = 1 /\ runner = "start"
  /\ child = "none" /\ pipe = FALSE /\ printed = NoOutput /\ expired = FALSE
  /\ cut = "no" /\ flag = FALSE
  /\ window \in Window \cup {Gone}
  /\ before = Gone /\ picture = Gone
  /\ outcome = NoOutcome
  /\ changes = 0 /\ warned = FALSE

\* The thread of the capture.
Run ==
  \/ Spawn \/ SpawnFails
  \/ PollFlag \/ PollChild \/ PollClock \/ Collect
  \/ Fail \/ GoOn \/ Complete

Next ==
  \/ Run
  \/ \E amount \in Amounts \ {"nothing"} : ToolPrints(amount)
  \/ \E how \in Ends : ToolEnds(how)
  \/ PipeCloses
  \/ Expire
  \/ \E w \in Window \cup {Gone} : Change(w)
  \/ RaiseFlag

Spec == Init /\ [][Next]_vars

\* The thread runs and time passes.  Nothing is asked of a tool that is not
\* killed, but that no process it leaves behind keeps its output for ever.
FairSpec ==
  Spec /\ WF_vars(Run) /\ WF_vars(Expire) /\ WF_vars(PipeCloses)

-----------------------------------------------------------------------------
\* Properties

\* Every variable stays in its range; no mode runs past its last tool.
TypeOK ==
  /\ mode \in Modes
  /\ n \in DOMAIN Plan(mode)
  /\ runner \in {"start", "flag", "child", "clock", "collect", "judge", "end"}
  /\ child \in {"none", "running"} \cup Ends
  /\ pipe \in BOOLEAN
  /\ printed \in [amount : Amounts, shows : Window \cup {Gone}]
  /\ expired \in BOOLEAN
  /\ cut \in {"no", "cancel", "timeout"}
  /\ flag \in BOOLEAN
  /\ window \in Window \cup {Gone}
  /\ before \in Window \cup {Gone}
  /\ picture \in Window \cup {Gone}
  /\ outcome \in [status : Statuses, stale : BOOLEAN]
  /\ changes \in 0..MaxChanges
  /\ warned \in BOOLEAN

\* A cancellation that was there when a tool was started is not passed over,
\* however fast the tool: the capture does not succeed.  What is reported as a
\* timeout was late, and what is reported as cancelled was cancelled, or was
\* the selector's.
StatusHonest ==
  /\ outcome.status = "success" => ~warned
  /\ outcome.status = "timeout" => expired
  /\ outcome.status = "cancelled" => (flag \/ Tool = "slurp")

\* A picture that does not show the window it is said to show is marked stale,
\* unless the desktop changed twice, there and back.
MisattributionMarked ==
  /\ outcome.status = "success"
  /\ mode \in {"window", "application"}
  /\ picture # before
  => outcome.stale \/ changes >= 2

\* When a capture returns, no tool of it runs and no output is unread.
NothingLeftRunning == runner = "end" => ~Running /\ ~pipe

\* Every capture comes to its end, whatever its tools do.
CaptureEnds == <>(runner = "end")

\* What the operator's guide says of the region selector: that a timeout is
\* told apart from a selection the user cancelled.
TimeoutIsDistinct ==
  outcome.status # "none" /\ cut = "timeout" => outcome.status = "timeout"

============================================================================
