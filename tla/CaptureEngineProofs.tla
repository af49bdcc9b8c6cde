------------------------ MODULE CaptureEngineProofs ------------------------
(***************************************************************************)
(* For any windows and any number of changes of the desktop: the statuses  *)
(* a capture reports are true, it leaves nothing running, and a picture of *)
(* another window than the one looked up is marked.                        *)
(***************************************************************************)
EXTENDS CaptureEngine, TLAPS

\* Between two tools and after the last one nothing is running.
Quiet ==
  runner \in {"start", "judge", "end"} => ~Running /\ ~pipe

\* The runner cuts a tool short for a reason, and a capture has no outcome
\* before its end.
CutForAReason ==
  /\ cut = "cancel" => flag
  /\ cut = "timeout" => expired
  /\ runner # "end" => outcome.status = "none"

\* A tool that is started under a raised flag is cut by the first look at it,
\* and nothing comes after.
WarnedIsCut ==
  warned =>
    /\ flag
    /\ \/ runner = "flag"
       \/ runner \in {"collect", "judge"} /\ cut = "cancel"
       \/ runner = "end" /\ outcome.status # "success"

EngineInv ==
  TypeOK /\ Quiet /\ CutForAReason /\ WarnedIsCut /\ StatusHonest

-----------------------------------------------------------------------------

\* The plan of every mode is a sequence of one tool or more.
LEMMA PlanType ==
  ASSUME NEW m \in Modes
  PROVE  /\ DOMAIN Plan(m) = 1..Len(Plan(m))
         /\ Len(Plan(m)) \in 1..3
<1>1. CASE m \in {"window", "application"}
  <2>1. Plan(m) = <<"look", "grim", "look">>
    BY <1>1 DEF Plan
  <2> QED
    BY <2>1
<1>2. CASE m = "region"
  <2>1. Plan(m) = <<"slurp", "grim">>
    BY <1>2 DEF Plan
  <2> QED
    BY <2>1
<1>3. CASE m = "explicit"
  <2>1. Plan(m) = <<"grim">>
    BY <1>3 DEF Plan
  <2> QED
    BY <2>1
<1> QED
  BY <1>1, <1>2, <1>3 DEF Modes

\* What the engine reports of a tool, and of which one.
LEMMA StatusCauses ==
  /\ Status \in Statuses \ {"none"}
  /\ Status = "success" => cut # "cancel"
  /\ Status = "timeout" => cut = "timeout"
  /\ Status = "cancelled" => (cut = "cancel" \/ Tool = "slurp")
  BY DEF Status, ToolStatus, Dismissed, Statuses

LEMMA InitEngineInv == Init => EngineInv
<1> SUFFICES ASSUME Init PROVE EngineInv
  OBVIOUS
<1>1. n \in DOMAIN Plan(mode)
  BY PlanType DEF Init
<1>2. outcome \in [status : Statuses, stale : BOOLEAN]
      /\ outcome.status = "none"
  BY DEF Init, NoOutcome, Statuses
<1>3. printed \in [amount : Amounts, shows : Window \cup {Gone}]
  BY DEF Init, NoOutput, Amounts
<1>4. TypeOK
  <2>1. /\ pipe \in BOOLEAN /\ expired \in BOOLEAN
        /\ flag \in BOOLEAN /\ warned \in BOOLEAN
    BY DEF Init
  <2>2. /\ mode \in Modes
        /\ runner = "start" /\ child = "none" /\ cut = "no"
        /\ window \in Window \cup {Gone} /\ before = Gone /\ picture = Gone
        /\ changes = 0
    BY DEF Init
  <2>3. changes \in 0..MaxChanges
    BY <2>2, EngineAssumption
  <2> QED
    BY <1>1, <1>2, <1>3, <2>1, <2>2, <2>3 DEF TypeOK
<1>5. /\ child = "none" /\ pipe = FALSE
      /\ cut = "no" /\ warned = FALSE
  BY DEF Init
<1>6. Quiet /\ CutForAReason
  <2>1. ~Running /\ ~pipe
    BY <1>5 DEF Running
  <2>2. Quiet
    BY <2>1 DEF Quiet
  <2>3. cut # "cancel" /\ cut # "timeout"
    BY <1>5
  <2> QED
    BY <1>2, <2>2, <2>3 DEF CutForAReason
<1>7. WarnedIsCut /\ StatusHonest
  BY <1>2, <1>5 DEF WarnedIsCut, StatusHonest
<1> QED
  BY <1>4, <1>6, <1>7 DEF EngineInv

\* The runner's steps.
LEMMA RunnerKeeps ==
  ASSUME EngineInv,
         \/ Spawn \/ SpawnFails
         \/ PollFlag \/ PollChild \/ PollClock \/ Collect
  PROVE  EngineInv'
<1> USE DEF EngineInv
<1>1. CASE Spawn
  <2>1. TypeOK'
    BY <1>1 DEF Spawn, TypeOK, NoOutput, Amounts, desktopVars
  <2> QED
    BY <1>1, <2>1 DEF Spawn, TypeOK, Quiet, CutForAReason, WarnedIsCut,
      StatusHonest, Tool, desktopVars
<1>2. CASE SpawnFails
  <2>1. PICK s \in {"missing_tool", "error"} :
          outcome' = [status |-> s, stale |-> FALSE]
    BY <1>2 DEF SpawnFails, NoOutcome
  <2>2. TypeOK'
    <3>1. outcome' \in [status : Statuses, stale : BOOLEAN]
      BY <2>1 DEF Statuses
    <3>2. /\ runner' = "end"
          /\ UNCHANGED <<mode, n, child, pipe, printed, expired, cut, flag,
                         window, changes, before, picture, warned>>
      BY <1>2 DEF SpawnFails, toolVars, desktopVars
    <3> QED
      BY <3>1, <3>2 DEF TypeOK
  <2>3. outcome'.status \in {"missing_tool", "error"}
    BY <2>1
  <2>4. /\ runner = "start" /\ runner' = "end"
        /\ UNCHANGED <<child, pipe, expired, cut, flag, warned>>
    BY <1>2 DEF SpawnFails, toolVars
  <2>5. Quiet'
    BY <2>4 DEF Quiet, Running
  <2>6. ~warned /\ CutForAReason'
    BY <2>4 DEF CutForAReason, WarnedIsCut
  <2>7. WarnedIsCut' /\ StatusHonest'
    BY <2>3, <2>4, <2>6 DEF WarnedIsCut, StatusHonest
  <2> QED
    BY <2>2, <2>5, <2>6, <2>7
<1>3. CASE PollFlag
  <2>1. TypeOK'
    BY <1>3 DEF PollFlag, Terminate, TypeOK, Ends, desktopVars
  <2> QED
    BY <1>3, <2>1 DEF PollFlag, Terminate, Quiet, CutForAReason, WarnedIsCut,
      StatusHonest, Tool, Running, desktopVars
<1>4. CASE PollChild
  <2>1. TypeOK'
    BY <1>4 DEF PollChild, TypeOK, toolVars, desktopVars
  <2> QED
    BY <1>4, <2>1 DEF PollChild, Quiet, CutForAReason, WarnedIsCut,
      StatusHonest, Tool, Running, toolVars, desktopVars
<1>5. CASE PollClock
  <2>1. TypeOK'
    BY <1>5 DEF PollClock, Terminate, TypeOK, Ends, desktopVars
  <2> QED
    BY <1>5, <2>1 DEF PollClock, Terminate, Quiet, CutForAReason, WarnedIsCut,
      StatusHonest, Tool, Running, desktopVars
<1>6. CASE Collect
  <2>1. TypeOK'
    BY <1>6 DEF Collect, TypeOK, toolVars, desktopVars
  <2> QED
    BY <1>6, <2>1 DEF Collect, Quiet, CutForAReason, WarnedIsCut,
      StatusHonest, Tool, Running, toolVars, desktopVars
<1> QED
  BY <1>1, <1>2, <1>3, <1>4, <1>5, <1>6

\* The engine's steps.
LEMMA JudgeKeeps ==
  ASSUME EngineInv, Fail \/ GoOn \/ Complete
  PROVE  EngineInv'
<1> USE DEF EngineInv
<1>1. CASE Fail
  <2>1. /\ outcome' = [status |-> Status, stale |-> FALSE]
        /\ runner = "judge" /\ runner' = "end"
        /\ UNCHANGED <<mode, n, child, pipe, printed, expired, cut, flag,
                       window, changes, before, picture, warned>>
    BY <1>1 DEF Fail, NoOutcome, toolVars, desktopVars
  <2>2. TypeOK'
    BY <2>1, StatusCauses DEF TypeOK
  <2>3. Status # "success"
    BY <1>1 DEF Fail
  <2>4. Quiet' /\ CutForAReason' /\ WarnedIsCut'
    BY <2>1, <2>3 DEF Quiet, CutForAReason, WarnedIsCut, Running
  <2>5. StatusHonest'
    BY <2>1, <2>3, StatusCauses DEF StatusHonest, CutForAReason, Tool
  <2> QED
    BY <2>2, <2>4, <2>5
<1>2. ASSUME GoOn \/ Complete
      PROVE  before' \in Window \cup {Gone} /\ picture' \in Window \cup {Gone}
  BY <1>2 DEF GoOn, Complete, Keep, TypeOK
<1>3. CASE GoOn
  <2>1. /\ runner = "judge" /\ runner' = "start" /\ n' = n + 1
        /\ UNCHANGED <<mode, child, pipe, printed, expired, cut, flag,
                       window, changes, outcome, warned>>
    BY <1>3 DEF GoOn, toolVars, desktopVars
  <2>2. n' \in DOMAIN Plan(mode)
    <3>1. n \in 1..Len(Plan(mode)) /\ Len(Plan(mode)) \in 1..3
      BY PlanType DEF TypeOK
    <3>2. n < Len(Plan(mode))
      BY <1>3 DEF GoOn
    <3>3. n + 1 \in 1..Len(Plan(mode))
      BY <3>1, <3>2
    <3> QED
      BY <2>1, <3>3, PlanType DEF TypeOK
  <2>3. TypeOK'
    BY <1>2, <1>3, <2>1, <2>2 DEF TypeOK
  <2>4. ~warned
    BY <1>3, StatusCauses DEF GoOn, WarnedIsCut
  <2> QED
    BY <2>1, <2>3, <2>4 DEF Quiet, CutForAReason, WarnedIsCut, StatusHonest,
      Running
<1>4. CASE Complete
  <2>1. /\ runner = "judge" /\ runner' = "end"
        /\ UNCHANGED <<mode, n, child, pipe, printed, expired, cut, flag,
                       window, changes, warned>>
    BY <1>4 DEF Complete, toolVars, desktopVars
  <2> DEFINE old == mode \in {"window", "application"} /\ printed.shows # before
  <2>2. outcome' = [status |-> "success", stale |-> old]
    BY <1>4 DEF Complete
  <2>3. old \in BOOLEAN
    OBVIOUS
  <2> HIDE DEF old
  <2>4. outcome' \in [status : Statuses, stale : BOOLEAN]
        /\ outcome'.status = "success"
    BY <2>2, <2>3 DEF Statuses
  <2>5. TypeOK'
    BY <1>2, <1>4, <2>1, <2>4 DEF TypeOK
  <2>6. ~warned
    BY <1>4, StatusCauses DEF Complete, WarnedIsCut
  <2> QED
    BY <2>1, <2>4, <2>5, <2>6 DEF Quiet, CutForAReason, WarnedIsCut,
      StatusHonest, Running
<1> QED
  BY <1>1, <1>3, <1>4

\* What happens around the capture.
LEMMA WorldKeeps ==
  ASSUME EngineInv,
         \/ \E amount \in Amounts \ {"nothing"} : ToolPrints(amount)
         \/ \E how \in Ends : ToolEnds(how)
         \/ PipeCloses
         \/ Expire
         \/ \E w \in Window \cup {Gone} : Change(w)
         \/ RaiseFlag
  PROVE  EngineInv'
<1> USE DEF EngineInv
<1>1. ASSUME NEW amount \in Amounts \ {"nothing"}, ToolPrints(amount)
      PROVE  EngineInv'
  <2>1. UNCHANGED <<mode, n, runner, child, pipe, expired, cut, flag, window,
                    changes, before, picture, outcome, warned>>
    BY <1>1 DEF ToolPrints, desktopVars
  <2>2. printed' \in [amount : Amounts, shows : Window \cup {Gone}]
    BY <1>1 DEF ToolPrints, TypeOK
  <2>3. TypeOK'
    BY <2>1, <2>2 DEF TypeOK
  <2> QED
    BY <2>1, <2>3 DEF Quiet, CutForAReason, WarnedIsCut, StatusHonest, Tool,
      Running
<1>2. ASSUME NEW how \in Ends, ToolEnds(how)
      PROVE  EngineInv'
  <2>1. TypeOK'
    BY <1>2 DEF ToolEnds, TypeOK, desktopVars
  <2> QED
    BY <1>2, <2>1 DEF ToolEnds, Quiet, CutForAReason, WarnedIsCut,
      StatusHonest, Tool, Running, desktopVars
<1>3. CASE PipeCloses
  <2>1. /\ pipe' = FALSE
        /\ UNCHANGED <<mode, n, runner, child, printed, expired, cut, flag,
                       window, changes, before, picture, outcome, warned>>
    BY <1>3 DEF PipeCloses, desktopVars
  <2>2. TypeOK'
    <3>1. pipe' \in BOOLEAN
      BY <2>1
    <3> QED
      BY <2>1, <3>1 DEF TypeOK
  <2> QED
    BY <2>1, <2>2 DEF Quiet, CutForAReason, WarnedIsCut, StatusHonest, Tool,
      Running
<1>4. CASE Expire
  <2>1. TypeOK'
    BY <1>4 DEF Expire, TypeOK, desktopVars
  <2> QED
    BY <1>4, <2>1 DEF Expire, Quiet, CutForAReason, WarnedIsCut,
      StatusHonest, Tool, Running, desktopVars
<1>5. ASSUME NEW w \in Window \cup {Gone}, Change(w)
      PROVE  EngineInv'
  <2>1. TypeOK'
    BY <1>5, EngineAssumption DEF Change, TypeOK, toolVars
  <2> QED
    BY <1>5, <2>1 DEF Change, Quiet, CutForAReason, WarnedIsCut,
      StatusHonest, Tool, Running, toolVars
<1>6. CASE RaiseFlag
  <2>1. TypeOK'
    BY <1>6 DEF RaiseFlag, TypeOK, toolVars, desktopVars
  <2> QED
    BY <1>6, <2>1 DEF RaiseFlag, Quiet, CutForAReason, WarnedIsCut,
      StatusHonest, Tool, Running, toolVars, desktopVars
<1> QED
  BY <1>1, <1>2, <1>3, <1>4, <1>5, <1>6

LEMMA StutterKeeps ==
  ASSUME EngineInv, UNCHANGED vars
  PROVE  EngineInv'
  BY DEF EngineInv, TypeOK, Quiet, CutForAReason, WarnedIsCut, StatusHonest,
    Tool, Running, vars, toolVars, desktopVars

LEMMA NextKeepsEngineInv == EngineInv /\ [Next]_vars => EngineInv'
  BY RunnerKeeps, JudgeKeeps, WorldKeeps, StutterKeeps DEF Next, Run

THEOREM EngineInvariant == Spec => []EngineInv
<1> QED
  BY InitEngineInv, NextKeepsEngineInv, PTL DEF Spec

-----------------------------------------------------------------------------
\* Which window a capture has seen

LooksAgain == mode \in {"window", "application"}

\* The tool of this turn has printed something.
Prints ==
  /\ runner \in {"flag", "child", "clock", "collect", "judge"}
  /\ printed.amount # "nothing"

\* A window that was seen is the one on the desktop, as long as there was no
\* change; one that differs from the window seen before has come by a change,
\* and after a single change it is the one on the desktop.
CameBy(seen, earlier) ==
  seen # earlier => changes >= 1 /\ (changes = 1 => seen = window)

\* What the looks and the picture have to do with the desktop, tool by tool.
SeenInv ==
  LooksAgain /\ runner # "end" =>
    /\ n = 1 /\ Prints /\ changes = 0 => printed.shows = window
    /\ n = 2 /\ changes = 0 => before = window
    /\ n = 2 /\ Prints => CameBy(printed.shows, before)
    /\ n = 3 => CameBy(picture, before)
    /\ n = 3 /\ Prints /\ changes = 1 /\ picture # before =>
         printed.shows = picture

SightInv == EngineInv /\ SeenInv /\ MisattributionMarked

LEMMA LookingPlan ==
  ASSUME NEW m \in {"window", "application"}
  PROVE  Plan(m) = <<"look", "grim", "look">> /\ Len(Plan(m)) = 3
  BY DEF Plan

LEMMA InitSightInv == Init => SightInv
<1> SUFFICES ASSUME Init PROVE SightInv
  OBVIOUS
<1>1. EngineInv
  BY InitEngineInv
<1>2. n = 1 /\ runner = "start" /\ outcome.status = "none"
  BY DEF Init, NoOutcome
<1>3. SeenInv /\ MisattributionMarked
  BY <1>2 DEF SeenInv, Prints, MisattributionMarked
<1> QED
  BY <1>1, <1>3 DEF SightInv

\* What ends in success is what the engine completes.
LEMMA OnlyCompleteSucceeds ==
  ASSUME SightInv, [Next]_vars, ~Complete
  PROVE  MisattributionMarked'
<1> USE DEF SightInv, MisattributionMarked
<1>1. CASE outcome' = outcome
  <2>1. CASE runner # "end"
    BY <1>1, <2>1 DEF EngineInv, CutForAReason
  <2>2. CASE runner = "end"
    <3>1. ~Running
      BY <2>2 DEF EngineInv, Quiet
    <3>2. UNCHANGED <<mode, changes, picture, before>>
      BY <2>2, <3>1 DEF Next, Run, Spawn, SpawnFails, PollFlag, PollChild,
        PollClock, Collect, Fail, GoOn, Complete, ToolPrints, ToolEnds,
        PipeCloses, Expire, Change, RaiseFlag, vars, toolVars, desktopVars
    <3> QED
      BY <1>1, <3>2
  <2> QED
    BY <2>1, <2>2
<1>2. CASE SpawnFails
  BY <1>2 DEF SpawnFails, NoOutcome
<1>3. CASE Fail
  BY <1>3 DEF Fail, NoOutcome
<1> QED
  BY <1>1, <1>2, <1>3 DEF Next, Run, Spawn, PollFlag, PollChild,
    PollClock, Collect, GoOn, ToolPrints, ToolEnds,
    PipeCloses, Expire, Change, RaiseFlag, vars

\* The steps that look at nothing: what has been printed is seen, and the
\* desktop is as it was.
LEMMA BlindKeeps ==
  ASSUME SightInv,
         UNCHANGED <<mode, n, window, changes, before, picture>>,
         runner' # "end",
         Prints' => Prints /\ printed' = printed,
         runner # "end"
  PROVE  SeenInv'
  BY DEF SightInv, SeenInv, LooksAgain, CameBy, Prints

LEMMA RunnerSees ==
  ASSUME SightInv,
         \/ Spawn \/ SpawnFails
         \/ PollFlag \/ PollChild \/ PollClock \/ Collect
         \/ Fail \/ Complete
  PROVE  SeenInv'
<1>1. CASE SpawnFails \/ Fail \/ Complete
  BY <1>1 DEF SpawnFails, Fail, Complete, SeenInv
<1>2. CASE Spawn
  <2>1. ~Prints'
    BY <1>2 DEF Spawn, Prints, NoOutput
  <2>2. /\ UNCHANGED <<mode, n, window, changes, before, picture>>
        /\ runner # "end" /\ runner' # "end"
    BY <1>2 DEF Spawn, desktopVars
  <2> QED
    BY <2>1, <2>2, BlindKeeps
<1>3. CASE PollFlag \/ PollChild \/ PollClock \/ Collect
  <2>1. /\ UNCHANGED <<mode, n, window, changes, before, picture, printed>>
        /\ runner \in {"flag", "child", "clock", "collect"}
        /\ runner' # "end"
    BY <1>3 DEF PollFlag, PollChild, PollClock, Collect, Terminate, toolVars,
      desktopVars
  <2>2. Prints' => Prints
    BY <2>1 DEF Prints
  <2> QED
    BY <2>1, <2>2, BlindKeeps
<1> QED
  BY <1>1, <1>2, <1>3

\* What a tool printed becomes the first look, or the picture.
LEMMA GoOnSees ==
  ASSUME SightInv, GoOn
  PROVE  SeenInv'
<1>1. /\ runner = "judge" /\ runner' = "start" /\ n' = n + 1
      /\ UNCHANGED <<mode, window, changes>>
      /\ Keep
  BY DEF GoOn, desktopVars
<1>2. printed.amount = "whole"
  BY DEF GoOn, Status, ToolStatus
<1>3. Prints /\ ~Prints'
  BY <1>1, <1>2 DEF Prints
<1> SUFFICES ASSUME LooksAgain'
             PROVE  /\ n' = 2 /\ changes' = 0 => before' = window'
                    /\ n' = 3 => CameBy(picture, before)'
  BY <1>3 DEF SeenInv
<1>4. LooksAgain /\ n \in 1..3 /\ Plan(mode) = <<"look", "grim", "look">>
  BY <1>1, LookingPlan DEF LooksAgain, SightInv, EngineInv, TypeOK
<1>5. CASE n = 1
  <2>1. before' = printed.shows
    BY <1>1, <1>4, <1>5 DEF Keep, Tool
  <2> QED
    BY <1>1, <1>3, <1>4, <1>5, <2>1 DEF SightInv, SeenInv
<1>6. CASE n = 2
  <2>1. picture' = printed.shows /\ before' = before
    BY <1>1, <1>4, <1>6 DEF Keep, Tool
  <2> QED
    BY <1>1, <1>3, <1>4, <1>6, <2>1 DEF SightInv, SeenInv, CameBy
<1>7. CASE n = 3
  BY <1>1, <1>7
<1> QED
  BY <1>4, <1>5, <1>6, <1>7

\* A picture of another window than the first look's has come by a change; if
\* that was the only one, the last look shows that other window too.
LEMMA CompleteMarks ==
  ASSUME SightInv, Complete
  PROVE  MisattributionMarked'
<1>1. /\ runner = "judge" /\ n = Len(Plan(mode))
      /\ UNCHANGED <<mode, window, changes>>
      /\ Keep
      /\ outcome'.stale = (LooksAgain /\ printed.shows # before)
  BY DEF Complete, desktopVars, LooksAgain
<1>2. printed.amount = "whole"
  BY DEF Complete, Status, ToolStatus
<1>3. Prints
  BY <1>1, <1>2 DEF Prints
<1> SUFFICES ASSUME LooksAgain, picture' # before', ~(changes >= 2)
             PROVE  outcome'.stale
  BY <1>1 DEF MisattributionMarked, LooksAgain
<1>4. n = 3 /\ Tool = "look"
  <2>1. Plan(mode) = <<"look", "grim", "look">> /\ Len(Plan(mode)) = 3
    BY LookingPlan DEF LooksAgain
  <2>2. n = 3
    BY <1>1, <2>1
  <2> QED
    BY <2>1, <2>2 DEF Tool
<1>5. picture' = picture /\ before' = before
  BY <1>1, <1>4 DEF Keep
<1>6. changes \in Nat
  BY EngineAssumption DEF SightInv, EngineInv, TypeOK
<1>7. changes = 1 /\ printed.shows = picture
  BY <1>1, <1>3, <1>4, <1>5, <1>6 DEF SightInv, SeenInv, CameBy
<1> QED
  BY <1>1, <1>5, <1>7

\* What a tool prints shows the desktop of that moment.
LEMMA PrintSees ==
  ASSUME SightInv, NEW amount \in Amounts \ {"nothing"}, ToolPrints(amount)
  PROVE  SeenInv'
<1>1. /\ UNCHANGED <<mode, n, runner, window, changes, before, picture>>
      /\ printed'.shows = IF printed.amount = "nothing" THEN window
                          ELSE printed.shows
  BY DEF ToolPrints, desktopVars
<1>2. runner \in {"flag", "child", "clock", "collect"}
  BY DEF ToolPrints, SightInv, EngineInv, Quiet, TypeOK
<1>3. printed.amount # "nothing" => Prints
  BY <1>2 DEF Prints
<1>4. changes \in Nat
  BY EngineAssumption DEF SightInv, EngineInv, TypeOK
<1> SUFFICES ASSUME LooksAgain
             PROVE  /\ n = 1 /\ changes = 0 => printed'.shows = window
                    /\ n = 2 /\ changes = 0 => before = window
                    /\ n = 2 => CameBy(printed'.shows, before)
                    /\ n = 3 => CameBy(picture, before)
                    /\ n = 3 /\ changes = 1 /\ picture # before =>
                         printed'.shows = picture
  BY <1>1 DEF SeenInv, LooksAgain, CameBy
<1>5. CASE printed.amount = "nothing"
  BY <1>1, <1>2, <1>4, <1>5 DEF SightInv, SeenInv, CameBy
<1>6. CASE printed.amount # "nothing"
  BY <1>1, <1>2, <1>3, <1>6 DEF SightInv, SeenInv, CameBy
<1> QED
  BY <1>5, <1>6

LEMMA ChangeSees ==
  ASSUME SightInv, NEW w \in Window \cup {Gone}, Change(w)
  PROVE  SeenInv'
<1>1. /\ UNCHANGED <<mode, n, runner, printed, before, picture>>
      /\ changes' = changes + 1
      /\ runner # "end"
  BY DEF Change, toolVars
<1>2. changes \in Nat
  BY EngineAssumption DEF SightInv, EngineInv, TypeOK
<1>3. Prints' = Prints /\ LooksAgain' = LooksAgain
  BY <1>1 DEF Prints, LooksAgain
<1>4. changes' # 0 /\ (changes' = 1 => changes = 0)
  BY <1>1, <1>2
<1> QED
  BY <1>1, <1>2, <1>3, <1>4 DEF SightInv, SeenInv, CameBy

LEMMA SeenStep == SightInv /\ [Next]_vars => SightInv'
<1> SUFFICES ASSUME SightInv, [Next]_vars PROVE SightInv'
  OBVIOUS
<1>1. EngineInv'
  BY NextKeepsEngineInv DEF SightInv
<1>2. MisattributionMarked'
  BY CompleteMarks, OnlyCompleteSucceeds
<1>3. SeenInv'
  <2>1. CASE Run
    BY <2>1, RunnerSees, GoOnSees DEF Run
  <2>2. ASSUME NEW amount \in Amounts \ {"nothing"}, ToolPrints(amount)
        PROVE  SeenInv'
    BY <2>2, PrintSees
  <2>3. ASSUME NEW w \in Window \cup {Gone}, Change(w) PROVE SeenInv'
    BY <2>3, ChangeSees
  <2>4. ASSUME \/ \E how \in Ends : ToolEnds(how)
               \/ PipeCloses \/ Expire \/ RaiseFlag \/ UNCHANGED vars
        PROVE  SeenInv'
    <3>1. UNCHANGED <<mode, n, runner, printed, window, changes, before, picture>>
      BY <2>4 DEF ToolEnds, PipeCloses, Expire, RaiseFlag, vars, toolVars,
        desktopVars
    <3>2. Prints' = Prints
      BY <3>1 DEF Prints
    <3>3. CASE runner # "end"
      BY <3>1, <3>2, <3>3, BlindKeeps
    <3>4. CASE runner = "end"
      BY <3>1, <3>4 DEF SeenInv
    <3> QED
      BY <3>3, <3>4
  <2> QED
    BY <2>1, <2>2, <2>3, <2>4 DEF Next
<1> QED
  BY <1>1, <1>2, <1>3 DEF SightInv

-----------------------------------------------------------------------------

\* Every variable stays in its range, whatever the tools and the desktop do:
\* CaptureEngine::capture never runs past the last tool of its mode.
THEOREM EngineTyped == Spec => []TypeOK
<1>1. EngineInv => TypeOK
  BY DEF EngineInv
<1> QED
  BY <1>1, EngineInvariant, PTL

\* A capture whose last tool was started under a raised flag does not succeed,
\* and a timeout or cancellation is reported only with its cause.
THEOREM StatusesAreHonest == Spec => []StatusHonest
<1>1. EngineInv => StatusHonest
  BY DEF EngineInv
<1> QED
  BY <1>1, EngineInvariant, PTL

\* CaptureEngine::capture returns with its tools gone and their output read.
THEOREM ToolsAreGone == Spec => []NothingLeftRunning
<1>1. EngineInv => NothingLeftRunning
  BY DEF EngineInv, Quiet, NothingLeftRunning
<1> QED
  BY <1>1, EngineInvariant, PTL

\* CaptureEngine::capture marks the picture of a window that is not the one it
\* looked up as stale, unless the desktop changed there and back.
THEOREM MisattributionsAreMarked == Spec => []MisattributionMarked
<1>1. SightInv => MisattributionMarked
  BY DEF SightInv
<1>2. Spec => []SightInv
  BY InitSightInv, SeenStep, PTL DEF Spec
<1> QED
  BY <1>1, <1>2, PTL

============================================================================
