------------------------ MODULE ServiceClientProofs ------------------------
(***************************************************************************)
(* The runtime socket and the client's calls, for any daemons, clients,    *)
(* command lines and number of starts.  Of the socket: a daemon that has   *)
(* started alone holds the name, and whoever starts beside it cannot get   *)
(* past the probe.  Of a call: what the daemon has made of its request, by *)
(* the place the client and the daemon have reached.                       *)
(***************************************************************************)
EXTENDS ServiceClient, TLAPS

-----------------------------------------------------------------------------
\* The socket

\* Nobody else is starting while a daemon that is alone is.
StartIsAlone ==
  \A d, e \in Daemon : alone[d] /\ Starting(d) /\ Starting(e) => d = e

\* It holds the name from bind on.
ListenerIsNamed ==
  \A d \in Daemon : alone[d] /\ phase[d] = "listen" => socket = d

\* Whoever starts beside it when it is up has not got past the probe.
ProbeHolds ==
  \A d, e \in Daemon : alone[d] /\ Up(d) =>
    phase[e] \in {"down", "exists", "connect", "up"}

SocketInv ==
  SocketTypeOK /\ StartIsAlone /\ ListenerIsNamed /\ ProbeHolds /\ AloneIsReached

LEMMA SocketInitially == SocketInit => SocketInv
  BY SocketAssumption
  DEF SocketInit, SocketInv, SocketTypeOK, StartIsAlone, ListenerIsNamed,
      ProbeHolds, AloneIsReached, Up, Starting, StartPhases, NoOwner

LEMMA SocketStutters ==
  ASSUME SocketInv, UNCHANGED socketVars
  PROVE  SocketInv'
  BY DEF socketVars, SocketInv, SocketTypeOK, StartIsAlone, ListenerIsNamed,
         ProbeHolds, AloneIsReached, Up, Starting

\* The daemons take the steps of a start one by one.
LEMMA SocketSteps ==
  ASSUME SocketInv, SocketNext
  PROVE  SocketInv'
<1> USE SocketAssumption DEF SocketInv, SocketTypeOK, StartIsAlone,
        ListenerIsNamed, ProbeHolds, AloneIsReached, Up, Starting, StartPhases,
        NoOwner
<1> PICK d \in Daemon :
      \/ StartDaemon(d) \/ LookForSocket(d) \/ ProbeSocket(d)
      \/ RemoveSocket(d) \/ BindSocket(d) \/ Listen(d) \/ EndDaemon(d)
  BY DEF SocketNext
<1>1. CASE StartDaemon(d)
  <2> DEFINE others == {e \in Daemon : Starting(e)}
  <2>1. /\ phase[d] = "down" /\ starts < MaxStarts
        /\ starts' = starts + 1 /\ socket' = socket
        /\ phase' = [phase EXCEPT ![d] = "exists"]
        /\ alone' = [e \in Daemon |-> IF e = d THEN others = {}
                                      ELSE alone[e] /\ e \notin others]
    BY <1>1, Zenon DEF StartDaemon
  <2>2. /\ phase'[d] = "exists"
        /\ \A e \in Daemon \ {d} : phase'[e] = phase[e]
        /\ \A e \in Daemon \ {d} : alone'[e] => alone[e] /\ ~Starting(e)
        /\ alone'[d] => \A e \in Daemon : ~Starting(e)
    BY <2>1
  <2>3. SocketTypeOK'
    <3>1. alone' \in [Daemon -> BOOLEAN]
      BY <2>1, Zenon
    <3> QED
      BY <2>1, <3>1
  <2> QED
    BY <2>1, <2>2, <2>3
<1>2. CASE LookForSocket(d)
  BY <1>2 DEF LookForSocket, Advance
<1>3. CASE ProbeSocket(d)
  BY <1>3 DEF ProbeSocket, Advance
<1>4. CASE RemoveSocket(d)
  BY <1>4 DEF RemoveSocket, Advance
<1>5. CASE BindSocket(d)
  BY <1>5 DEF BindSocket, Advance
<1>6. CASE Listen(d)
  BY <1>6 DEF Listen, Advance
<1>7. CASE EndDaemon(d)
  BY <1>7 DEF EndDaemon
<1> QED
  BY <1>1, <1>2, <1>3, <1>4, <1>5, <1>6, <1>7

\* The steps of clients and of the threads that serve them leave it alone.
LEMMA CallsLeaveSocket ==
  ASSUME [Next]_vars
  PROVE  SocketNext \/ UNCHANGED socketVars
<1>1. CASE \E c \in Client, l \in CommandLine : RunCommand(c, l)
  BY <1>1 DEF RunCommand, DaemonsStay
<1>2. CASE \E c \in Client : ClientStep(c)
  BY <1>2 DEF ClientStep, FindSocket, Connect, ConnectFails, TakeAnswer,
              ConnectionLost, TimeOut, FallBack, GiveUp, CaptureDirectly,
              DaemonsStay
<1>3. CASE \E c \in Client : DaemonStep(c)
  BY <1>3 DEF DaemonStep, DropClient, AnswerOnly, AskAdapter, Publish,
              AnswerPublished, DropPublished, ClientsStay
<1>4. CASE SocketStep
  BY <1>4 DEF SocketStep
<1>5. CASE UNCHANGED vars
  BY <1>5 DEF vars
<1> QED
  BY <1>1, <1>2, <1>3, <1>4, <1>5 DEF Next

\* A daemon during whose start no other one started is behind the socket for
\* as long as it runs and its directory is left alone (RuntimePaths::bind).
THEOREM AloneDaemonIsReached == Spec => []AloneIsReached
<1>1. Init => SocketInv
  BY SocketInitially DEF Init
<1>2. SocketInv /\ [Next]_vars => SocketInv'
  BY SocketStutters, SocketSteps, CallsLeaveSocket
<1>3. SocketInv => AloneIsReached
  BY DEF SocketInv
<1> QED
  BY <1>1, <1>2, <1>3, PTL DEF Spec

-----------------------------------------------------------------------------
\* The calls

\* The statuses an operation may be refused with before it has an effect.
Refusals == {"missing_tool", "cancelled", "busy", "timeout", "invalid", "error"}
Statuses == Refusals \cup {"success", "unavailable"}
Outcomes == {NoOutcome} \cup [status : Statuses, stored : BOOLEAN]

CallTyped ==
  /\ line \in [Client -> CommandLine \cup {NoLine}]
  /\ cpc \in [Client -> {"idle", "socket", "connect", "waiting", "failed",
                        "direct", "done"}]
  /\ server \in [Client -> SUBSET Daemon]
  /\ job \in [Client -> {"none", "sent", "published", "answered", "closed"}]
  /\ reply \in [Client -> Outcomes]
  /\ outcome \in [Client -> Outcomes]
  /\ published \cup direct \cup adapters \cup orphaned \subseteq Client

\* Where the call is: a request has gone out only from a command line that was
\* accepted, and is with a daemon from the connection on.
Placed(c) ==
  /\ cpc[c] \in {"idle", "socket", "connect"} => job[c] = "none"
  /\ cpc[c] = "waiting" => job[c] # "none"
  /\ job[c] = "none" <=> server[c] = {}
  /\ InCall(c) \/ job[c] # "none" =>
       line[c] \in CommandLine /\ Parses(line[c]) /\ ~ConsentMissing(line[c])
  /\ c \in direct => cpc[c] = "done"

\* What the outcome o says of the evidence is true.
Truthful(c, o) ==
  /\ o.stored => c \in published
  /\ o.status = "success" /\ Changes(line[c]) => c \in published
  /\ c \in published => o.status \in {"success", "error"}

\* What the daemon has made of the request.
Served(c) ==
  /\ c \in published =>
       Changes(line[c]) /\ job[c] \in {"published", "answered", "closed"}
  /\ job[c] = "published" => c \in published
  /\ c \in adapters => job[c] # "none" /\ Discloses(line[c])
  /\ job[c] = "answered" <=> reply[c] # NoOutcome
  /\ job[c] = "answered" => Truthful(c, reply[c])

\* What the client has printed: the answer, what it captured itself, that it
\* could not reach the service, what it knows of it, or that it was misused.
Told(c) ==
  /\ cpc[c] = "done" <=> outcome[c] # NoOutcome
  /\ cpc[c] = "done" =>
       \/ job[c] = "answered" /\ outcome[c] = reply[c]
       \/ /\ ~outcome[c].stored
          /\ \/ c \in direct
             \/ outcome[c].status = "unavailable"
             \/ outcome[c].status = "success" /\ ~Changes(line[c])
             \/ outcome[c].status = "invalid" /\ job[c] = "none"

\* The socket that a request has gone through is there until the call is told
\* that it has gone; so nobody captures directly beside a daemon that may.
Traced(c) ==
  /\ InCall(c) /\ job[c] # "none" => socket # "absent" \/ c \in orphaned
  /\ cpc[c] = "direct" \/ c \in direct => job[c] = "none" \/ c \in orphaned

CallInv ==
  /\ CallTyped
  /\ \A c \in Client : Placed(c) /\ Served(c) /\ Told(c) /\ Traced(c)

\* The statuses of the codes.
LEMMA CodesOfRefusals ==
  ASSUME NEW code \in RefusalCodes
  PROVE  StatusOf(code) \in Refusals
  BY DEF RefusalCodes, ToolCodes, StatusOf, Refusals

LEMMA CodesOfTheClient ==
  /\ StatusOf("internal") = "error"
  /\ StatusOf("runtime_unavailable") = "unavailable"
  /\ StatusOf("invalid_request") = "invalid"
  BY DEF StatusOf

\* The outcomes the model uses.
LEMMA OutcomesTyped ==
  /\ \A stored \in BOOLEAN : /\ Success(stored) \in Outcomes \ {NoOutcome}
                             /\ Success(stored).status = "success"
                             /\ Success(stored).stored = stored
  /\ \A code \in RefusalCodes \cup {"runtime_unavailable"} :
       /\ Failure(code) \in Outcomes \ {NoOutcome}
       /\ Failure(code).status = StatusOf(code)
       /\ ~Failure(code).stored
<1>1. ASSUME NEW stored \in BOOLEAN
      PROVE  /\ Success(stored) \in Outcomes \ {NoOutcome}
             /\ Success(stored).status = "success"
             /\ Success(stored).stored = stored
  BY DEF Success, Outcomes, NoOutcome, Statuses
<1>2. ASSUME NEW code \in RefusalCodes \cup {"runtime_unavailable"}
      PROVE  /\ Failure(code) \in Outcomes \ {NoOutcome}
             /\ Failure(code).status = StatusOf(code)
             /\ ~Failure(code).stored
  <2>1. StatusOf(code) \in Statuses /\ StatusOf(code) # "none"
    BY CodesOfRefusals, CodesOfTheClient DEF Statuses, Refusals
  <2> QED
    BY <2>1 DEF Failure, Outcomes, NoOutcome
<1> QED
  BY <1>1, <1>2

LEMMA CallsInitially == Init => CallInv
  BY SocketAssumption
  DEF Init, CallInv, CallTyped, Placed, Served, Told, Traced, InCall, Outcomes

LEMMA CallsStutter ==
  ASSUME CallInv, UNCHANGED vars
  PROVE  CallInv'
  BY DEF vars, callVars, socketVars, CallInv, CallTyped, Placed, Served,
         Truthful, Told, Traced, InCall

-----------------------------------------------------------------------------
\* The steps of a client

LEMMA RunCommandCalls ==
  ASSUME CallInv, NEW c \in Client, NEW l \in CommandLine, RunCommand(c, l)
  PROVE  CallInv'
<1> USE DEF CallInv, CallTyped, Placed, Served, Truthful, Told, Traced, InCall
<1>1. /\ UNCHANGED <<socketVars, server, job, reply, published, direct,
                     adapters, orphaned>>
      /\ line' = [line EXCEPT ![c] = l]
      /\ cpc[c] = "idle"
  BY DEF RunCommand, Report, Step, DaemonsStay
<1>2. CASE ~Parses(l) \/ ConsentMissing(l)
  <2>1. /\ cpc' = [cpc EXCEPT ![c] = "done"]
        /\ outcome' = [outcome EXCEPT ![c] = Failure("invalid_request")]
    BY <1>2 DEF RunCommand, Report, Step
  <2>2. /\ Failure("invalid_request") \in Outcomes \ {NoOutcome}
        /\ Failure("invalid_request").status = "invalid"
        /\ ~Failure("invalid_request").stored
    BY OutcomesTyped, CodesOfTheClient DEF RefusalCodes, ToolCodes
  <2> QED
    BY <1>1, <2>1, <2>2 DEF socketVars
<1>3. CASE Parses(l) /\ ~ConsentMissing(l)
  <2>1. cpc' = [cpc EXCEPT ![c] = "socket"] /\ outcome' = outcome
    BY <1>3 DEF RunCommand, Step
  <2> QED
    BY <1>1, <1>3, <2>1 DEF socketVars
<1> QED
  BY <1>2, <1>3

LEMMA ClientSteps ==
  ASSUME CallInv, NEW c \in Client, ClientStep(c)
  PROVE  CallInv'
<1> USE SocketAssumption
    DEF CallInv, CallTyped, Placed, Served, Truthful, Told, Traced, InCall,
        Step, Report, DaemonsStay, socketVars
<1>1. CASE FindSocket(c)
  BY <1>1 DEF FindSocket
<1>2. CASE Connect(c)
  <2>1. socket # "absent"
    BY <1>2 DEF Connect, NoOwner
  <2> QED
    BY <1>2, <2>1 DEF Connect
<1>3. CASE ConnectFails(c)
  BY <1>3 DEF ConnectFails
<1>4. CASE TakeAnswer(c)
  BY <1>4 DEF TakeAnswer
<1>5. CASE ConnectionLost(c)
  BY <1>5 DEF ConnectionLost
<1>6. CASE TimeOut(c)
  BY <1>6 DEF TimeOut
<1>7. CASE FallBack(c)
  BY <1>7 DEF FallBack
<1>8. CASE GiveUp(c)
  <2> DEFINE o == IF line[c].shape = "status" THEN Success(FALSE)
                  ELSE Failure("runtime_unavailable")
  <2>1. /\ cpc[c] = "failed" /\ cpc' = [cpc EXCEPT ![c] = "done"]
        /\ outcome' = [outcome EXCEPT ![c] = o]
        /\ UNCHANGED <<line, server, job, reply, direct, published, adapters,
                       orphaned, socket>>
    BY <1>8 DEF GiveUp
  <2>2. /\ o \in Outcomes \ {NoOutcome} /\ ~o.stored
        /\ \/ o.status = "unavailable"
           \/ o.status = "success" /\ ~Changes(line[c])
    <3>1. line[c].shape = "status" => ~Changes(line[c])
      BY DEF Changes, Captures
    <3> QED
      BY <3>1, OutcomesTyped, CodesOfTheClient
  <2> HIDE DEF o
  <2> QED
    BY <2>1, <2>2
<1>9. CASE CaptureDirectly(c)
  <2>1. PICK o \in {Success(FALSE)} \cup {Failure(code) : code \in ToolCodes} :
          /\ cpc[c] = "direct" /\ cpc' = [cpc EXCEPT ![c] = "done"]
          /\ outcome' = [outcome EXCEPT ![c] = o]
          /\ direct' = direct \cup {c}
          /\ UNCHANGED <<line, server, job, reply, published, adapters,
                         orphaned, socket>>
    BY <1>9 DEF CaptureDirectly
  <2>2. o \in Outcomes \ {NoOutcome} /\ ~o.stored
    <3>1. CASE o = Success(FALSE)
      BY <3>1, OutcomesTyped
    <3>2. CASE \E code \in ToolCodes : o = Failure(code)
      BY <3>2, OutcomesTyped DEF RefusalCodes
    <3> QED
      BY <2>1, <3>1, <3>2
  <2> QED
    BY <2>1, <2>2
<1> QED
  BY <1>1, <1>2, <1>3, <1>4, <1>5, <1>6, <1>7, <1>8, <1>9 DEF ClientStep

-----------------------------------------------------------------------------
\* The steps of a daemon's thread

LEMMA DaemonSteps ==
  ASSUME CallInv, NEW c \in Client, DaemonStep(c)
  PROVE  CallInv'
<1> USE DEF CallInv, CallTyped, Placed, Served, Truthful, Told, Traced, InCall,
            Work, Answer, ClientsStay, socketVars
<1>1. CASE DropClient(c)
  BY <1>1 DEF DropClient
<1>2. CASE AnswerOnly(c)
  <2>1. PICK o \in {Failure(code) : code \in RefusalCodes}
                   \cup (IF Changes(line[c]) THEN {} ELSE {Success(FALSE)}) :
          /\ job[c] = "sent" /\ job' = [job EXCEPT ![c] = "answered"]
          /\ reply' = [reply EXCEPT ![c] = o]
    BY <1>2 DEF AnswerOnly
  <2>2. /\ o \in Outcomes \ {NoOutcome} /\ ~o.stored
        /\ o.status = "success" => ~Changes(line[c])
    <3>1. CASE \E code \in RefusalCodes : o = Failure(code)
      <4> PICK code \in RefusalCodes : o = Failure(code)
        BY <3>1
      <4> QED
        BY OutcomesTyped, CodesOfRefusals DEF Refusals
    <3>2. CASE o = Success(FALSE) /\ ~Changes(line[c])
      BY <3>2, OutcomesTyped
    <3> QED
      BY <2>1, <3>1, <3>2
  <2>3. c \notin published
    BY <2>1
  <2> QED
    BY <1>2, <2>1, <2>2, <2>3 DEF AnswerOnly
<1>3. CASE AskAdapter(c)
  BY <1>3 DEF AskAdapter
<1>4. CASE Publish(c)
  BY <1>4 DEF Publish
<1>5. CASE AnswerPublished(c)
  <2>1. PICK o \in {Success(TRUE), Failure("internal")} :
          /\ job[c] = "published" /\ job' = [job EXCEPT ![c] = "answered"]
          /\ reply' = [reply EXCEPT ![c] = o]
    BY <1>5 DEF AnswerPublished
  <2>2. o \in Outcomes \ {NoOutcome} /\ o.status \in {"success", "error"}
    BY <2>1, OutcomesTyped, CodesOfTheClient DEF RefusalCodes
  <2>3. c \in published
    BY <2>1
  <2> QED
    BY <1>5, <2>1, <2>2, <2>3 DEF AnswerPublished
<1>6. CASE DropPublished(c)
  BY <1>6 DEF DropPublished
<1> QED
  BY <1>1, <1>2, <1>3, <1>4, <1>5, <1>6 DEF DaemonStep

-----------------------------------------------------------------------------
\* The steps of daemons

LEMMA SocketStepCalls ==
  ASSUME CallInv, SocketStep
  PROVE  CallInv'
<1>1. /\ UNCHANGED <<line, cpc, server, reply, outcome, published, direct,
                     adapters>>
      /\ job' \in [Client -> {"none", "sent", "published", "answered", "closed"}]
      /\ \A c \in Client :
           job'[c] = job[c] \/ (job[c] \in {"sent", "published"} /\ job'[c] = "closed")
  BY DEF SocketStep, CallInv, CallTyped
<1>2. /\ orphaned \subseteq orphaned' /\ orphaned' \subseteq Client
      /\ \A c \in Client : InCall(c) /\ socket # "absent" /\ socket' = "absent"
                            => c \in orphaned'
  BY DEF SocketStep, CallInv, CallTyped
<1> QED
  BY <1>1, <1>2 DEF CallInv, CallTyped, Placed, Served, Truthful, Told, Traced,
                    InCall

LEMMA CallsKept ==
  ASSUME CallInv, [Next]_vars
  PROVE  CallInv'
  BY RunCommandCalls, ClientSteps, DaemonSteps, SocketStepCalls, CallsStutter
  DEF Next

-----------------------------------------------------------------------------
\* The exit status of each status.
LEMMA ExitCodes ==
  ASSUME NEW status \in Statuses
  PROVE  /\ ExitCode(status) \in 0..7
         /\ ExitCode(status) = 0 <=> status = "success"
         /\ ExitCode(status) \in {0, 1, 3} <=>
              status \in {"success", "error", "unavailable"}
  BY DEF ExitCode, Statuses, Refusals

LEMMA CallsDecisive == CallInv => AnswersDecisive
<1> SUFFICES ASSUME CallInv, NEW c \in Client, cpc[c] = "done"
             PROVE  /\ outcome[c].stored => c \in published
                    /\ ExitCode(outcome[c].status) = 0 /\ Changes(line[c])
                         /\ c \notin direct => c \in published
                    /\ c \in published \ direct =>
                         ExitCode(outcome[c].status) \in {0, 1, 3}
  BY DEF AnswersDecisive
<1>1. outcome[c].status \in Statuses
  BY DEF CallInv, CallTyped, Told, Outcomes
<1>2. /\ outcome[c].stored => c \in published
      /\ outcome[c].status = "success" /\ Changes(line[c]) /\ c \notin direct
           => c \in published
      /\ c \in published \ direct =>
           outcome[c].status \in {"success", "error", "unavailable"}
  BY DEF CallInv, Told, Served, Truthful
<1> QED
  BY <1>1, <1>2, ExitCodes

LEMMA CallsConsented == CallInv => AdapterNeedsConsent
<1> SUFFICES ASSUME CallInv, NEW c \in adapters
             PROVE  IF line[c].shape = "handoff" THEN line[c].external = 1
                    ELSE line[c].local = 1
  BY DEF AdapterNeedsConsent
<1>1. /\ line[c] \in CommandLine /\ Parses(line[c]) /\ ~ConsentMissing(line[c])
      /\ Discloses(line[c])
  BY DEF CallInv, CallTyped, Placed, Served
<1>2. /\ line[c].local \in Nat /\ line[c].external \in Nat
      /\ line[c].local + line[c].external <= 1
  BY <1>1, LineAssumption DEF Parses, ValidOptions
<1> QED
  BY <1>1, <1>2 DEF ConsentMissing, Discloses

\* The exit status can be relied upon, for any number of clients and daemons
\* that end at any step (execute, call_service, exit_code of the client).
THEOREM ExitStatusIsDecisive == Spec => []AnswersDecisive
<1> QED
  BY CallsInitially, CallsKept, CallsDecisive, PTL DEF Spec

\* A client that captures for itself is not one the daemon publishes for, but
\* for a socket that was removed during the call (capture_command).
THEOREM OneCaptureEach == Spec => []OneCapturePerCommand
<1>1. CallInv => OneCapturePerCommand
  BY DEF OneCapturePerCommand, CallInv, CallTyped, Placed, Served, Traced
<1> QED
  BY <1>1, CallsInitially, CallsKept, PTL DEF Spec

\* Nothing reaches an adapter without consent on the command line (parse_args,
\* execute).
THEOREM ConsentIsGiven == Spec => []AdapterNeedsConsent
<1> QED
  BY CallsInitially, CallsKept, CallsConsented, PTL DEF Spec

\* Type correctness of the socket and of every call.
THEOREM CallsTyped == Spec => []TypeOK
<1>1. Init => SocketInv /\ CallInv
  BY SocketInitially, CallsInitially DEF Init
<1>2. SocketInv /\ CallInv /\ [Next]_vars => (SocketInv /\ CallInv)'
  BY SocketStutters, SocketSteps, CallsLeaveSocket, CallsKept
<1>3. SocketInv /\ CallInv => TypeOK
  <2> SUFFICES ASSUME SocketInv, CallInv PROVE TypeOK
    OBVIOUS
  <2>1. ASSUME NEW c \in Client
        PROVE  /\ cpc[c] = "done" <=> outcome[c] # NoOutcome
               /\ job[c] # "none" <=> server[c] # {}
               /\ job[c] = "answered" <=> reply[c] # NoOutcome
               /\ cpc[c] = "done" => ExitCode(outcome[c].status) \in 0..7
    <3>1. cpc[c] = "done" => outcome[c].status \in Statuses
      BY DEF CallInv, CallTyped, Told, Outcomes
    <3> QED
      BY <3>1, ExitCodes DEF CallInv, Placed, Served, Told
  <2> QED
    BY <2>1 DEF TypeOK, SocketInv, CallInv, CallTyped
<1> QED
  BY <1>1, <1>2, <1>3, PTL DEF Spec

============================================================================
