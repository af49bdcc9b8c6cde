--------------------------- MODULE ServiceClient ---------------------------
(***************************************************************************)
(* The command line client: one call of the surfacecheck program from its  *)
(* arguments to its exit status, against daemons that come and go.  The    *)
(* client looks for the socket, connects, sends one request and waits up   *)
(* to 35 s.  A capture for which the service could not be called, and whose *)
(* socket is gone when it looks again, is done by the client itself.       *)
(*                                                                         *)
(* What the daemon does with the request is here only what the client can  *)
(* tell: it drops the connection, refuses, or changes the evidence and     *)
(* answers.  Module SurfaceRuntime has its steps.                          *)
(***************************************************************************)
EXTENDS RuntimeSocket

CONSTANTS
  Client,
  CommandLine,    \* what users type: [shape, json, agent, local, external,
                  \* session, note, alias]
  NoLine

ASSUME LineAssumption ==
  \A l \in CommandLine : {l.json, l.agent, l.local, l.external} \subseteq Nat

VARIABLES
  line,           \* the arguments of each call
  cpc,            \* what the client does next
  server,         \* the daemon that has its request
  job,            \* what that daemon has made of the request
  reply,          \* the answer on its way to the client
  outcome,        \* what the client prints: [status, stored]
  published,      \* the calls whose request has changed the evidence
  direct,         \* the calls that captured without the service
  adapters,       \* the calls whose request has gone to an adapter
  orphaned        \* history: the socket went away during the call

callVars == <<line, cpc, server, job, reply, outcome, published, direct,
              adapters, orphaned>>
vars == <<socketVars, callVars>>

-----------------------------------------------------------------------------
\* parse_args: which command lines are accepted

\* The arguments without options, with identifiers that are valid.
Captures == {"window", "region", "application"}
Shapes == Captures \cup {"status", "service", "review", "compare", "annotate",
                         "select", "export", "handoff", "cancel"}

\* An option that takes a value is absent, good or bad: its value is missing,
\* too long, or has characters that are not allowed.
Given(l) ==
  {o \in {"agent", "local", "external"} : l[o] > 0}
    \cup {o \in {"session", "note", "alias"} : l[o] # "absent"}

\* reject_unused
Allowed(shape) ==
  CASE shape \in {"window", "region"} -> {"session", "note"}
    [] shape = "application" -> {"session", "note", "alias"}
    [] shape = "review" -> {"session", "agent", "local"}
    [] shape = "compare" -> {"session"}
    [] shape = "annotate" -> {"note"}
    [] shape = "handoff" -> {"session", "external"}
    [] OTHER -> {}

ValidOptions(l) ==
  /\ l.agent <= 1 /\ l.local + l.external <= 1
  /\ "bad" \notin {l.session, l.note, l.alias}

Parses(l) ==
  /\ l.json = 1
  /\ ValidOptions(l)
  /\ l.shape \in Shapes
  /\ l.shape = "annotate" => l.note = "good"
  /\ Given(l) \subseteq Allowed(l.shape)

ConsentTaken(l) == FALSE

\* What execute refuses before it calls anybody.
ConsentMissing(l) ==
  \/ l.shape = "review" /\ l.agent = 1 /\ l.local = 0
  \/ l.shape = "handoff" /\ l.external = 0

\* Requests that change the evidence, and those that reach an adapter: the
\* daemon is told of no consent but by the request itself.
Changes(l) == l.shape \in Captures \cup {"review", "annotate", "select"}
Discloses(l) ==
  l.shape = "handoff" \/ (l.shape = "review" /\ l.agent = 1)

-----------------------------------------------------------------------------
\* What the client prints

\* unavailable: the status that goes with an error code.
StatusOf(code) ==
  CASE code = "missing_capture_tool" -> "missing_tool"
    [] code = "selection_cancelled" -> "cancelled"
    [] code = "operation_busy" -> "busy"
    [] code = "operation_timeout" -> "timeout"
    [] code \in {"runtime_unavailable", "adapter_unavailable",
                 "adapter_incompatible"} -> "unavailable"
    [] code \in {"invalid_request", "invalid_evidence", "not_found"} ->
         "invalid"
    [] OTHER -> "error"

ExitCode(status) ==
  CASE status = "success" -> 0
    [] status = "error" -> 1
    [] status = "invalid" -> 2
    [] status = "unavailable" -> 3
    [] status = "missing_tool" -> 4
    [] status = "cancelled" -> 5
    [] status = "busy" -> 6
    [] status = "timeout" -> 7

NoOutcome == [status |-> "none", stored |-> FALSE]
Failure(code) == [status |-> StatusOf(code), stored |-> FALSE]
Success(stored) == [status |-> "success", stored |-> stored]

\* What the tools of a capture end in, by the daemon or by the client itself.
ToolCodes == {"missing_capture_tool", "selection_cancelled",
              "operation_timeout", "invalid_request", "invalid_evidence",
              "not_found", "tool_failed"}

\* The answers a daemon gives before it has changed anything, whichever kind
\* of request it is.
RefusalCodes == ToolCodes \cup {"operation_busy", "storage_limit", "internal"}

-----------------------------------------------------------------------------
\* The client

Step(c, from, to) == cpc[c] = from /\ cpc' = [cpc EXCEPT ![c] = to]

Report(c, from, o) ==
  /\ Step(c, from, "done")
  /\ outcome' = [outcome EXCEPT ![c] = o]

DaemonsStay == UNCHANGED <<socketVars, published, adapters, orphaned>>

\* run, parse_args and the head of execute.
RunCommand(c, l) ==
  /\ line' = [line EXCEPT ![c] = l]
  /\ IF ~Parses(l) \/ ConsentMissing(l)
     THEN Report(c, "idle", Failure("invalid_request"))
     ELSE Step(c, "idle", "socket") /\ UNCHANGED outcome
  /\ UNCHANGED <<server, job, reply, direct>> /\ DaemonsStay

\* paths.socket.exists(), which for status is looked at twice.
FindSocket(c) ==
  /\ Step(c, "socket", IF socket = "absent" THEN "failed" ELSE "connect")
  /\ UNCHANGED <<line, server, job, reply, outcome, direct>>
  /\ DaemonsStay

\* A connection is made by the kernel as soon as the daemon listens.
Connect(c) ==
  /\ \E d \in Daemon :
       /\ socket = d /\ Up(d)
       /\ Step(c, "connect", "waiting")
       /\ server' = [server EXCEPT ![c] = {d}]
       /\ job' = [job EXCEPT ![c] = "sent"]
  /\ UNCHANGED <<line, reply, outcome, direct>> /\ DaemonsStay

ConnectFails(c) ==
  /\ ~ \E d \in Daemon : socket = d /\ Up(d)
  /\ Step(c, "connect", "failed")
  /\ UNCHANGED <<line, server, job, reply, outcome, direct>>
  /\ DaemonsStay

TakeAnswer(c) ==
  /\ job[c] = "answered"
  /\ Report(c, "waiting", reply[c])
  /\ UNCHANGED <<line, server, job, reply, direct>> /\ DaemonsStay

\* read_frame ends early: the daemon has closed the connection or is gone.
ConnectionLost(c) ==
  /\ job[c] = "closed"
  /\ Step(c, "waiting", "failed")
  /\ UNCHANGED <<line, server, job, reply, outcome, direct>> /\ DaemonsStay

TimeOutOnRead(c) ==
  /\ job[c] \in {"answered", "closed"}
  /\ Step(c, "waiting", "failed")
  /\ UNCHANGED <<line, server, job, reply, outcome, direct>> /\ DaemonsStay

\* 35 s have passed.  The daemon goes on: it learns of it when it answers.
TimeOut(c) ==
  /\ Step(c, "waiting", "failed")
  /\ UNCHANGED <<line, server, job, reply, outcome, direct>> /\ DaemonsStay

\* call_service has failed.  Status reports what the client knows; a capture
\* looks at the socket again; everything else is unavailable.
FallBackAlways(c) ==
  /\ Step(c, "failed", "direct")
  /\ line[c].shape \in Captures
  /\ UNCHANGED <<line, server, job, reply, outcome, direct>>
  /\ DaemonsStay

FallBack(c) ==
  /\ Step(c, "failed", "direct")
  /\ line[c].shape \in Captures
  /\ socket = "absent"
  /\ UNCHANGED <<line, server, job, reply, outcome, direct>>
  /\ DaemonsStay

GiveUpSilently(c) ==
  /\ cpc[c] = "failed"
  /\ line[c].shape \in Captures => socket # "absent"
  /\ IF line[c].shape \in Captures
     THEN Step(c, "failed", "done") /\ UNCHANGED outcome
     ELSE Report(c, "failed", Failure("runtime_unavailable"))
  /\ UNCHANGED <<line, server, job, reply, direct>> /\ DaemonsStay

GiveUp(c) ==
  /\ cpc[c] = "failed"
  /\ line[c].shape \in Captures => socket # "absent"
  /\ Report(c, "failed", IF line[c].shape = "status" THEN Success(FALSE)
                        ELSE Failure("runtime_unavailable"))
  /\ UNCHANGED <<line, server, job, reply, direct>> /\ DaemonsStay

\* The engine in the client's own process; nothing is stored.
CaptureDirectly(c) ==
  /\ direct' = direct \cup {c}
  /\ \E o \in {Success(FALSE)} \cup {Failure(code) : code \in ToolCodes} :
       Report(c, "direct", o)
  /\ UNCHANGED <<line, server, job, reply>> /\ DaemonsStay

ClientStep(c) ==
  \/ FindSocket(c) \/ Connect(c) \/ ConnectFails(c)
  \/ TakeAnswer(c) \/ ConnectionLost(c) \/ TimeOut(c)
  \/ FallBack(c) \/ GiveUp(c) \/ CaptureDirectly(c)

-----------------------------------------------------------------------------
\* The daemon, for the request of client c

Work(c, from, to) == job[c] = from /\ job' = [job EXCEPT ![c] = to]

Answer(c, from, o) ==
  /\ Work(c, from, "answered")
  /\ reply' = [reply EXCEPT ![c] = o]

ClientsStay ==
  UNCHANGED <<socketVars, line, cpc, server, outcome, direct, orphaned>>

\* A client over the limit is dropped.
DropClient(c) ==
  /\ Work(c, "sent", "closed")
  /\ UNCHANGED <<reply, published, adapters>> /\ ClientsStay

\* An answer without an effect: a refusal, or one that only reads.
AnswerOnly(c) ==
  /\ job[c] = "sent"
  /\ \E o \in {Failure(code) : code \in RefusalCodes}
             \cup (IF Changes(line[c]) THEN {} ELSE {Success(FALSE)}) :
       Answer(c, "sent", o)
  /\ UNCHANGED <<published, adapters>> /\ ClientsStay

\* The agent or the Premonition adapter gets what the request is about.
AskAdapter(c) ==
  /\ job[c] = "sent"
  /\ Discloses(line[c])
  /\ adapters' = adapters \cup {c}
  /\ UNCHANGED <<job, reply, published>> /\ ClientsStay

\* The manifest is replaced, with a client that waits or without.
Publish(c) ==
  /\ Work(c, "sent", "published")
  /\ Changes(line[c])
  /\ published' = published \cup {c}
  /\ UNCHANGED <<reply, adapters>> /\ ClientsStay

AnswerPublishedCancelled(c) ==
  /\ \E o \in {Success(TRUE), Failure("selection_cancelled")} :
       Answer(c, "published", o)
  /\ UNCHANGED <<published, adapters>> /\ ClientsStay

\* The journal line after it may fail, and write_frame may.
AnswerPublished(c) ==
  /\ \E o \in {Success(TRUE), Failure("internal")} : Answer(c, "published", o)
  /\ UNCHANGED <<published, adapters>> /\ ClientsStay

DropPublished(c) ==
  /\ Work(c, "published", "closed")
  /\ UNCHANGED <<reply, published, adapters>> /\ ClientsStay

DaemonStep(c) ==
  \/ DropClient(c) \/ AnswerOnly(c) \/ AskAdapter(c) \/ Publish(c)
  \/ AnswerPublished(c) \/ DropPublished(c)

-----------------------------------------------------------------------------
\* Daemons start and end

InCall(c) == cpc[c] \notin {"idle", "done"}

\* The connections of a daemon that ends are closed; an answer that has been
\* written can still be read.  A thread whose client has gone ends as well.
SocketStep ==
  /\ SocketNext
  /\ job' = [c \in Client |->
       IF job[c] \in {"sent", "published"} /\ \E d \in server[c] : ~Up(d)'
       THEN "closed" ELSE job[c]]
  /\ orphaned' = IF socket # "absent" /\ socket' = "absent"
                 THEN orphaned \cup {c \in Client : InCall(c)} ELSE orphaned
  /\ UNCHANGED <<line, cpc, server, reply, outcome, published, direct,
                 adapters>>

Init ==
  /\ SocketInit
  /\ line = [c \in Client |-> NoLine]
  /\ cpc = [c \in Client |-> "idle"]
  /\ server = [c \in Client |-> {}]
  /\ job = [c \in Client |-> "none"]
  /\ reply = [c \in Client |-> NoOutcome]
  /\ outcome = [c \in Client |-> NoOutcome]
  /\ published = {} /\ direct = {} /\ adapters = {} /\ orphaned = {}

Next ==
  \/ \E c \in Client, l \in CommandLine : RunCommand(c, l)
  \/ \E c \in Client : ClientStep(c) \/ DaemonStep(c)
  \/ SocketStep

Spec == Init /\ [][Next]_vars

\* Nothing is assumed of any daemon.  The client's own steps do not wait for
\* anybody: connect is answered by the kernel, its socket has timeouts, and
\* so have the tools it runs itself.
Fairness == \A c \in Client : WF_vars(ClientStep(c))

FairSpec == Spec /\ Fairness

-----------------------------------------------------------------------------
\* Properties

\* Every variable stays in its range; a call has printed something exactly
\* when it is over, and a request is with a daemon exactly when there is one.
TypeOK ==
  /\ SocketTypeOK
  /\ line \in [Client -> CommandLine \cup {NoLine}]
  /\ cpc \in [Client -> {"idle", "socket", "connect", "waiting", "failed",
                        "direct", "done"}]
  /\ server \in [Client -> SUBSET Daemon]
  /\ job \in [Client -> {"none", "sent", "published", "answered", "closed"}]
  /\ \A c \in Client :
       /\ cpc[c] = "done" <=> outcome[c] # NoOutcome
       /\ job[c] # "none" <=> server[c] # {}
       /\ job[c] = "answered" <=> reply[c] # NoOutcome
       /\ cpc[c] = "done" => ExitCode(outcome[c].status) \in 0..7
  /\ published \cup direct \cup adapters \cup orphaned \subseteq Client

\* The exit status can be relied upon: a capture said to be stored is, success
\* of an operation that changes the evidence means that it has, and after any
\* status but those that leave it open (1, error; 3, unavailable) an operation
\* that did not succeed has changed nothing and never will.
AnswersDecisive ==
  \A c \in Client : cpc[c] = "done" =>
    /\ outcome[c].stored => c \in published
    /\ ExitCode(outcome[c].status) = 0 /\ Changes(line[c]) /\ c \notin direct =>
         c \in published
    /\ c \in published \ direct => ExitCode(outcome[c].status) \in {0, 1, 3}

\* One command is one capture: the client captures for itself only if the
\* daemon will never publish for it, unless the socket file was removed while
\* the command ran.
OneCapturePerCommand == published \cap direct \subseteq orphaned

\* Nothing reaches an agent or Premonition without the flag that says so on
\* the command line, although it is the client alone that looks at it.
AdapterNeedsConsent ==
  \A c \in adapters :
    IF line[c].shape = "handoff" THEN line[c].external = 1 ELSE line[c].local = 1

\* Every command ends, whatever becomes of the daemon.
EveryCommandEnds == \A c \in Client : InCall(c) ~> cpc[c] = "done"

============================================================================
