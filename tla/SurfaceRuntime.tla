-------------------------- MODULE SurfaceRuntime --------------------------
(***************************************************************************)
(* The daemon surfacecheckd: the accept loop with its count of clients, a  *)
(* thread per client, and the handlers of RuntimeService, step by step, on *)
(* one session.  A thread is preempted between any two steps; another      *)
(* client's cancel, an unlocked reader, or the end of the daemon may come  *)
(* in between.                                                             *)
(*                                                                         *)
(* The steps of a handler are its accesses to what threads share: the      *)
(* flight (module SingleFlight), the manifest and the capture files.  What *)
(* the store does inside one of them is module EvidenceStore.              *)
(***************************************************************************)
EXTENDS SingleFlight, EvidenceSession

CONSTANTS
  Request,        \* what clients ask: [id, kind, arg]
  NoRequest,
  NoImage,
  MaxClients,     \* MAX_CLIENTS
  MaxRequests     \* bound: the requests let in

Kinds == {"capture", "review", "annotate", "select", "export", "handoff",
          "handoff_defect", "compare", "status", "cancel"}

\* A request carries the note, the capture (0: the latest) or the pair it is
\* about; a cancel finds its target among the leases that were seen.
ValidRequest(r) ==
  /\ r.id \in OpId /\ r.kind \in Kinds
  /\ r.kind = "capture" => r.arg \in Note
  /\ r.kind = "annotate" => r.arg \in Note \ {NoNote}
  /\ r.kind \in {"review", "handoff"} => r.arg \in Nat
  /\ r.kind = "select" => r.arg[1] # r.arg[2]

ASSUME RuntimeAssumption ==
  /\ \A r \in Request : ValidRequest(r)
  /\ NoNote \in Note /\ MaxCaptures \in Nat
  /\ MaxClients \in Nat
  /\ MaxRequests \in Nat
  /\ MaxRequests <= MaxLeases

VARIABLES
  clients,        \* the counter of the accept loop
  admitted,       \* how many requests it has let in
  pc,             \* what each thread does next
  req,            \* the request it handles
  snap,           \* the manifest it has read
  shot,           \* the image its engine returned
  answer,         \* the status it will reply
  files,          \* the capture files, by place and image
  exported,       \* the manifest in the export archive
  early,          \* history: the captures cancelled while the engine ran
  wrote           \* history: whether the thread has changed the manifest

threadVars == <<pc, req, snap, shot, answer, wrote>>
storeVars == <<evidence, files, exported>>
vars == <<flightVars, threadVars, storeVars, clients, admitted, early>>

Steps == {"free", "dispatch", "resolve", "begin", "engine", "check", "read",
          "agent", "store", "write", "archive", "adapter", "look", "finish",
          "reply"}

\* What a reply says: "refused" stands for every status given before anything
\* is changed, "error" for a failure of a tool, of the disk or of an adapter.
Answers == {"none", "success", "busy", "cancelled", "refused", "error"}

-----------------------------------------------------------------------------
\* Threads

Goto(w, step) == pc' = [pc EXCEPT ![w] = step]

\* A handler returns with status a, and gives back the lease if it has one.
Return(w, a) ==
  /\ answer' = [answer EXCEPT ![w] = a]
  /\ Goto(w, IF lease[w] = {} THEN "reply" ELSE "finish")

\* The handlers that begin an operation before they do anything else.  A
\* handoff of a finding begins one after it has read the evidence, a handoff
\* that brings its defect along reads none, and compare begins none.
LeasedKindsButAnnotate ==
  {"capture", "review", "select", "export", "handoff_defect"}
LeasedKindsButExport ==
  {"capture", "review", "annotate", "select", "handoff_defect"}
LeasedKinds ==
  {"capture", "review", "annotate", "select", "export", "handoff_defect"}

FirstStep(kind) ==
  CASE kind \in LeasedKinds -> "begin"
    [] kind = "handoff" -> "resolve"
    [] kind \in {"status", "cancel"} -> "dispatch"
    [] OTHER -> "read"

StepAfterBegin(kind) ==
  CASE kind = "capture" -> "engine"
    [] kind \in {"handoff", "handoff_defect"} -> "adapter"
    [] OTHER -> "read"

IsCancelled(w) == \E l \in lease[w] : l.serial \in cancelled

-----------------------------------------------------------------------------
\* run_foreground

\* A client over the limit is dropped, which changes nothing.
Admit(w, r) ==
  /\ pc[w] = "free"
  /\ r.kind = "cancel" => seen # {}
  /\ clients < MaxClients
  /\ admitted < MaxRequests
  /\ clients' = clients + 1
  /\ admitted' = admitted + 1
  /\ req' = [req EXCEPT ![w] = r]
  /\ Goto(w, FirstStep(r.kind))
  /\ UNCHANGED <<flightVars, snap, shot, answer, wrote, storeVars, early>>

\* No frame, a frame or a payload that is not valid, a peer of another user.
\* Three handlers parse the payload after they have begun the operation.
Reject(w) ==
  /\ pc[w] \in {"dispatch", "resolve", "begin", "read"}
  /\ \/ pc[w] = FirstStep(req[w].kind)
     \/ pc[w] = "read" /\ req[w].kind \in {"annotate", "select", "export"}
  /\ Return(w, "refused")
  /\ UNCHANGED <<flightVars, req, snap, shot, wrote, storeVars, clients,
                 admitted, early>>

\* write_frame, whatever comes of it, and the end of the thread.
ReplyUncounted(w) ==
  /\ pc[w] = "reply"
  /\ Goto(w, "free")
  /\ req' = [req EXCEPT ![w] = NoRequest]
  /\ snap' = [snap EXCEPT ![w] = NoEvidence]
  /\ shot' = [shot EXCEPT ![w] = NoImage]
  /\ answer' = [answer EXCEPT ![w] = "none"]
  /\ wrote' = [wrote EXCEPT ![w] = FALSE]
  /\ clients' = IF answer[w] = "success" THEN clients - 1 ELSE clients
  /\ UNCHANGED <<flightVars, storeVars, admitted, early>>

Reply(w) ==
  /\ pc[w] = "reply"
  /\ Goto(w, "free")
  /\ req' = [req EXCEPT ![w] = NoRequest]
  /\ snap' = [snap EXCEPT ![w] = NoEvidence]
  /\ shot' = [shot EXCEPT ![w] = NoImage]
  /\ answer' = [answer EXCEPT ![w] = "none"]
  /\ wrote' = [wrote EXCEPT ![w] = FALSE]
  /\ clients' = clients - 1
  /\ UNCHANGED <<flightVars, storeVars, admitted, early>>

-----------------------------------------------------------------------------
\* status and cancel

ReportStatus(w) ==
  /\ pc[w] = "dispatch" /\ req[w].kind = "status"
  /\ Observe
  /\ Return(w, "success")
  /\ UNCHANGED <<req, snap, shot, wrote, storeVars, clients, admitted, early>>

CancelOperation(w, target) ==
  /\ pc[w] = "dispatch" /\ req[w].kind = "cancel"
  /\ Cancel(target)
  /\ early' = early \cup
       {l.serial : l \in {l \in active : SameLease(l, target) /\
          \E v \in Worker : lease[v] = {l} /\ pc[v] = "engine"}}
  /\ Return(w, "success")
  /\ UNCHANGED <<req, snap, shot, wrote, storeVars, clients, admitted>>

-----------------------------------------------------------------------------
\* The lease around a handler

BeginOperation(w) ==
  /\ pc[w] = "begin"
  /\ Begin(w, req[w].id)
  /\ Goto(w, StepAfterBegin(req[w].kind))
  /\ UNCHANGED <<req, snap, shot, answer, wrote, storeVars, clients, admitted,
                 early>>

AnswerBusy(w) ==
  /\ pc[w] = "begin"
  /\ ~FlightFree
  /\ Return(w, "busy")
  /\ UNCHANGED <<flightVars, req, snap, shot, wrote, storeVars, clients,
                 admitted, early>>

FinishIfSuccessful(w) ==
  /\ pc[w] = "finish"
  /\ IF answer[w] = "success" THEN Finish(w) ELSE UNCHANGED flightVars
  /\ Goto(w, "reply")
  /\ UNCHANGED <<req, snap, shot, answer, wrote, storeVars, clients, admitted,
                 early>>

FinishOperation(w) ==
  /\ pc[w] = "finish"
  /\ Finish(w)
  /\ Goto(w, "reply")
  /\ UNCHANGED <<req, snap, shot, answer, wrote, storeVars, clients, admitted,
                 early>>

-----------------------------------------------------------------------------
\* capture

\* The engine returns an image, or a failure, or that the selection was
\* cancelled, which the user can do without the daemon.  It polls the flag
\* while a tool runs, so that one raised at the end of the last goes unseen.
EngineUntilCancelled(w) ==
  /\ pc[w] = "engine"
  /\ IsCancelled(w)
  /\ Return(w, "cancelled")
  /\ UNCHANGED <<flightVars, req, snap, shot, wrote, storeVars, clients,
                 admitted, early>>

Engine(w) ==
  /\ pc[w] = "engine"
  /\ \/ /\ \E image \in Image : shot' = [shot EXCEPT ![w] = image]
        /\ Goto(w, "check")
        /\ UNCHANGED answer
     \/ /\ \E a \in {"cancelled", "error"} : Return(w, a)
        /\ UNCHANGED shot
  /\ UNCHANGED <<flightVars, req, snap, wrote, storeVars, clients, admitted,
                 early>>

CheckNothing(w) ==
  /\ pc[w] = "check"
  /\ Goto(w, "read")
  /\ UNCHANGED <<flightVars, req, snap, shot, answer, wrote, storeVars, clients,
                 admitted, early>>

\* `Ok(_) if lease.is_cancelled()`: the last look at the flag.
CheckCancelled(w) ==
  /\ pc[w] = "check"
  /\ IF IsCancelled(w)
     THEN Return(w, "cancelled")
     ELSE Goto(w, "read") /\ UNCHANGED answer
  /\ UNCHANGED <<flightVars, req, snap, shot, wrote, storeVars, clients,
                 admitted, early>>

\* The image goes to its place before the manifest names it; a file of that
\* name, left by a capture that failed, is not replaced.
StoreImageAtLast(w) ==
  LET file == <<Len(snap[w].captures), shot[w]>>
  IN /\ pc[w] = "store"
     /\ files' = files \cup {file}
     /\ Goto(w, "write")
     /\ UNCHANGED <<flightVars, req, snap, shot, answer, wrote, evidence,
                    exported, clients, admitted, early>>

StoreImage(w) ==
  LET file == <<Len(snap[w].captures) + 1, shot[w]>>
  IN /\ pc[w] = "store"
     /\ IF file \in files
        THEN Return(w, "error") /\ UNCHANGED files
        ELSE /\ files' = files \cup {file}
             /\ \/ Goto(w, "write") /\ UNCHANGED answer
                \/ Return(w, "error")
     /\ UNCHANGED <<flightVars, req, snap, shot, wrote, evidence, exported,
                    clients, admitted, early>>

-----------------------------------------------------------------------------
\* What the handlers do with the manifest

CaptureFitsAlmost(m) == Len(m.captures) <= MaxCaptures
CaptureFits(m) == Len(m.captures) < MaxCaptures

\* The capture a review or a handoff is about.
Subject(r, m) == IF r.arg = 0 THEN Len(m.captures) ELSE r.arg

\* What the request asks for is in the manifest: NotFound otherwise.
Admissible(r, m) ==
  CASE r.kind = "capture" -> CaptureFits(m)
    [] r.kind = "review" -> Subject(r, m) \in DOMAIN m.captures
    [] r.kind \in {"select", "compare"} ->
         {r.arg[1], r.arg[2]} \subseteq DOMAIN m.captures
    [] r.kind = "handoff" -> Subject(r, m) \in m.found
    [] r.kind \in {"annotate", "export"} -> m # NoEvidence

StepAfterRead(kind) ==
  CASE kind = "capture" -> "store"
    [] kind = "review" -> "agent"
    [] kind = "export" -> "archive"
    [] kind = "compare" -> "look"
    [] OTHER -> "write"

\* read_manifest; NotFound, Quota or InvalidEvidence if it is not admissible.
ReadManifest(w) ==
  /\ pc[w] = "read"
  /\ snap' = [snap EXCEPT ![w] = evidence]
  /\ IF Admissible(req[w], evidence)
     THEN Goto(w, StepAfterRead(req[w].kind)) /\ UNCHANGED answer
     ELSE Return(w, "refused")
  /\ UNCHANGED <<flightVars, req, shot, wrote, storeVars, clients, admitted,
                 early>>

\* The agent's findings are dropped if the flag is up before or after the
\* call; the review goes on without them.
AskAgent(w) ==
  /\ pc[w] = "agent"
  /\ \E agreed \in IF IsCancelled(w) THEN {FALSE} ELSE BOOLEAN :
       snap' = [snap EXCEPT ![w] = WithReview(@, Subject(req[w], @), agreed)]
  /\ Goto(w, "write")
  /\ UNCHANGED <<flightVars, req, shot, answer, wrote, storeVars, clients,
                 admitted, early>>

\* The manifest the handler has made of the one it read.
Revised(w) ==
  LET r == req[w] IN
  CASE r.kind = "capture" -> WithCapture(snap[w], shot[w], r.arg)
    [] r.kind = "review" -> snap[w]
    [] r.kind = "annotate" -> WithNote(snap[w], r.arg)
    [] r.kind = "select" -> WithPair(snap[w], r.arg[1], r.arg[2])

WriteThenCheck(w) ==
  /\ pc[w] = "write"
  /\ evidence' = Revised(w)
  /\ wrote' = [wrote EXCEPT ![w] = TRUE]
  /\ Return(w, IF IsCancelled(w) THEN "cancelled" ELSE "success")
  /\ UNCHANGED <<flightVars, req, snap, shot, files, exported, clients,
                 admitted, early>>

\* The manifest is replaced; the journal line after it may still fail.
WriteManifest(w) ==
  /\ pc[w] = "write"
  /\ evidence' = Revised(w)
  /\ wrote' = [wrote EXCEPT ![w] = TRUE]
  /\ \E a \in {"success", "error"} : Return(w, a)
  /\ UNCHANGED <<flightVars, req, snap, shot, files, exported, clients,
                 admitted, early>>

\* The store refuses, or an I/O error ends the handler, before a change.
StoreFails(w) ==
  /\ pc[w] \in {"read", "store", "write", "archive", "look"}
  /\ Return(w, "error")
  /\ UNCHANGED <<flightVars, req, snap, shot, wrote, storeVars, clients,
                 admitted, early>>

\* export_to_file, of the manifest it has read with the files it lists.
WriteArchive(w) ==
  /\ pc[w] = "archive"
  /\ exported' = snap[w]
  /\ Return(w, "success")
  /\ UNCHANGED <<flightVars, req, snap, shot, wrote, evidence, files, clients,
                 admitted, early>>

\* compare reads the images of the manifest it has read, with no lease.
Compare(w) ==
  /\ pc[w] = "look"
  /\ Return(w, "success")
  /\ UNCHANGED <<flightVars, req, snap, shot, wrote, storeVars, clients,
                 admitted, early>>

-----------------------------------------------------------------------------
\* handoff

\* The evidence is read before the operation begins.
ResolveHandoff(w) ==
  /\ pc[w] = "resolve"
  /\ snap' = [snap EXCEPT ![w] = evidence]
  /\ IF Admissible(req[w], evidence)
     THEN Goto(w, "begin") /\ UNCHANGED answer
     ELSE Return(w, "refused")
  /\ UNCHANGED <<flightVars, req, shot, wrote, storeVars, clients, admitted,
                 early>>

\* The adapter's answer is dropped if the flag is up when it arrives.
HandOff(w) ==
  /\ pc[w] = "adapter"
  /\ \E a \in IF IsCancelled(w) THEN {"cancelled", "error"}
              ELSE {"success", "error"} : Return(w, a)
  /\ UNCHANGED <<flightVars, req, snap, shot, wrote, storeVars, clients,
                 admitted, early>>

-----------------------------------------------------------------------------

\* The daemon ends; what is on the disk stays.
Crash ==
  /\ Restart
  /\ clients' = 0
  /\ pc' = [w \in Worker |-> "free"]
  /\ req' = [w \in Worker |-> NoRequest]
  /\ snap' = [w \in Worker |-> NoEvidence]
  /\ shot' = [w \in Worker |-> NoImage]
  /\ answer' = [w \in Worker |-> "none"]
  /\ wrote' = [w \in Worker |-> FALSE]
  /\ UNCHANGED <<storeVars, admitted, early>>

Init ==
  /\ FlightInit /\ SessionInit
  /\ clients = 0 /\ admitted = 0
  /\ pc = [w \in Worker |-> "free"]
  /\ req = [w \in Worker |-> NoRequest]
  /\ snap = [w \in Worker |-> NoEvidence]
  /\ shot = [w \in Worker |-> NoImage]
  /\ answer = [w \in Worker |-> "none"]
  /\ wrote = [w \in Worker |-> FALSE]
  /\ files = {} /\ exported = NoEvidence /\ early = {}

\* A thread goes on with its handler.
Step(w) ==
  \/ Reject(w) \/ Reply(w)
  \/ ReportStatus(w) \/ \E target \in seen : CancelOperation(w, target)
  \/ BeginOperation(w) \/ AnswerBusy(w) \/ FinishOperation(w)
  \/ Engine(w) \/ CheckCancelled(w) \/ StoreImage(w)
  \/ ReadManifest(w) \/ AskAgent(w) \/ WriteManifest(w) \/ StoreFails(w)
  \/ WriteArchive(w) \/ Compare(w)
  \/ ResolveHandoff(w) \/ HandOff(w)

Next ==
  \/ \E w \in Worker, r \in Request : Admit(w, r)
  \/ \E w \in Worker : Step(w)
  \/ Crash

Spec == Init /\ [][Next]_vars

\* The scheduler runs every thread, and no step waits for ever: sockets and
\* tools have timeouts, and begin never blocks.
Fairness == \A w \in Worker : WF_vars(Step(w))

FairSpec == Spec /\ Fairness

-----------------------------------------------------------------------------
\* Properties

\* Every variable stays in its range; no more captures are listed than
\* max_captures.
TypeOK ==
  /\ FlightTypeOK
  /\ evidence \in Evidence /\ Len(evidence.captures) <= MaxCaptures
  /\ exported \in Evidence
  /\ clients \in 0..MaxClients
  /\ admitted \in 0..MaxRequests
  /\ pc \in [Worker -> Steps]
  /\ req \in [Worker -> Request \cup {NoRequest}]
  /\ snap \in [Worker -> Evidence]
  /\ shot \in [Worker -> Image \cup {NoImage}]
  /\ answer \in [Worker -> Answers]
  /\ wrote \in [Worker -> BOOLEAN]
  /\ files \subseteq Index \X Image
  /\ early \subseteq cancelled

\* The counter the accept loop admits by is the number of threads there are:
\* no path through a handler loses a slot, and no two threads use one.
ClientsCounted == clients = Cardinality({w \in Worker : pc[w] # "free"})

\* The handlers, which read the manifest, compute for a while and write back
\* all of it, never lose one another's updates: each write is one operation
\* applied to the manifest that is there.
ImplementsSession == SessionSpec

\* What a thread read it can rely on while it computes, with a lease or
\* without: the captures are still listed, and their files are there.
EvidenceStays ==
  \A w \in Worker : \A i \in DOMAIN snap[w].captures :
    /\ i \in DOMAIN evidence.captures
    /\ evidence.captures[i] = snap[w].captures[i]
    /\ <<i, snap[w].captures[i]>> \in files

\* A client is told the truth: a capture answered with success is listed with
\* its image, at its place, for as long as the client is told so, and an
\* operation answered as cancelled or busy has left the manifest alone.
AnswersHonest ==
  \A w \in Worker :
    /\ answer[w] = "success" /\ req[w].kind = "capture" =>
         LET place == Len(snap[w].captures) + 1
         IN /\ place \in DOMAIN evidence.captures
            /\ evidence.captures[place] = shot[w]
    /\ answer[w] \in {"cancelled", "busy"} => ~wrote[w]

\* A capture that is cancelled while its tools run stores nothing, neither a
\* file nor an entry, even when its image was complete.
EarlyCancelHonoured ==
  \A w \in Worker : \A l \in lease[w] :
    l.serial \in early => pc[w] \in {"engine", "check", "finish"} /\ ~wrote[w]

\* What export writes is the manifest of that moment: no archive is out of
\* date before it is complete.
ExportsCurrent == [][exported' # exported => exported' = evidence']_vars

\* Whatever handlers run into, and whoever cancels, the daemon is free for an
\* operation again and again.
FlightFreed == []<>FlightFree

\* Every client that is let in gets its answer, and its slot is given back.
EveryRequestAnswered ==
  \A w \in Worker : pc[w] # "free" ~> pc[w] = "free"

\* What the development log says of cancellation: no image is published after
\* its operation has been cancelled.
NeverPublishesCancelled ==
  [][\A l \in active :
       evidence'.captures # evidence.captures => l.serial \notin cancelled]_vars

============================================================================
