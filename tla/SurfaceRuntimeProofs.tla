----------------------- MODULE SurfaceRuntimeProofs -----------------------
(***************************************************************************)
(* The daemon for any number of threads, client slots, requests, captures  *)
(* and restarts.  The steps of the flight are those of SingleFlight, so    *)
(* that at most one thread has a lease; what such a thread has read stays  *)
(* what is there, since nobody else writes; and what the others have read  *)
(* stays in it, since captures are only added.                             *)
(***************************************************************************)
EXTENDS SurfaceRuntime, SingleFlightProofs, FiniteSetTheorems

-----------------------------------------------------------------------------
\* The invariant

\* Where a thread is: it has a lease, and the kind of its request, as its
\* place demands.
Leased == {"engine", "check", "store", "agent", "write", "archive", "adapter",
           "finish"}
Unleased == {"free", "dispatch", "resolve", "begin", "look", "reply"}
Writers == {"capture", "review", "annotate", "select"}

Placed(w) ==
  /\ pc[w] \in Leased => lease[w] # {}
  /\ pc[w] \in Unleased => lease[w] = {}
  /\ pc[w] # "free" => req[w] \in Request
  /\ pc[w] = "begin" => req[w].kind \in LeasedKinds \cup {"handoff"}
  /\ pc[w] = "read" =>
       /\ req[w].kind \in Writers \cup {"export", "compare"}
       /\ lease[w] = {} <=> req[w].kind = "compare"
  /\ pc[w] \in {"engine", "check", "store"} => req[w].kind = "capture"
  /\ pc[w] = "agent" => req[w].kind = "review"
  /\ pc[w] = "archive" => req[w].kind = "export"
  /\ pc[w] = "look" => req[w].kind = "compare"
  /\ pc[w] = "adapter" => req[w].kind \in {"handoff", "handoff_defect"}
  /\ pc[w] = "resolve" => req[w].kind = "handoff"
  /\ pc[w] = "write" => req[w].kind \in Writers
  /\ answer[w] # "none" <=> pc[w] \in {"finish", "reply"}
  /\ wrote[w] => answer[w] # "none"

\* What a thread with a lease has read is the manifest that is there, until it
\* writes, but for what the agent said of the capture.
Current(w) ==
  /\ pc[w] \in {"store", "agent", "archive"} => snap[w] = evidence
  /\ pc[w] = "write" =>
       IF req[w].kind = "review"
       THEN \E agreed \in BOOLEAN :
              snap[w] = WithReview(evidence, Subject(req[w], evidence), agreed)
       ELSE snap[w] = evidence
  /\ pc[w] \in {"store", "agent", "write"} => Admissible(req[w], evidence)

\* The image of a capture, and its file, are there before it is listed.
Shot(w) ==
  /\ pc[w] \in {"check", "read", "store", "write"} /\ req[w].kind = "capture" =>
       shot[w] \in Image
  /\ pc[w] = "write" /\ req[w].kind = "capture" =>
       <<Len(evidence.captures) + 1, shot[w]>> \in files

\* The clauses of EvidenceStays, AnswersHonest and EarlyCancelHonoured.
Steady(w) ==
  \A i \in DOMAIN snap[w].captures :
    /\ i \in DOMAIN evidence.captures
    /\ evidence.captures[i] = snap[w].captures[i]
    /\ <<i, snap[w].captures[i]>> \in files

Honest(w) ==
  /\ answer[w] = "success" /\ req[w].kind = "capture" =>
       LET place == Len(snap[w].captures) + 1
       IN /\ place \in DOMAIN evidence.captures
          /\ evidence.captures[place] = shot[w]
  /\ answer[w] \in {"cancelled", "busy"} => ~wrote[w]

Obeyed(w) ==
  \A l \in lease[w] :
    l.serial \in early => pc[w] \in {"engine", "check", "finish"} /\ ~wrote[w]

Thread(w) ==
  Placed(w) /\ Current(w) /\ Shot(w) /\ Steady(w) /\ Honest(w) /\ Obeyed(w)

\* Every capture that is listed has its file.
Backed ==
  \A i \in DOMAIN evidence.captures : <<i, evidence.captures[i]>> \in files

Busy == {w \in Worker : pc[w] # "free"}

ThreadsTyped ==
  /\ pc \in [Worker -> Steps]
  /\ req \in [Worker -> Request \cup {NoRequest}]
  /\ snap \in [Worker -> Evidence]
  /\ shot \in [Worker -> Image \cup {NoImage}]
  /\ answer \in [Worker -> Answers]
  /\ wrote \in [Worker -> BOOLEAN]

StoreTyped ==
  /\ evidence \in Evidence /\ Len(evidence.captures) <= MaxCaptures
  /\ exported \in Evidence
  /\ files \subseteq Index \X Image

CountsTyped ==
  /\ admitted \in 0..MaxRequests
  /\ clients \in 0..MaxClients
  /\ IsFiniteSet(Busy) /\ clients = Cardinality(Busy)

RuntimeInv ==
  /\ ThreadsTyped /\ StoreTyped /\ CountsTyped /\ early \subseteq cancelled
  /\ Backed
  /\ \A w \in Worker : Thread(w)

DaemonInv == FlightInv /\ RuntimeInv

-----------------------------------------------------------------------------
\* Manifests

LEMMA NoEvidenceTyped ==
  /\ NoEvidence \in Evidence
  /\ NoEvidence.captures = <<>>
  /\ DOMAIN NoEvidence.captures = {}
<1>1. <<>> \in Seq(Image)
  OBVIOUS
<1> QED
  BY <1>1, RuntimeAssumption DEF NoEvidence, Evidence

LEMMA WithCaptureTyped ==
  ASSUME NEW m \in Evidence, NEW image \in Image, NEW note \in Note
  PROVE  /\ WithCapture(m, image, note) \in Evidence
         /\ WithCapture(m, image, note).captures = Append(m.captures, image)
<1>1. m.captures \in Seq(Image) /\ m.note \in Note
  BY DEF Evidence
<1>2. Append(m.captures, image) \in Seq(Image)
  BY <1>1
<1> QED
  BY <1>1, <1>2 DEF WithCapture, Evidence

LEMMA WithReviewTyped ==
  ASSUME NEW m \in Evidence, NEW i \in Index, NEW agreed \in BOOLEAN
  PROVE  /\ WithReview(m, i, agreed) \in Evidence
         /\ WithReview(m, i, agreed).captures = m.captures
  BY DEF WithReview, Evidence

LEMMA WithNoteTyped ==
  ASSUME NEW m \in Evidence, NEW note \in Note
  PROVE  /\ WithNote(m, note) \in Evidence
         /\ WithNote(m, note).captures = m.captures
  BY DEF WithNote, Evidence

LEMMA WithPairTyped ==
  ASSUME NEW m \in Evidence, NEW i \in Index, NEW j \in Index, i # j
  PROVE  /\ WithPair(m, i, j) \in Evidence
         /\ WithPair(m, i, j).captures = m.captures
<1>1. <<i, j>> \in Pair
  BY DEF Pair
<1> QED
  BY <1>1 DEF WithPair, Evidence

\* The captures that are listed have places.
LEMMA PlacesAreIndices ==
  ASSUME StoreTyped
  PROVE  /\ evidence.captures \in Seq(Image)
         /\ DOMAIN evidence.captures \subseteq Index
         /\ Len(evidence.captures) \in Nat
  BY RuntimeAssumption DEF StoreTyped, Evidence, Index

-----------------------------------------------------------------------------
\* The flight

\* Every step of the daemon is a step of the flight, or leaves it alone.
LEMMA FlightMoves ==
  ASSUME RuntimeInv, [Next]_vars
  PROVE  [FlightNext]_flightVars
<1>1. ASSUME NEW w \in Worker, NEW r \in Request, Admit(w, r)
      PROVE  UNCHANGED flightVars
  BY <1>1 DEF Admit
<1>2. ASSUME NEW w \in Worker, Step(w)
      PROVE  [FlightNext]_flightVars
  <2>1. CASE ReportStatus(w)
    BY <2>1 DEF ReportStatus, FlightNext
  <2>2. ASSUME NEW target \in seen, CancelOperation(w, target)
        PROVE  FlightNext
    BY <2>2 DEF CancelOperation, FlightNext
  <2>3. CASE BeginOperation(w)
    <3>1. Begin(w, req[w].id) /\ pc[w] = "begin"
      BY <2>3 DEF BeginOperation
    <3>2. req[w].id \in OpId
      BY <3>1, RuntimeAssumption DEF RuntimeInv, Thread, Placed, ValidRequest
    <3> QED
      BY <3>1, <3>2 DEF FlightNext
  <2>4. CASE FinishOperation(w)
    BY <2>4 DEF FinishOperation, FlightNext
  <2>5. CASE \/ Reject(w) \/ Reply(w) \/ AnswerBusy(w) \/ Engine(w)
             \/ CheckCancelled(w) \/ StoreImage(w) \/ ReadManifest(w)
             \/ AskAgent(w) \/ WriteManifest(w) \/ StoreFails(w)
             \/ WriteArchive(w) \/ Compare(w) \/ ResolveHandoff(w) \/ HandOff(w)
    BY <2>5 DEF Reject, Reply, AnswerBusy, Engine, CheckCancelled, StoreImage,
                ReadManifest, AskAgent, WriteManifest, StoreFails, WriteArchive,
                Compare, ResolveHandoff, HandOff
  <2> QED
    BY <1>2, <2>1, <2>2, <2>3, <2>4, <2>5 DEF Step
<1>3. CASE Crash
  BY <1>3 DEF Crash, FlightNext
<1>4. CASE UNCHANGED vars
  BY <1>4 DEF vars
<1> QED
  BY <1>1, <1>2, <1>3, <1>4 DEF Next
-----------------------------------------------------------------------------
\* One thread moves

\* The other threads keep what is theirs.
OnlyThread(w) ==
  \A v \in Worker \ {w} :
    /\ pc'[v] = pc[v] /\ req'[v] = req[v] /\ snap'[v] = snap[v]
    /\ shot'[v] = shot[v] /\ answer'[v] = answer[v] /\ wrote'[v] = wrote[v]
    /\ lease'[v] = lease[v]

\* Nothing that is listed goes.
Grows ==
  \A i \in DOMAIN evidence.captures :
    /\ i \in DOMAIN evidence'.captures
    /\ evidence'.captures[i] = evidence.captures[i]

\* What the others rely on stays: only a thread with a lease writes, and none
\* but a capture whose engine runs is cancelled early.
LEMMA OthersStay ==
  ASSUME DaemonInv, NEW w \in Worker, OnlyThread(w),
         evidence' = evidence \/ (Grows /\ lease[w] # {}),
         files \subseteq files',
         \A v \in Worker \ {w} : \A l \in lease[v] :
           l.serial \in early' => l.serial \in early \/ pc[v] = "engine"
  PROVE  \A v \in Worker \ {w} : Thread(v)'
<1> SUFFICES ASSUME NEW v \in Worker \ {w} PROVE Thread(v)'
  OBVIOUS
<1>1. /\ pc'[v] = pc[v] /\ req'[v] = req[v] /\ snap'[v] = snap[v]
      /\ shot'[v] = shot[v] /\ answer'[v] = answer[v] /\ wrote'[v] = wrote[v]
      /\ lease'[v] = lease[v]
  BY DEF OnlyThread
<1>2. Thread(v)
  BY DEF DaemonInv, RuntimeInv
<1>3. Placed(v)'
  BY <1>1, <1>2 DEF Thread, Placed
<1>4. Current(v)' /\ Shot(v)'
  <2>1. CASE evidence' = evidence
    BY <1>1, <1>2, <2>1 DEF Thread, Current, Shot
  <2>2. CASE lease[w] # {}
    <3>1. lease[v] = {}
      BY <2>2 DEF DaemonInv, FlightInv, OneFlight
    <3>2. pc[v] \notin Leased
      BY <1>2, <3>1 DEF Thread, Placed
    <3> QED
      BY <1>1, <1>2, <3>2 DEF Thread, Current, Shot, Leased
  <2> QED
    BY <2>1, <2>2
<1>5. Steady(v)'
  BY <1>1, <1>2 DEF Thread, Steady, Grows
<1>6. Honest(v)'
  BY <1>1, <1>2 DEF Thread, Honest, Grows
<1>7. Obeyed(v)'
  <2>1. pc[v] = "engine" => ~wrote[v]
    BY <1>2 DEF Thread, Placed
  <2> QED
    BY <1>1, <1>2, <2>1 DEF Thread, Obeyed
<1> QED
  BY <1>3, <1>4, <1>5, <1>6, <1>7 DEF Thread

\* A step of a handler between its first and its last.
Inside(w) ==
  /\ OnlyThread(w)
  /\ pc[w] # "free" /\ pc'[w] # "free"
  /\ UNCHANGED <<clients, admitted>>

LEMMA InsideCounts ==
  ASSUME CountsTyped, NEW w \in Worker, Inside(w)
  PROVE  CountsTyped'
<1>1. Busy' = Busy
  BY DEF Busy, Inside, OnlyThread
<1> QED
  BY <1>1 DEF CountsTyped, Inside

\* A step that leaves the store alone.
Quiet(w) == Inside(w) /\ UNCHANGED <<storeVars, early>>

LEMMA QuietStep ==
  ASSUME DaemonInv, NEW w \in Worker, Quiet(w), cancelled \subseteq cancelled',
         ThreadsTyped', Thread(w)'
  PROVE  RuntimeInv'
<1>1. UNCHANGED <<evidence, files, exported, early>>
  BY DEF Quiet, storeVars
<1>2. CountsTyped'
  BY InsideCounts DEF Quiet, DaemonInv, RuntimeInv
<1>3. \A v \in Worker \ {w} : Thread(v)'
  <2>1. OnlyThread(w)
    BY DEF Quiet, Inside
  <2> QED
    BY <1>1, <2>1, OthersStay
<1>4. StoreTyped' /\ Backed'
  BY <1>1 DEF DaemonInv, RuntimeInv, StoreTyped, Backed
<1>5. (early \subseteq cancelled)'
  BY <1>1 DEF DaemonInv, RuntimeInv
<1> QED
  BY <1>2, <1>3, <1>4, <1>5 DEF RuntimeInv

\* What holds of a thread, as far as one step needs it.
LEMMA ThreadTyped ==
  ASSUME DaemonInv, NEW w \in Worker
  PROVE  /\ Thread(w) /\ ThreadsTyped
         /\ pc \in [Worker -> Steps]
         /\ lease \in [Worker -> SUBSET Lease]
  BY DEF DaemonInv, RuntimeInv, ThreadsTyped, FlightInv, FlightTypeOK

\* A handler that returns without having written.
LEMMA ReturnKeeps ==
  ASSUME DaemonInv, NEW w \in Worker, NEW a \in Answers \ {"none"},
         Return(w, a),
         pc[w] \notin {"free", "finish", "reply"},
         a = "success" => pc[w] # "engine" /\ req[w].kind # "capture",
         UNCHANGED <<lease, req, snap, shot, wrote, storeVars, clients, admitted,
                     early>>,
         cancelled \subseteq cancelled'
  PROVE  RuntimeInv'
<1>1. /\ answer' = [answer EXCEPT ![w] = a]
      /\ pc' = [pc EXCEPT ![w] = IF lease[w] = {} THEN "reply" ELSE "finish"]
  BY DEF Return, Goto
<1>2. Thread(w) /\ ThreadsTyped
  BY ThreadTyped
<1>3. /\ answer'[w] = a
      /\ pc'[w] = IF lease[w] = {} THEN "reply" ELSE "finish"
      /\ \A v \in Worker \ {w} : answer'[v] = answer[v] /\ pc'[v] = pc[v]
  BY <1>1, <1>2 DEF ThreadsTyped
<1>4. ThreadsTyped'
  <2>1. pc' \in [Worker -> Steps] /\ answer' \in [Worker -> Answers]
    BY <1>1, <1>2 DEF ThreadsTyped, Steps
  <2> QED
    BY <1>2, <2>1 DEF ThreadsTyped
<1>5. Quiet(w)
  BY <1>3 DEF Quiet, Inside, OnlyThread
<1>6. UNCHANGED <<evidence, files, early>>
  BY DEF storeVars
<1>7. ~wrote[w]
  BY <1>2 DEF Thread, Placed
<1>8. Thread(w)'
  <2>1. Placed(w)'
    BY <1>2, <1>3, <1>7 DEF Thread, Placed, Leased, Unleased
  <2>2. Current(w)' /\ Shot(w)'
    BY <1>3 DEF Current, Shot
  <2>3. Steady(w)' /\ Honest(w)'
    BY <1>2, <1>3, <1>6, <1>7 DEF Thread, Steady, Honest
  <2>4. Obeyed(w)'
    BY <1>2, <1>3, <1>6, <1>7 DEF Thread, Obeyed
  <2> QED
    BY <2>1, <2>2, <2>3, <2>4 DEF Thread
<1> QED
  BY <1>4, <1>5, <1>8, QuietStep

-----------------------------------------------------------------------------
\* The steps that only return

LEMMA ReturningSteps ==
  ASSUME DaemonInv, NEW w \in Worker,
         \/ Reject(w) \/ ReportStatus(w) \/ AnswerBusy(w) \/ StoreFails(w)
         \/ Compare(w) \/ HandOff(w)
  PROVE  RuntimeInv'
<1> {"success", "busy", "cancelled", "refused", "error"}
      \subseteq Answers \ {"none"}
  BY DEF Answers
<1> Thread(w)
  BY ThreadTyped
<1>1. CASE Reject(w)
  BY <1>1, ReturnKeeps DEF Reject, flightVars
<1>2. CASE ReportStatus(w)
  BY <1>2, ReturnKeeps DEF ReportStatus, Observe
<1>3. CASE AnswerBusy(w)
  BY <1>3, ReturnKeeps DEF AnswerBusy, flightVars
<1>4. CASE StoreFails(w)
  BY <1>4, ReturnKeeps DEF StoreFails, flightVars
<1>5. CASE Compare(w)
  <2>1. req[w].kind = "compare"
    BY <1>5 DEF Compare, Thread, Placed
  <2> QED
    BY <1>5, <2>1, ReturnKeeps DEF Compare, flightVars
<1>6. CASE HandOff(w)
  <2>1. req[w].kind # "capture"
    BY <1>6 DEF HandOff, Thread, Placed
  <2>2. PICK a \in {"cancelled", "error", "success"} : Return(w, a)
    BY <1>6 DEF HandOff
  <2> QED
    BY <1>6, <2>1, <2>2, ReturnKeeps DEF HandOff, flightVars
<1> QED
  BY <1>1, <1>2, <1>3, <1>4, <1>5, <1>6

-----------------------------------------------------------------------------
\* The steps that go on

\* What changes in a step that leaves the store and the flight alone.
LEMMA EngineKeeps ==
  ASSUME DaemonInv, NEW w \in Worker, Engine(w)
  PROVE  RuntimeInv'
<1>1. /\ Thread(w) /\ ThreadsTyped
      /\ pc[w] = "engine"
      /\ UNCHANGED <<flightVars, req, snap, wrote, storeVars, clients, admitted,
                     early>>
  BY ThreadTyped DEF Engine
<1>2. CASE \E a \in {"cancelled", "error"} : Return(w, a) /\ UNCHANGED shot
  BY <1>1, <1>2, ReturnKeeps DEF Answers, flightVars
<1>3. ASSUME NEW image \in Image, shot' = [shot EXCEPT ![w] = image],
             Goto(w, "check"), UNCHANGED answer
      PROVE  RuntimeInv'
  <2>1. /\ shot'[w] = image /\ pc'[w] = "check"
        /\ \A v \in Worker \ {w} : shot'[v] = shot[v] /\ pc'[v] = pc[v]
        /\ ThreadsTyped'
    BY <1>1, <1>3 DEF Goto, ThreadsTyped, Steps
  <2>2. Quiet(w)
    BY <1>1, <1>3, <2>1 DEF Quiet, Inside, OnlyThread, flightVars
  <2>3. Thread(w)'
    BY <1>1, <1>3, <2>1
    DEF Thread, Placed, Current, Shot, Steady, Honest, Obeyed, Leased, Unleased,
        flightVars, storeVars
  <2> QED
    BY <1>1, <2>1, <2>2, <2>3, QuietStep DEF flightVars
<1> QED
  BY <1>2, <1>3 DEF Engine

LEMMA CheckKeeps ==
  ASSUME DaemonInv, NEW w \in Worker, CheckCancelled(w)
  PROVE  RuntimeInv'
<1>1. /\ Thread(w) /\ ThreadsTyped
      /\ pc[w] = "check"
      /\ UNCHANGED <<flightVars, req, snap, shot, wrote, storeVars, clients,
                     admitted, early>>
  BY ThreadTyped DEF CheckCancelled
<1>2. CASE IsCancelled(w)
  BY <1>1, <1>2, ReturnKeeps DEF CheckCancelled, Answers, flightVars
<1>3. CASE ~IsCancelled(w)
  <2>1. /\ pc' = [pc EXCEPT ![w] = "read"] /\ answer' = answer
    BY <1>3 DEF CheckCancelled, Goto
  <2>2. /\ pc'[w] = "read"
        /\ \A v \in Worker \ {w} : pc'[v] = pc[v]
        /\ ThreadsTyped'
    BY <1>1, <2>1 DEF ThreadsTyped, Steps
  <2>3. Quiet(w)
    BY <1>1, <2>1, <2>2 DEF Quiet, Inside, OnlyThread, flightVars
  <2>4. \A l \in lease[w] : l.serial \notin early
    BY <1>3 DEF IsCancelled, DaemonInv, RuntimeInv
  <2>5. Thread(w)'
    BY <1>1, <2>1, <2>2, <2>4
    DEF Thread, Placed, Current, Shot, Steady, Honest, Obeyed, Leased, Unleased,
        Writers, flightVars, storeVars
  <2> QED
    BY <1>1, <2>2, <2>3, <2>5, QuietStep DEF flightVars
<1> QED
  BY <1>2, <1>3

\* What the place says of a request.
LEMMA RequestOfThread ==
  ASSUME DaemonInv, NEW w \in Worker, pc[w] # "free"
  PROVE  req[w] \in Request /\ ValidRequest(req[w])
  BY RuntimeAssumption DEF DaemonInv, RuntimeInv, Thread, Placed

LEMMA EvidenceReads ==
  ASSUME DaemonInv
  PROVE  /\ evidence \in Evidence
         /\ \A i \in DOMAIN evidence.captures :
              <<i, evidence.captures[i]>> \in files
  BY DEF DaemonInv, RuntimeInv, StoreTyped, Backed

LEMMA ReadKeeps ==
  ASSUME DaemonInv, NEW w \in Worker, ReadManifest(w)
  PROVE  RuntimeInv'
<1>1. /\ Thread(w) /\ ThreadsTyped
      /\ pc[w] = "read"
      /\ snap' = [snap EXCEPT ![w] = evidence]
      /\ UNCHANGED <<flightVars, req, shot, wrote, storeVars, clients, admitted,
                     early>>
  BY ThreadTyped DEF ReadManifest
<1>2. /\ snap'[w] = evidence
      /\ \A v \in Worker \ {w} : snap'[v] = snap[v]
      /\ snap' \in [Worker -> Evidence]
  BY <1>1, EvidenceReads DEF ThreadsTyped
<1>3. \E step \in {"store", "agent", "archive", "look", "write", "finish",
                   "reply"} :
        pc' = [pc EXCEPT ![w] = step]
  BY DEF ReadManifest, Return, Goto, StepAfterRead
<1>4. /\ \A v \in Worker \ {w} : pc'[v] = pc[v]
      /\ pc'[w] \in {"store", "agent", "archive", "look", "write", "finish",
                     "reply"}
      /\ pc' \in [Worker -> Steps]
  BY <1>1, <1>3 DEF ThreadsTyped, Steps
<1>5. /\ \A v \in Worker \ {w} : answer'[v] = answer[v]
      /\ answer' \in [Worker -> Answers]
      /\ IF Admissible(req[w], evidence)
         THEN pc'[w] = StepAfterRead(req[w].kind) /\ answer'[w] = answer[w]
         ELSE /\ pc'[w] = IF lease[w] = {} THEN "reply" ELSE "finish"
              /\ answer'[w] = "refused"
  BY <1>1 DEF ReadManifest, Return, Goto, ThreadsTyped, Answers
<1>6. ThreadsTyped'
  BY <1>1, <1>2, <1>4, <1>5 DEF ThreadsTyped
<1>7. Quiet(w)
  BY <1>1, <1>2, <1>4, <1>5 DEF Quiet, Inside, OnlyThread, flightVars
<1>8. answer[w] = "none" /\ ~wrote[w]
  BY <1>1 DEF Thread, Placed
<1>9. UNCHANGED <<lease, evidence, files, cancelled>>
  BY <1>1 DEF flightVars, storeVars
<1>10. Placed(w)'
  BY <1>1, <1>5, <1>8, <1>9
  DEF Thread, Placed, Leased, Unleased, Writers, StepAfterRead
<1>11. Current(w)'
  BY <1>1, <1>2, <1>5, <1>9
  DEF Thread, Placed, Current, Writers, StepAfterRead
<1>12. Shot(w)'
  BY <1>1, <1>5, <1>9 DEF Thread, Placed, Shot, Writers, StepAfterRead
<1>13. Steady(w)'
  BY <1>2, <1>9, EvidenceReads DEF Steady
<1>14. Honest(w)' /\ Obeyed(w)'
  BY <1>1, <1>5, <1>8, <1>9 DEF Thread, Honest, Obeyed
<1> QED
  BY <1>6, <1>7, <1>9, <1>10, <1>11, <1>12, <1>13, <1>14, QuietStep DEF Thread

LEMMA ResolveKeeps ==
  ASSUME DaemonInv, NEW w \in Worker, ResolveHandoff(w)
  PROVE  RuntimeInv'
<1>1. /\ Thread(w) /\ ThreadsTyped
      /\ pc[w] = "resolve"
      /\ snap' = [snap EXCEPT ![w] = evidence]
      /\ UNCHANGED <<flightVars, req, shot, wrote, storeVars, clients, admitted,
                     early>>
  BY ThreadTyped DEF ResolveHandoff
<1>2. lease[w] = {} /\ req[w].kind = "handoff" /\ ~wrote[w]
  BY <1>1 DEF Thread, Placed, Unleased
<1>3. /\ snap'[w] = evidence
      /\ \A v \in Worker \ {w} : snap'[v] = snap[v]
      /\ snap' \in [Worker -> Evidence]
  BY <1>1, EvidenceReads DEF ThreadsTyped
<1>4. /\ \A v \in Worker \ {w} : pc'[v] = pc[v] /\ answer'[v] = answer[v]
      /\ pc' \in [Worker -> Steps] /\ answer' \in [Worker -> Answers]
      /\ \/ pc'[w] = "begin" /\ answer'[w] = answer[w]
         \/ pc'[w] = "reply" /\ answer'[w] = "refused"
  BY <1>1, <1>2 DEF ResolveHandoff, Return, Goto, ThreadsTyped, Steps, Answers
<1>5. ThreadsTyped'
  BY <1>1, <1>3, <1>4 DEF ThreadsTyped
<1>6. Quiet(w)
  BY <1>1, <1>3, <1>4 DEF Quiet, Inside, OnlyThread, flightVars
<1>7. UNCHANGED <<lease, evidence, files, cancelled>>
  BY <1>1 DEF flightVars, storeVars
<1>8. Placed(w)' /\ Current(w)' /\ Shot(w)'
  BY <1>1, <1>2, <1>4, <1>7
  DEF Thread, Placed, Current, Shot, Leased, Unleased
<1>9. Steady(w)'
  BY <1>3, <1>7, EvidenceReads DEF Steady
<1>10. Honest(w)' /\ Obeyed(w)'
  BY <1>1, <1>2, <1>4, <1>7 DEF Thread, Placed, Honest, Obeyed
<1> QED
  BY <1>5, <1>6, <1>7, <1>8, <1>9, <1>10, QuietStep DEF Thread

\* The capture a review is about has a place.
LEMMA SubjectIsListed ==
  ASSUME DaemonInv, NEW r, r.kind = "review", Admissible(r, evidence)
  PROVE  /\ Subject(r, evidence) \in DOMAIN evidence.captures
         /\ Subject(r, evidence) \in Index
  BY PlacesAreIndices DEF Admissible, DaemonInv, RuntimeInv

LEMMA AskKeeps ==
  ASSUME DaemonInv, NEW w \in Worker, AskAgent(w)
  PROVE  RuntimeInv'
<1>1. /\ Thread(w) /\ ThreadsTyped
      /\ pc[w] = "agent"
      /\ pc' = [pc EXCEPT ![w] = "write"]
      /\ UNCHANGED <<flightVars, req, shot, answer, wrote, storeVars, clients,
                     admitted, early>>
  BY ThreadTyped DEF AskAgent, Goto
<1>2. /\ snap[w] = evidence /\ req[w].kind = "review"
      /\ Admissible(req[w], evidence)
  BY <1>1 DEF Thread, Placed, Current
<1>3. PICK agreed \in BOOLEAN :
        snap' = [snap EXCEPT ![w] = WithReview(@, Subject(req[w], @), agreed)]
  BY DEF AskAgent
<1> DEFINE m == WithReview(evidence, Subject(req[w], evidence), agreed)
<1>4. m \in Evidence /\ m.captures = evidence.captures
  BY <1>2, SubjectIsListed, EvidenceReads, WithReviewTyped
<1>5. /\ snap'[w] = m
      /\ \A v \in Worker \ {w} : snap'[v] = snap[v] /\ pc'[v] = pc[v]
      /\ pc'[w] = "write"
      /\ snap' \in [Worker -> Evidence] /\ pc' \in [Worker -> Steps]
  BY <1>1, <1>2, <1>3, <1>4 DEF ThreadsTyped, Steps
<1>6. UNCHANGED <<lease, evidence, files, cancelled>>
  BY <1>1 DEF flightVars, storeVars
<1>7. Current(w)'
  BY <1>1, <1>2, <1>5, <1>6 DEF Current
<1> HIDE DEF m
<1>8. ThreadsTyped' /\ Quiet(w)
  BY <1>1, <1>5, <1>6 DEF ThreadsTyped, Quiet, Inside, OnlyThread
<1>9. Placed(w)' /\ Shot(w)'
  BY <1>1, <1>2, <1>5, <1>6
  DEF Thread, Placed, Shot, Leased, Unleased, Writers
<1>10. Steady(w)'
  BY <1>4, <1>5, <1>6, EvidenceReads DEF Steady
<1>11. Honest(w)' /\ Obeyed(w)'
  BY <1>1, <1>2, <1>5, <1>6 DEF Thread, Placed, Honest, Obeyed
<1> QED
  BY <1>6, <1>7, <1>8, <1>9, <1>10, <1>11, QuietStep DEF Thread

-----------------------------------------------------------------------------
\* The flight is taken, given back and cancelled

LEMMA BeginOperationKeeps ==
  ASSUME DaemonInv, NEW w \in Worker, BeginOperation(w)
  PROVE  RuntimeInv'
<1>1. /\ Thread(w) /\ ThreadsTyped
      /\ pc[w] = "begin"
      /\ pc' = [pc EXCEPT ![w] = StepAfterBegin(req[w].kind)]
      /\ Begin(w, req[w].id)
      /\ UNCHANGED <<req, snap, shot, answer, wrote, storeVars, clients,
                     admitted, early>>
  BY ThreadTyped DEF BeginOperation, Goto
<1> DEFINE fresh == FreshLease(req[w].id)
<1>2. /\ lease' = [lease EXCEPT ![w] = {fresh}]
      /\ cancelled' = cancelled /\ fresh.serial = begun + 1
  BY <1>1 DEF Begin, FreshLease
<1> HIDE DEF fresh
<1>3. /\ req[w] \in Request
      /\ req[w].kind \in LeasedKinds \cup {"handoff"}
      /\ answer[w] = "none" /\ ~wrote[w]
  BY <1>1 DEF Thread, Placed
<1>4. fresh.serial \notin early
  <2>1. begun + 1 \notin cancelled
    BY FlightAssumption DEF DaemonInv, FlightInv, FlightTypeOK
  <2> QED
    BY <1>2, <2>1 DEF DaemonInv, RuntimeInv
<1>5. /\ pc'[w] = StepAfterBegin(req[w].kind) /\ lease'[w] = {fresh}
      /\ \A v \in Worker \ {w} : pc'[v] = pc[v] /\ lease'[v] = lease[v]
      /\ pc' \in [Worker -> Steps]
  BY <1>1, <1>2, ThreadTyped DEF ThreadsTyped, StepAfterBegin, Steps
<1>6. UNCHANGED <<evidence, files>>
  BY <1>1 DEF storeVars
<1>7. ThreadsTyped' /\ Quiet(w)
  BY <1>1, <1>5
  DEF ThreadsTyped, Quiet, Inside, OnlyThread, StepAfterBegin
<1>8. Placed(w)'
  BY <1>1, <1>3, <1>5
  DEF Placed, Leased, Unleased, Writers, LeasedKinds, StepAfterBegin
<1>9. Current(w)' /\ Shot(w)'
  BY <1>1, <1>3, <1>5 DEF Current, Shot, StepAfterBegin
<1>10. Steady(w)' /\ Honest(w)' /\ Obeyed(w)'
  BY <1>1, <1>3, <1>4, <1>5, <1>6 DEF Thread, Steady, Honest, Obeyed
<1> QED
  BY <1>2, <1>7, <1>8, <1>9, <1>10, QuietStep DEF Thread

LEMMA FinishOperationKeeps ==
  ASSUME DaemonInv, NEW w \in Worker, FinishOperation(w)
  PROVE  RuntimeInv'
<1>1. /\ Thread(w) /\ ThreadsTyped
      /\ pc[w] = "finish"
      /\ pc' = [pc EXCEPT ![w] = "reply"]
      /\ lease' = [lease EXCEPT ![w] = {}] /\ cancelled' = cancelled
      /\ UNCHANGED <<req, snap, shot, answer, wrote, storeVars, clients,
                     admitted, early>>
  BY ThreadTyped DEF FinishOperation, Finish, Goto
<1>2. /\ pc'[w] = "reply" /\ lease'[w] = {}
      /\ \A v \in Worker \ {w} : pc'[v] = pc[v] /\ lease'[v] = lease[v]
      /\ pc' \in [Worker -> Steps]
  BY <1>1, ThreadTyped DEF ThreadsTyped, Steps
<1>3. UNCHANGED <<evidence, files>>
  BY <1>1 DEF storeVars
<1>4. ThreadsTyped' /\ Quiet(w)
  BY <1>1, <1>2 DEF ThreadsTyped, Quiet, Inside, OnlyThread
<1>5. Thread(w)'
  BY <1>1, <1>2, <1>3
  DEF Thread, Placed, Current, Shot, Steady, Honest, Obeyed, Leased, Unleased
<1> QED
  BY <1>1, <1>4, <1>5, QuietStep

\* A flag that is raised early is that of the thread whose engine runs.
LEMMA CancelOperationKeeps ==
  ASSUME DaemonInv, NEW w \in Worker, NEW target \in seen,
         CancelOperation(w, target)
  PROVE  RuntimeInv'
<1> DEFINE hit == {l \in active : SameLease(l, target)}
           struck == {l \in active : SameLease(l, target) /\
                        \E v \in Worker : lease[v] = {l} /\ pc[v] = "engine"}
<1>1. /\ Thread(w) /\ ThreadsTyped
      /\ pc[w] = "dispatch" /\ req[w].kind = "cancel"
      /\ cancelled' = cancelled \cup {l.serial : l \in hit}
      /\ early' = early \cup {l.serial : l \in struck}
      /\ Return(w, "success")
      /\ UNCHANGED <<lease, req, snap, shot, wrote, storeVars, clients, admitted>>
  BY ThreadTyped DEF CancelOperation, Cancel
<1>2. lease[w] = {} /\ ~wrote[w]
  BY <1>1 DEF Thread, Placed, Unleased
<1>3. /\ pc'[w] = "reply" /\ answer'[w] = "success"
      /\ \A v \in Worker \ {w} : pc'[v] = pc[v] /\ answer'[v] = answer[v]
      /\ pc' \in [Worker -> Steps] /\ answer' \in [Worker -> Answers]
  BY <1>1, <1>2 DEF Return, Goto, ThreadsTyped, Steps, Answers
<1>4. UNCHANGED <<evidence, files, exported>>
  BY <1>1 DEF storeVars
<1>5. early' \subseteq cancelled'
  <2>1. struck \subseteq hit
    OBVIOUS
  <2>2. early \subseteq cancelled
    BY DEF DaemonInv, RuntimeInv
  <2> QED
    BY <1>1, <2>1, <2>2
<1>6. ASSUME NEW v \in Worker, NEW l \in lease[v], l.serial \in early'
      PROVE  l.serial \in early \/ pc[v] = "engine"
  <2>1. OneFlight
    BY DEF DaemonInv, FlightInv
  <2>2. ASSUME NEW k \in struck PROVE pc[v] = "engine"
    <3>1. PICK u \in Worker : lease[u] = {k} /\ pc[u] = "engine"
      BY <2>2
    <3>2. u = v
      BY <2>1, <3>1 DEF OneFlight
    <3> QED
      BY <3>1, <3>2
  <2> QED
    BY <1>1, <1>6, <2>2
<1>7. OnlyThread(w)
  BY <1>1, <1>3 DEF OnlyThread
<1>8. \A v \in Worker \ {w} : Thread(v)'
  BY <1>4, <1>6, <1>7, OthersStay
<1>9. Thread(w)'
  BY <1>1, <1>2, <1>3, <1>4
  DEF Thread, Placed, Current, Shot, Steady, Honest, Obeyed, Leased, Unleased
<1>10. CountsTyped'
  BY <1>1, <1>3, <1>7, InsideCounts DEF Inside, DaemonInv, RuntimeInv
<1>11. ThreadsTyped' /\ StoreTyped' /\ Backed'
  BY <1>1, <1>3, <1>4
  DEF ThreadsTyped, StoreTyped, Backed, DaemonInv, RuntimeInv
<1> QED
  BY <1>5, <1>8, <1>9, <1>10, <1>11 DEF RuntimeInv

-----------------------------------------------------------------------------
\* The steps that change the store

\* A step of a thread that has a lease, in which the store grows.
LEMMA StoringStep ==
  ASSUME DaemonInv, NEW w \in Worker, Inside(w), Grows,
         lease[w] # {}, files \subseteq files',
         UNCHANGED <<early, cancelled>>,
         ThreadsTyped', StoreTyped', Backed', Thread(w)'
  PROVE  RuntimeInv'
<1>1. CountsTyped'
  BY InsideCounts DEF DaemonInv, RuntimeInv
<1>2. \A v \in Worker \ {w} : Thread(v)'
  BY OthersStay DEF Inside
<1>3. (early \subseteq cancelled)'
  BY DEF DaemonInv, RuntimeInv
<1> QED
  BY <1>1, <1>2, <1>3 DEF RuntimeInv

LEMMA StoreImageKeeps ==
  ASSUME DaemonInv, NEW w \in Worker, StoreImage(w)
  PROVE  RuntimeInv'
<1> DEFINE file == <<Len(snap[w].captures) + 1, shot[w]>>
<1>1. /\ Thread(w) /\ ThreadsTyped
      /\ pc[w] = "store"
      /\ UNCHANGED <<flightVars, req, snap, shot, wrote, evidence, exported,
                     clients, admitted, early>>
      /\ \/ Return(w, "error") /\ files' = files
         \/ Return(w, "error") /\ files' = files \cup {file}
         \/ Goto(w, "write") /\ answer' = answer /\ files' = files \cup {file}
  BY ThreadTyped DEF StoreImage
<1>2. /\ snap[w] = evidence /\ req[w].kind = "capture"
      /\ shot[w] \in Image /\ lease[w] # {}
      /\ Len(evidence.captures) < MaxCaptures
      /\ Admissible(req[w], evidence)
      /\ answer[w] = "none" /\ ~wrote[w]
  <2>1. Placed(w) /\ Current(w) /\ Shot(w)
    BY <1>1 DEF Thread
  <2>2. snap[w] = evidence /\ req[w].kind = "capture" /\ Admissible(req[w], evidence)
    BY <1>1, <2>1 DEF Placed, Current
  <2>3. Len(evidence.captures) < MaxCaptures
    BY <2>2 DEF Admissible, CaptureFits
  <2> QED
    BY <1>1, <2>1, <2>2, <2>3 DEF Placed, Shot, Leased
<1>3. /\ \A v \in Worker \ {w} : pc'[v] = pc[v] /\ answer'[v] = answer[v]
      /\ pc' \in [Worker -> Steps] /\ answer' \in [Worker -> Answers]
      /\ files \subseteq files' /\ files' \subseteq files \cup {file}
      /\ \/ pc'[w] = "finish" /\ answer'[w] = "error"
         \/ pc'[w] = "write" /\ answer'[w] = answer[w] /\ file \in files'
  BY <1>1, <1>2 DEF Return, Goto, ThreadsTyped, Steps, Answers
<1>4. file = <<Len(evidence.captures) + 1, shot[w]>> /\ file \in Index \X Image
  BY <1>2, PlacesAreIndices, RuntimeAssumption
  DEF Index, DaemonInv, RuntimeInv
<1> HIDE DEF file
<1>5. ThreadsTyped'
  BY <1>1, <1>3 DEF ThreadsTyped
<1>6. StoreTyped' /\ Backed'
  BY <1>1, <1>3, <1>4 DEF StoreTyped, Backed, DaemonInv, RuntimeInv
<1>7. Inside(w) /\ Grows
  BY <1>1, <1>3 DEF Inside, OnlyThread, Grows, flightVars
<1>8. UNCHANGED <<lease, cancelled, early>>
  BY <1>1 DEF flightVars
<1>9. Placed(w)' /\ Current(w)'
  BY <1>1, <1>2, <1>3, <1>8
  DEF Thread, Placed, Current, Leased, Unleased, Writers
<1>10. Shot(w)'
  BY <1>1, <1>2, <1>3, <1>4 DEF Shot
<1>11. Steady(w)' /\ Honest(w)' /\ Obeyed(w)'
  BY <1>1, <1>2, <1>3, <1>8 DEF Thread, Steady, Honest, Obeyed
<1> QED
  BY <1>2, <1>3, <1>5, <1>6, <1>7, <1>8, <1>9, <1>10, <1>11, StoringStep
  DEF Thread

\* What a handler writes is one operation of the session, applied to the
\* manifest that is there.
LEMMA RevisedIsNext ==
  ASSUME DaemonInv, NEW w \in Worker, WriteManifest(w)
  PROVE  /\ evidence' \in Evidence /\ Len(evidence'.captures) <= MaxCaptures
         /\ SessionNext
         /\ Grows
         /\ Backed'
         /\ req[w].kind = "capture" =>
              LET place == Len(evidence.captures) + 1
              IN /\ snap[w] = evidence
                 /\ place \in DOMAIN evidence'.captures
                 /\ evidence'.captures[place] = shot[w]
<1> DEFINE r == req[w]
<1>1. /\ Thread(w) /\ pc[w] = "write" /\ files' = files
      /\ evidence' = Revised(w)
  BY ThreadTyped DEF WriteManifest
<1>2. /\ r \in Request /\ ValidRequest(r) /\ r.kind \in Writers
      /\ Admissible(r, evidence)
  BY <1>1, RequestOfThread DEF Thread, Placed, Current
<1>3. /\ evidence \in Evidence /\ Len(evidence.captures) <= MaxCaptures
      /\ evidence.captures \in Seq(Image)
      /\ DOMAIN evidence.captures \subseteq Index
      /\ Backed
  BY PlacesAreIndices DEF DaemonInv, RuntimeInv, StoreTyped
<1>4. CASE r.kind = "capture"
  <2>1. /\ snap[w] = evidence /\ shot[w] \in Image
        /\ <<Len(evidence.captures) + 1, shot[w]>> \in files
    BY <1>1, <1>4 DEF Thread, Current, Shot
  <2>2. /\ r.arg \in Note /\ Len(evidence.captures) < MaxCaptures
    BY <1>2, <1>4 DEF ValidRequest, Admissible, CaptureFits
  <2>3. evidence' = WithCapture(evidence, shot[w], r.arg)
    BY <1>1, <1>4, <2>1 DEF Revised
  <2>4. /\ evidence' \in Evidence
        /\ evidence'.captures = Append(evidence.captures, shot[w])
    BY <1>3, <2>1, <2>2, <2>3, WithCaptureTyped
  <2>5. Captured
    BY <2>1, <2>2, <2>3 DEF Captured
  <2>6. /\ Len(evidence'.captures) = Len(evidence.captures) + 1
        /\ evidence'.captures[Len(evidence.captures) + 1] = shot[w]
        /\ \A i \in DOMAIN evidence.captures :
             /\ i \in DOMAIN evidence'.captures
             /\ evidence'.captures[i] = evidence.captures[i]
        /\ DOMAIN evidence'.captures =
             DOMAIN evidence.captures \cup {Len(evidence.captures) + 1}
    BY <1>3, <2>1, <2>4
  <2>7. Len(evidence'.captures) <= MaxCaptures
    BY <1>3, <2>2, <2>6, RuntimeAssumption
  <2>8. Backed'
    BY <1>1, <1>3, <2>1, <2>6 DEF Backed
  <2> QED
    BY <2>1, <2>4, <2>5, <2>6, <2>7, <2>8 DEF SessionNext, Grows
<1>5. CASE r.kind # "capture"
  <2>1. /\ evidence' \in Evidence /\ evidence'.captures = evidence.captures
        /\ SessionNext
    <3>1. CASE r.kind = "review"
      <4>1. PICK agreed \in BOOLEAN :
              snap[w] = WithReview(evidence, Subject(r, evidence), agreed)
        BY <1>1, <3>1 DEF Thread, Current
      <4>2. /\ Subject(r, evidence) \in DOMAIN evidence.captures
            /\ Subject(r, evidence) \in Index
        BY <1>2, <3>1, SubjectIsListed
      <4>3. evidence' = WithReview(evidence, Subject(r, evidence), agreed)
        BY <1>1, <3>1, <4>1 DEF Revised
      <4>4. Reviewed
        BY <4>2, <4>3 DEF Reviewed
      <4> QED
        BY <1>3, <4>2, <4>3, <4>4, WithReviewTyped DEF SessionNext
    <3>2. CASE r.kind = "annotate"
      <4>1. r.arg \in Note \ {NoNote} /\ snap[w] = evidence
        BY <1>1, <1>2, <3>2 DEF ValidRequest, Thread, Current
      <4>2. evidence' = WithNote(evidence, r.arg)
        BY <1>1, <3>2, <4>1 DEF Revised
      <4>3. Annotated
        BY <4>1, <4>2 DEF Annotated
      <4> QED
        BY <1>3, <4>1, <4>2, <4>3, WithNoteTyped DEF SessionNext
    <3>3. CASE r.kind = "select"
      <4>1. /\ r.arg[1] # r.arg[2] /\ snap[w] = evidence
            /\ r.arg[1] \in DOMAIN evidence.captures
            /\ r.arg[2] \in DOMAIN evidence.captures
        BY <1>1, <1>2, <3>3 DEF ValidRequest, Admissible, Thread, Current
      <4>2. evidence' = WithPair(evidence, r.arg[1], r.arg[2])
        BY <1>1, <3>3, <4>1 DEF Revised
      <4>3. Selected
        BY <4>1, <4>2 DEF Selected
      <4> QED
        BY <1>3, <4>1, <4>2, <4>3, WithPairTyped DEF SessionNext
    <3> QED
      BY <1>2, <1>5, <3>1, <3>2, <3>3 DEF Writers
  <2> QED
    BY <1>1, <1>3, <1>5, <2>1 DEF Grows, Backed
<1> QED
  BY <1>4, <1>5

LEMMA WriteKeeps ==
  ASSUME DaemonInv, NEW w \in Worker, WriteManifest(w)
  PROVE  RuntimeInv'
<1>1. /\ Thread(w) /\ ThreadsTyped
      /\ pc[w] = "write"
      /\ wrote' = [wrote EXCEPT ![w] = TRUE]
      /\ UNCHANGED <<flightVars, req, snap, shot, files, exported, clients,
                     admitted, early>>
  BY ThreadTyped DEF WriteManifest
<1>2. PICK a \in {"success", "error"} : Return(w, a)
  BY DEF WriteManifest
<1>3. lease[w] # {}
  BY <1>1 DEF Thread, Placed, Leased
<1>4. /\ pc'[w] = "finish" /\ answer'[w] = a
      /\ \A v \in Worker \ {w} : pc'[v] = pc[v] /\ answer'[v] = answer[v]
      /\ pc' \in [Worker -> Steps] /\ answer' \in [Worker -> Answers]
  BY <1>1, <1>2, <1>3 DEF Return, Goto, ThreadsTyped, Steps, Answers
<1>5. /\ \A v \in Worker \ {w} : wrote'[v] = wrote[v]
      /\ wrote' \in [Worker -> BOOLEAN]
  BY <1>1, Zenon DEF ThreadsTyped
<1>6. UNCHANGED <<lease, cancelled, early>>
  BY <1>1 DEF flightVars
<1>7. ThreadsTyped'
  BY <1>1, <1>4, <1>5 DEF ThreadsTyped
<1>8. StoreTyped'
  BY <1>1, RevisedIsNext DEF StoreTyped, DaemonInv, RuntimeInv
<1>9. Inside(w)
  BY <1>1, <1>4, <1>5, <1>6 DEF Inside, OnlyThread
<1>10. Placed(w)'
  BY <1>1, <1>3, <1>4, <1>6 DEF Thread, Placed, Leased, Unleased
<1>11. Current(w)' /\ Shot(w)'
  BY <1>4 DEF Current, Shot
<1>12. Steady(w)'
  BY <1>1, RevisedIsNext DEF Thread, Steady, Grows
<1>13. Honest(w)'
  BY <1>1, <1>4, RevisedIsNext DEF Honest
<1>14. Obeyed(w)'
  BY <1>1, <1>6 DEF Thread, Obeyed
<1> QED
  BY <1>1, <1>3, <1>6, <1>7, <1>8, <1>9, <1>10, <1>11, <1>12, <1>13, <1>14,
     RevisedIsNext, StoringStep
  DEF Thread

LEMMA ArchiveKeeps ==
  ASSUME DaemonInv, NEW w \in Worker, WriteArchive(w)
  PROVE  RuntimeInv' /\ exported' = evidence'
<1>1. /\ Thread(w) /\ ThreadsTyped
      /\ pc[w] = "archive" /\ exported' = snap[w]
      /\ Return(w, "success")
      /\ UNCHANGED <<flightVars, req, snap, shot, wrote, evidence, files,
                     clients, admitted, early>>
  BY ThreadTyped DEF WriteArchive
<1>2. /\ snap[w] = evidence /\ req[w].kind = "export"
      /\ lease[w] # {} /\ ~wrote[w]
  BY <1>1 DEF Thread, Placed, Current, Leased
<1>3. /\ pc'[w] = "finish" /\ answer'[w] = "success"
      /\ \A v \in Worker \ {w} : pc'[v] = pc[v] /\ answer'[v] = answer[v]
      /\ pc' \in [Worker -> Steps] /\ answer' \in [Worker -> Answers]
  BY <1>1, <1>2 DEF Return, Goto, ThreadsTyped, Steps, Answers
<1>4. UNCHANGED <<lease, cancelled, early>>
  BY <1>1 DEF flightVars
<1>5. ThreadsTyped'
  BY <1>1, <1>3 DEF ThreadsTyped
<1>6. StoreTyped' /\ Backed'
  BY <1>1, <1>2 DEF StoreTyped, Backed, DaemonInv, RuntimeInv
<1>7. Inside(w) /\ Grows
  BY <1>1, <1>3, <1>4 DEF Inside, OnlyThread, Grows
<1>8. Thread(w)'
  BY <1>1, <1>2, <1>3, <1>4
  DEF Thread, Placed, Current, Shot, Steady, Honest, Obeyed, Leased, Unleased
<1> QED
  BY <1>1, <1>2, <1>4, <1>5, <1>6, <1>7, <1>8, StoringStep

-----------------------------------------------------------------------------
\* A client comes and goes, and the daemon ends

LEMMA AdmitKeeps ==
  ASSUME DaemonInv, NEW w \in Worker, NEW r \in Request, Admit(w, r)
  PROVE  RuntimeInv'
<1>1. /\ Thread(w) /\ ThreadsTyped
      /\ pc[w] = "free"
      /\ clients < MaxClients /\ admitted < MaxRequests
      /\ clients' = clients + 1 /\ admitted' = admitted + 1
      /\ req' = [req EXCEPT ![w] = r]
      /\ pc' = [pc EXCEPT ![w] = FirstStep(r.kind)]
      /\ UNCHANGED <<flightVars, snap, shot, answer, wrote, storeVars, early>>
  BY ThreadTyped DEF Admit, Goto
<1>2. r.kind \in Kinds
  BY RuntimeAssumption DEF ValidRequest
<1>3. /\ pc'[w] = FirstStep(r.kind) /\ req'[w] = r
      /\ \A v \in Worker \ {w} : pc'[v] = pc[v] /\ req'[v] = req[v]
      /\ pc' \in [Worker -> Steps]
      /\ req' \in [Worker -> Request \cup {NoRequest}]
  BY <1>1 DEF ThreadsTyped, FirstStep, Steps
<1>4. UNCHANGED <<lease, cancelled, early, evidence, files, exported>>
  BY <1>1 DEF flightVars, storeVars
<1>5. OnlyThread(w)
  BY <1>1, <1>3, <1>4 DEF OnlyThread
<1>6. \A v \in Worker \ {w} : Thread(v)'
  BY <1>4, <1>5, OthersStay
<1>7. lease[w] = {} /\ answer[w] = "none" /\ ~wrote[w]
  BY <1>1 DEF Thread, Placed, Unleased
<1>8. Placed(w)'
  BY <1>1, <1>2, <1>3, <1>4, <1>7
  DEF Placed, Leased, Unleased, Writers, LeasedKinds, FirstStep, Kinds
<1>9. Current(w)' /\ Shot(w)'
  BY <1>2, <1>3 DEF Current, Shot, FirstStep, LeasedKinds
<1>10. Steady(w)' /\ Honest(w)' /\ Obeyed(w)'
  BY <1>1, <1>3, <1>4, <1>7 DEF Thread, Steady, Honest, Obeyed
<1>11. CountsTyped'
  <2>1. Busy' = Busy \cup {w} /\ w \notin Busy
    BY <1>1, <1>3 DEF Busy, FirstStep
  <2>2. /\ IsFiniteSet(Busy) /\ clients = Cardinality(Busy)
        /\ clients \in 0..MaxClients /\ admitted \in 0..MaxRequests
    BY DEF DaemonInv, RuntimeInv, CountsTyped
  <2>3. IsFiniteSet(Busy') /\ clients' = Cardinality(Busy')
    BY <1>1, <2>1, <2>2, FS_AddElement
  <2> QED
    BY <1>1, <2>2, <2>3, RuntimeAssumption DEF CountsTyped
<1>12. ThreadsTyped' /\ StoreTyped' /\ Backed' /\ (early \subseteq cancelled)'
  BY <1>1, <1>3, <1>4
  DEF ThreadsTyped, StoreTyped, Backed, DaemonInv, RuntimeInv
<1> QED
  BY <1>6, <1>8, <1>9, <1>10, <1>11, <1>12 DEF RuntimeInv, Thread

\* What a thread without a request is like.
LEMMA FreeThread ==
  ASSUME NEW w \in Worker, pc[w] = "free", lease[w] = {}, answer[w] = "none",
         ~wrote[w], snap[w] = NoEvidence
  PROVE  Thread(w)
  BY NoEvidenceTyped
  DEF Thread, Placed, Current, Shot, Steady, Honest, Obeyed, Leased, Unleased

LEMMA ReplyKeeps ==
  ASSUME DaemonInv, NEW w \in Worker, Reply(w)
  PROVE  RuntimeInv'
<1>1. /\ Thread(w) /\ ThreadsTyped
      /\ pc[w] = "reply"
      /\ pc' = [pc EXCEPT ![w] = "free"]
      /\ req' = [req EXCEPT ![w] = NoRequest]
      /\ snap' = [snap EXCEPT ![w] = NoEvidence]
      /\ shot' = [shot EXCEPT ![w] = NoImage]
      /\ answer' = [answer EXCEPT ![w] = "none"]
      /\ wrote' = [wrote EXCEPT ![w] = FALSE]
      /\ clients' = clients - 1
      /\ UNCHANGED <<flightVars, storeVars, admitted, early>>
  BY ThreadTyped DEF Reply, Goto
<1>2. /\ wrote'[w] = FALSE
      /\ \A v \in Worker \ {w} : wrote'[v] = wrote[v]
      /\ wrote' \in [Worker -> BOOLEAN]
  BY <1>1, Zenon DEF ThreadsTyped
<1>3. /\ pc'[w] = "free" /\ snap'[w] = NoEvidence /\ answer'[w] = "none"
      /\ \A v \in Worker \ {w} :
           /\ pc'[v] = pc[v] /\ req'[v] = req[v] /\ snap'[v] = snap[v]
           /\ shot'[v] = shot[v] /\ answer'[v] = answer[v]
  BY <1>1 DEF ThreadsTyped
<1>4. ThreadsTyped'
  <2>1. pc' \in [Worker -> Steps] /\ answer' \in [Worker -> Answers]
    BY <1>1 DEF ThreadsTyped, Steps, Answers
  <2>2. snap' \in [Worker -> Evidence]
    BY <1>1, NoEvidenceTyped DEF ThreadsTyped
  <2>3. /\ req' \in [Worker -> Request \cup {NoRequest}]
        /\ shot' \in [Worker -> Image \cup {NoImage}]
    BY <1>1 DEF ThreadsTyped
  <2> QED
    BY <1>2, <2>1, <2>2, <2>3 DEF ThreadsTyped
<1>5. UNCHANGED <<lease, cancelled, early, evidence, files, exported>>
  BY <1>1 DEF flightVars, storeVars
<1>6. OnlyThread(w)
  BY <1>2, <1>3, <1>5 DEF OnlyThread
<1>7. \A v \in Worker \ {w} : Thread(v)'
  BY <1>5, <1>6, OthersStay
<1>8. lease[w] = {}
  BY <1>1 DEF Thread, Placed, Unleased
<1>9. Thread(w)'
  BY <1>2, <1>3, <1>5, <1>8, NoEvidenceTyped
  DEF Thread, Placed, Current, Shot, Steady, Honest, Obeyed, Leased, Unleased
<1>10. CountsTyped'
  <2>1. Busy' = Busy \ {w} /\ w \in Busy
    BY <1>1, <1>3 DEF Busy
  <2>2. /\ IsFiniteSet(Busy) /\ clients = Cardinality(Busy)
        /\ clients \in 0..MaxClients /\ admitted \in 0..MaxRequests
    BY DEF DaemonInv, RuntimeInv, CountsTyped
  <2>3. /\ IsFiniteSet(Busy') /\ clients' = Cardinality(Busy')
    BY <1>1, <2>1, <2>2, FS_RemoveElement
  <2>4. Cardinality(Busy') \in Nat
    BY <2>3, FS_CardinalityType
  <2> QED
    BY <1>1, <2>2, <2>3, <2>4, RuntimeAssumption DEF CountsTyped
<1>11. StoreTyped' /\ Backed' /\ (early \subseteq cancelled)'
  BY <1>5 DEF StoreTyped, Backed, DaemonInv, RuntimeInv
<1> QED
  BY <1>4, <1>7, <1>9, <1>10, <1>11 DEF RuntimeInv

LEMMA CrashKeeps ==
  ASSUME DaemonInv, Crash
  PROVE  RuntimeInv'
<1>1. /\ clients' = 0 /\ pc' = [w \in Worker |-> "free"]
      /\ req' = [w \in Worker |-> NoRequest]
      /\ snap' = [w \in Worker |-> NoEvidence]
      /\ shot' = [w \in Worker |-> NoImage]
      /\ answer' = [w \in Worker |-> "none"]
      /\ wrote' = [w \in Worker |-> FALSE]
      /\ lease' = [w \in Worker |-> {}]
      /\ UNCHANGED <<cancelled, early, admitted, evidence, files, exported>>
  BY DEF Crash, Restart, storeVars
<1>2. ThreadsTyped'
  BY <1>1, NoEvidenceTyped DEF ThreadsTyped, Steps, Answers
<1>3. CountsTyped'
  <2>1. Busy' = {}
    BY <1>1 DEF Busy
  <2> QED
    BY <1>1, <2>1, FS_EmptySet, RuntimeAssumption
    DEF CountsTyped, DaemonInv, RuntimeInv
<1>4. StoreTyped' /\ Backed' /\ (early \subseteq cancelled)'
  BY <1>1 DEF StoreTyped, Backed, DaemonInv, RuntimeInv
<1>5. \A w \in Worker : Thread(w)'
  BY <1>1, NoEvidenceTyped
  DEF Thread, Placed, Current, Shot, Steady, Honest, Obeyed, Leased, Unleased
<1> QED
  BY <1>2, <1>3, <1>4, <1>5 DEF RuntimeInv

LEMMA DaemonInitially == Init => DaemonInv
<1> SUFFICES ASSUME Init PROVE DaemonInv
  OBVIOUS
<1>1. FlightInv
  BY FlightInitially DEF Init
<1>2. evidence = NoEvidence /\ lease = [w \in Worker |-> {}] /\ cancelled = {}
  BY DEF Init, SessionInit, FlightInit
<1>3. ThreadsTyped
  BY NoEvidenceTyped DEF Init, ThreadsTyped, Steps, Answers
<1>4. StoreTyped /\ Backed /\ early \subseteq cancelled
  BY <1>2, NoEvidenceTyped, RuntimeAssumption DEF Init, StoreTyped, Backed
<1>5. CountsTyped
  <2>1. Busy = {}
    BY DEF Init, Busy
  <2> QED
    BY <2>1, FS_EmptySet, RuntimeAssumption DEF Init, CountsTyped
<1>6. ASSUME NEW w \in Worker PROVE Thread(w)
  BY <1>2, FreeThread DEF Init
<1> QED
  BY <1>1, <1>3, <1>4, <1>5, <1>6 DEF DaemonInv, RuntimeInv

LEMMA StepKeeps ==
  ASSUME DaemonInv, NEW w \in Worker, Step(w)
  PROVE  RuntimeInv'
<1>1. CASE \/ Reject(w) \/ ReportStatus(w) \/ AnswerBusy(w) \/ StoreFails(w)
           \/ Compare(w) \/ HandOff(w)
  BY <1>1, ReturningSteps
<1>2. CASE \E target \in seen : CancelOperation(w, target)
  BY <1>2, CancelOperationKeeps
<1>3. CASE Reply(w) \/ BeginOperation(w) \/ FinishOperation(w)
  BY <1>3, ReplyKeeps, BeginOperationKeeps, FinishOperationKeeps
<1>4. CASE Engine(w) \/ CheckCancelled(w) \/ StoreImage(w)
  BY <1>4, EngineKeeps, CheckKeeps, StoreImageKeeps
<1>5. CASE ReadManifest(w) \/ AskAgent(w) \/ WriteManifest(w)
  BY <1>5, ReadKeeps, AskKeeps, WriteKeeps
<1>6. CASE WriteArchive(w) \/ ResolveHandoff(w)
  BY <1>6, ArchiveKeeps, ResolveKeeps
<1> QED
  BY <1>1, <1>2, <1>3, <1>4, <1>5, <1>6 DEF Step

LEMMA DaemonStep == DaemonInv /\ [Next]_vars => DaemonInv'
<1> SUFFICES ASSUME DaemonInv, [Next]_vars PROVE DaemonInv'
  OBVIOUS
<1>1. FlightInv'
  BY FlightMoves, FlightStep DEF DaemonInv
<1>2. CASE Next
  BY <1>1, <1>2, AdmitKeeps, StepKeeps, CrashKeeps DEF Next, DaemonInv
<1>3. CASE UNCHANGED vars
  <2>1. RuntimeInv'
    BY <1>3
    DEF vars, flightVars, threadVars, storeVars, DaemonInv, RuntimeInv,
        ThreadsTyped, StoreTyped, CountsTyped, Busy, Backed, Thread, Placed,
        Current, Shot, Steady, Honest, Obeyed
  <2> QED
    BY <1>1, <2>1 DEF DaemonInv
<1> QED
  BY <1>2, <1>3

LEMMA DaemonInvariant == Spec => []DaemonInv
  BY DaemonInitially, DaemonStep, PTL DEF Spec

-----------------------------------------------------------------------------
\* Only WriteManifest changes the manifest, and only WriteArchive the archive.

LEMMA OthersLeaveStore ==
  ASSUME [Next]_vars
  PROVE  /\ evidence' = evidence \/ \E w \in Worker : WriteManifest(w)
         /\ exported' = exported \/ \E w \in Worker : WriteArchive(w)
<1>1. CASE UNCHANGED vars \/ Crash \/ \E w \in Worker, r \in Request : Admit(w, r)
  BY <1>1 DEF vars, Crash, Admit, storeVars
<1>2. ASSUME NEW w \in Worker, Step(w)
      PROVE  /\ evidence' = evidence \/ WriteManifest(w)
             /\ exported' = exported \/ WriteArchive(w)
  BY <1>2
  DEF Step, Reject, Reply, ReportStatus, CancelOperation, BeginOperation,
      AnswerBusy, FinishOperation, Engine, CheckCancelled, StoreImage,
      ReadManifest, AskAgent, WriteManifest, StoreFails, WriteArchive, Compare,
      ResolveHandoff, HandOff, storeVars
<1> QED
  BY <1>1, <1>2 DEF Next

-----------------------------------------------------------------------------
\* The theorems

\* The threads, the flight and the store stay in their ranges, and a session
\* lists no more captures than max_captures (RuntimeService).
THEOREM RuntimeTyped == Spec => []TypeOK
<1>1. DaemonInv => TypeOK
  BY DEF DaemonInv, RuntimeInv, FlightInv, TypeOK, ThreadsTyped, StoreTyped,
         CountsTyped
<1> QED
  BY <1>1, DaemonInvariant, PTL

\* run_foreground's counter is the number of threads that serve a client, for
\* any number of clients, restarts and ways out of a handler.
THEOREM SlotsAreCounted == Spec => []ClientsCounted
<1>1. DaemonInv => ClientsCounted
  BY DEF DaemonInv, RuntimeInv, CountsTyped, Busy, ClientsCounted
<1> QED
  BY <1>1, DaemonInvariant, PTL

\* What a handler has read stays listed, and its files stay, with a lease or
\* without one (compare, handoff).
THEOREM ReadEvidenceStays == Spec => []EvidenceStays
<1>1. DaemonInv => EvidenceStays
  BY DEF DaemonInv, RuntimeInv, Thread, Steady, EvidenceStays
<1> QED
  BY <1>1, DaemonInvariant, PTL

\* Success of a capture, busy and cancelled are said only when they are so.
THEOREM AnswersAreHonest == Spec => []AnswersHonest
<1>1. DaemonInv => AnswersHonest
  BY DEF DaemonInv, RuntimeInv, Thread, Honest, AnswersHonest
<1> QED
  BY <1>1, DaemonInvariant, PTL

\* A capture whose flag is raised while its engine runs stores nothing.
THEOREM EarlyCancelsAreObeyed == Spec => []EarlyCancelHonoured
<1>1. DaemonInv => EarlyCancelHonoured
  BY DEF DaemonInv, RuntimeInv, Thread, Obeyed, EarlyCancelHonoured
<1> QED
  BY <1>1, DaemonInvariant, PTL

\* An archive is that of the manifest there is when it is written (export).
THEOREM ArchivesAreCurrent == Spec => ExportsCurrent
<1>1. DaemonInv /\ [Next]_vars => [exported' # exported => exported' = evidence']_vars
  BY OthersLeaveStore, ArchiveKeeps
<1> QED
  BY <1>1, DaemonInvariant, PTL DEF Spec, ExportsCurrent

\* The handlers never lose one another's updates: the daemon, with its threads
\* and restarts, implements the session whose operations are atomic.
THEOREM DaemonImplementsSession == Spec => ImplementsSession
<1>1. Init => SessionInit
  BY DEF Init
<1>2. DaemonInv /\ [Next]_vars => [SessionNext]_evidence
  BY OthersLeaveStore, RevisedIsNext
<1> QED
  BY <1>1, <1>2, DaemonInvariant, PTL DEF Spec, ImplementsSession, SessionSpec

============================================================================
