# SurfaceCheck in TLA+

Specifications of SurfaceCheck, a local daemon (`surfacecheckd`) with a command
line client and a shell plugin: it captures a window, a region or an
application, stores the image with a manifest as evidence, reviews it, compares
captures, exports sessions and hands findings to an external system.  The
modules are read off the Rust sources; `PROJECT.json` maps each definition to
the lines it stands for.

Paths below leave out `src/crates/surfacecheck-`: `store/src/lib.rs` is
`src/crates/surfacecheck-store/src/lib.rs`.

## 1. The system

| Component | State | Operations | Modelled in |
|---|---|---|---|
| evidence store, `store/src/lib.rs` | per session: `captures/*.png`, `manifest.json`, `journal.jsonl`, temporary files | `create_session`, `publish_capture`, `replace_manifest`, `recover` | `EvidenceStore`, `EvidenceLog` |
| export archive, `store/src/lib.rs` | `exports/*.tar`, a temporary file, the destination of an extraction | `export`, `export_to_file`, `verify_archive`, `extract_verified_archive` | `ExportArchive`, `ArchiveFormat` |
| single flight, `service/src/lib.rs` | lease in flight, next generation, a flag per lease | `begin`, `finish`, `cancel`, `active` | `SingleFlight` |
| runtime service, `service/src/runtime.rs` | client counter, a thread per client | nine handlers of `dispatch` | `SurfaceRuntime`, `EvidenceSession` |
| runtime socket, `service/src/lib.rs`, `systemd/surfacecheckd.service` | the socket file and its directory | `bind` (not `authenticate_peer`) | `RuntimeSocket` |
| capture engine, `capture/src/engine.rs` | none between calls | `capture`, `probe_tools` | `CaptureEngine` (not `probe_tools`); its outcome in `SurfaceRuntime` |
| tool runner, `capture/src/command.rs` | a child process, two reader threads | `run` | `CaptureEngine` |
| geometry, PNG, `capture/src` | none | parse and decode | no: bytes and numbers |
| deterministic review, `review/src/lib.rs` | none | `deterministic_findings`, `compare` | `ReviewRecords` (not the pixel statistics) |
| agent coordinator, `review/src/agent.rs` | none | `review` | the checks of its response in `ReviewRecords`, its cancellation looks in `SurfaceRuntime` |
| Premonition coordinator, `review/src/premonition.rs` | none | `handoff` | its cancellation looks, in `SurfaceRuntime` |
| wire and manifest model, `core/src/model.rs` | none | validation, limits | `EvidenceContract` |
| client, `cli/src/lib.rs` | none | `parse_args`, a call with a timeout, a direct capture as fallback | `ServiceClient` |
| shell plugin, packaging | - | start the client, install the unit | no |

**How they interact.**  A client connects, writes one frame and waits for one.
The daemon's accept loop counts clients in an atomic counter, drops those over
`MAX_CLIENTS`, and gives each of the others a thread, which runs one handler.
Handlers share the single flight (a mutex), and the store, which has no lock of
its own: every handler that writes the manifest runs between `begin` and
`finish`, `compare` reads without a lease, and a handoff of a finding reads
before it begins.  A capture or a review can be cancelled by another client
through the flag of its lease, which the engine and the coordinators poll.  The
store talks to the file system only; a restarted daemon finds nothing but the
files.

**What is hard.**

* Crashes, I/O errors and power failures between the steps of a publication:
  the image, its journal line, the manifest and its journal line are four
  separate writes.
* A journal whose last line is torn, and what is appended after it.
* Quotas that count what failures leave behind, and a journal bound that may be
  reached in the middle of an operation.
* A cancellation that arrives late: after the operation, after the last look at
  the flag, after a restart of the daemon.
* Handlers that read the whole manifest, compute, and write all of it back.
* Readers without a lease beside writers.
* Every path out of a handler has to free the flight and the client's slot.
* Two daemons that start together, and a unit that takes the runtime directory
  with it when it stops; a client that gives up before the daemon does; a tool
  that hangs, or is killed at its deadline.
* An archive that is damaged on its way, mixed with an older one, or cut off by
  a crash; an extraction that breaks off.
* An agent's response of which one finding is wrong; findings, facts and a pair
  that refer to captures while later operations rewrite the manifest.
* Options that are combined, repeated or left out, of which one is a consent.

`PROJECT.json` lists these under `hazards` at the lines where they bite, with
the properties that cover them, or the reason why none does (two of them: what
a crash leaves of a session being created, and the temporary file that makes
the same image be refused; both are behaviours no property denies).  A `note`
says so where the worst that can happen at a hazard is what the code does and no
document denies: the properties named there keep the rest of it in bounds.

**What makes each part correct.**  Store: a manifest names only durable,
journalled images; what was acknowledged stays; the journal reads back; the
quota holds.  Single flight: one operation at a time; a cancel hits what it
names or nothing.  Runtime: no lost update; true answers; no lost slot; the
daemon always becomes free again.  Socket: who started undisturbed is the one
that clients reach.  Export: the archive is the session at one moment, and
verification accepts it and nothing else.  Review: what the manifest says of a
capture is measured in it or is the whole of one valid response.  Engine and
runner: a status that says what happened, and a call that ends.  Client: an exit
status to rely on, no second effect of one command, no adapter without consent.

## 2. The modules

```
EvidenceLog  <--refines--  EvidenceStore  <--  EvidenceStoreProofs
EvidenceSession  <--extends, refines--  SurfaceRuntime  <--  SurfaceRuntimeProofs
SingleFlight     <--extends-----------  SurfaceRuntime
SingleFlight     <--  SingleFlightProofs  <--extends--  SurfaceRuntimeProofs
CaptureEngine  <--  CaptureEngineProofs    (SurfaceRuntime's Engine step)
RuntimeSocket    <--extends--  ServiceClient  <--  ServiceClientProofs
ArchiveFormat    <--extends--  ExportArchive  <--  ExportArchiveProofs
EvidenceContract <--extends--  ReviewRecords  <--  ReviewRecordsProofs
Lists  <--extends--  ArchiveFormat, ReviewRecords
Lists  <--  ListLemmas  <--extends--  EvidenceStoreProofs, ExportArchiveProofs, ReviewRecordsProofs
```

`Lists` is `Vec::retain`, and `ListLemmas` what the proofs know of it, of folds
and of lists of any length.

`MC`*module* gives TLC its instance of a module: `MCEvidenceStore`,
`MCSingleFlight`, `MCSurfaceRuntime`, `MCCaptureEngine`, `MCServiceClient`,
`MCExportArchive` and `MCReviewRecords`.

### EvidenceStore

One session directory.  `files`, `temps`, `manifest`, `manifestTemps`,
`journal` and `torn` are what a reader finds in it; `synced`, `durable`,
`pending` and `journalSynced` tell how much of that a power failure cannot take
back: directory entries become durable with `sync_directory`, the journal with
`sync_all`.  `pc` and `goal` are the writer's place in the operation and the
manifest it is about to publish.  `acked` is a history variable.

The actions are the file operations, in the order of the code:
`CreateDirectory`, `CreateCaptures`, `CreateJournal` (`create_session`);
`BeginPublish` (the checks of `publish_capture` and the temporary file of
`atomic_create`), `RenameCapture`, `SyncCaptures`; `TruncateTail`, `WriteLine`,
`SyncJournal` (`append_journal`, three times over); `WriteManifest` or
`BeginReplace`, `RenameManifest`, `SyncManifest` (`atomic_replace`).  An
operation that a check refuses changes nothing and is no step.
`Interrupt` stands for each `?` of these functions as well as for the death of
the daemon: either way the steps done stay done.  `PowerFailure` may also undo
what was not synced: unsynced images one by one, the manifest back to any
version since the last sync, unsynced journal lines from the end, the first
lost one perhaps in part.  `LoseSession` is the power failure before any line of
the journal is durable: `create_session` and `EvidenceStore::new` sync no
directory, so that it may leave any earlier stage of the session, or none.

An image and its hash are one value, and so are a manifest's bytes and its
contents.  The hash chain of the journal is the sequence number of its lines.
Sizes are counted in a few units (`ImageBytes`, `EntryBytes`, `LineBytes`).

`EvidenceLog` is what this amounts to: a list that grows at the end, and a
failure that takes back only what was not yet durable.

Assumed: one writer (proved of the daemon below: `OneFlight`); and that the first
`sync_all` of the journal makes the way to the file durable with the file, as
journalling file systems do for a file that is new.  POSIX does not promise it,
and no `fsync` of the directories `sessions` and `root` is in the code:
`AckedSurvives`, `ImplementsLog` and the theorems about them rest on it, for a
session directory that is lost takes everything with it.

### SingleFlight

`begin`, `finish`, `cancel` and `active` are one step each, under the mutex.
A lease is the id and generation a client sees, and a `serial` that stands for
the identity of its flag (`Arc<AtomicBool>`).  `lease` is what each thread got
from `begin`.  `seen` holds the leases a status answer has reported: a cancel
names one of them, at any later time.  `Restart` ends the daemon in the middle
of anything; the generations start again.  The history variable `strikes` pairs
each cancel that hit with the lease it was meant for.

Assumed (`FlightAssumption`): no run of the daemon performs 2^64 operations.

### SurfaceRuntime and EvidenceSession

`Admit` and `Reply` are `run_foreground`, with its counter of clients; the
other actions are the handlers, each cut where a thread looks at what others can
change: the flight, the flag, the manifest, the image files.  `pc` is the next
cut, `snap` the manifest the handler has read, `shot` the image of its engine,
`answer` what it is going to say.

| Handler | Steps |
|---|---|
| `capture` | `BeginOperation`, `Engine`, `CheckCancelled`, `ReadManifest`, `StoreImage`, `WriteManifest`, `FinishOperation` |
| `review` | `BeginOperation`, `ReadManifest`, `AskAgent`, `WriteManifest`, `FinishOperation` |
| `annotate`, `select_before_after` | `BeginOperation`, `ReadManifest`, `WriteManifest`, `FinishOperation` |
| `export` | `BeginOperation`, `ReadManifest`, `WriteArchive`, `FinishOperation` |
| `handoff` of a finding | `ResolveHandoff`, `BeginOperation`, `HandOff`, `FinishOperation` |
| `handoff` of a defect | `BeginOperation`, `HandOff`, `FinishOperation` |
| `compare` | `ReadManifest`, `Compare` |
| `status`, `cancel` | `ReportStatus`, `CancelOperation` |

Each may end in `AnswerBusy`, in `Reject` (a frame or payload that is not
valid; three handlers find that out after they have begun) or in `StoreFails`,
and the daemon may end (`Crash`) after any step.  Captures are named by their
place in the manifest, on which capture ids begin.  A manifest is its captures,
its note, the captures that have agent findings and the before/after pair.

Requests are those whose payload `typed_payload` lets through (`ValidRequest`): a
note to annotate with is not empty, and the two captures of a pair differ.

`EvidenceSession` is the same manifest with operations that are atomic.

### CaptureEngine

One call of `CaptureEngine::capture` with `DirectCommandRunner`.  `Plan` is the
sequence of tools of a mode and `n` the place in it.  Per tool, the runner
spawns it (`Spawn`, `SpawnFails`), looks at the flag, the child and the clock in
turn (`PollFlag`, `PollChild`, `PollClock`), kills the process group if need be,
waits and drains the output (`Collect`); the engine then judges the result, in
the order of its checks (`ToolStatus`), and fails, goes on or completes.  Beside
it the tool prints and ends (`ToolPrints`, `ToolEnds`), processes close its pipe
(`PipeCloses`), the deadline passes (`Expire`), a client cancels (`RaiseFlag`)
and windows move (`Change`).  What a tool prints is an amount (in part, whole,
over the limit) and the window on the desktop when it looked.  The two error
returns of the runner that cannot be reached (a pipe that was asked for is
missing, `try_wait` fails) are left out.

### RuntimeSocket and ServiceClient

`socket` says whose listener the socket file names, if it is there; `phase` how
far each daemon's start is.  `LookForSocket`, `ProbeSocket`, `RemoveSocket`,
`BindSocket` and `Listen` are the system calls of `RuntimePaths::bind`, with
other daemons' calls between them; a bound socket does not accept yet, so that a
probe between `bind` and `listen` finds it dead.  `EndDaemon` is every end of a
daemon: an error, `AlreadyRunning`, a stop, a kill.  The daemons in `Managed` are
run by the unit, whose `RuntimeDirectory=` systemd removes when the service
stops, with the socket of whomever it is.  `alone` is a history variable: no
other start has overlapped this daemon's, and nobody took the directory since.

`ServiceClient` adds one call per client.  A command line is a record of its
shape (the arguments without options), of how often each flag is given, and of
whether each value is absent, good or bad; `Parses` is `parse_args` with
`reject_unused`, `ConsentMissing` the refusals of `execute`.  `cpc` is the
client's place: `FindSocket` (`exists`), `Connect`, the wait that ends in
`TakeAnswer`, `ConnectionLost` or `TimeOut`, and then `FallBack` to
`CaptureDirectly`, or `GiveUp`.  Of the daemon's work there is what the client
can tell, in `job`: `DropClient`, `AnswerOnly`, `AskAdapter`, `Publish`,
`AnswerPublished`, `DropPublished`; it goes on after the client has given up.
`StatusOf` and `ExitCode` are `unavailable` and the exit codes.  `orphaned` is a
history variable: the calls during which the socket file went away.

### ArchiveFormat and ExportArchive

An archive is a sequence of blocks: headers, data and zeros.  `BuildTar` is
`build_tar`; `ReadBlock`, folded over the blocks, is the reader of
`parse_archive_entries` with its refusals in their order; `Verifies` is
`verify_archive_entries`.  A file is what went in, a content is what comes out:
its length and its parts; two contents have one hash when they are equal.  The
checksum of a header is a flag, and one byte stands for any number.

`ExportArchive` has a session that grows, is annotated, and whose images
somebody may spoil; `export_to_file` in its file operations (`BeginExport`,
`CreateTemp`, `FillTemp`, `RenameTemp`, `SyncExports`) with `ExportBreaksOff` for errors,
crashes and power failures; a copy (`Carry`) to which `Mishaps` happen: a block
is changed, wiped, lost, doubled, out of order or that of an earlier export, or
the end is cut off; and `extract_verified_archive` entry by entry.

### EvidenceContract and ReviewRecords

`EvidenceContract` is the manifest with its captures, facts, findings,
comparison and pair, and what `EvidenceManifest::validate`,
`AgentReviewResponse::validate` and the coordinator's `validate_agent_response`
demand of them (`ValidManifest`, `ValidResponse`, `Accepts`).  A capture is
known by its place, as in `SurfaceRuntime`; an image is a hash, a width and what
can be measured in it; a finding cites regions by capture, hash, offset and
width.  The limit on a frame bounds the manifest with all its records
(`FrameBytes`), and the findings of a response by themselves.

`ReviewRecords` is what the handlers make of a manifest, each in one step since
they hold the lease (`SurfaceRuntime`'s concern): `Capture` with its facts
(`deterministic_findings`), `Review` with facts measured again and the
findings of an agent's response if it is accepted, and `Select` with `compare`.
Each makes a manifest and replaces the old one only if the new one is valid;
`refused` is the manifest that was refused last.  The responses are those of an
agent that is right or wrong in any one way.  `accepted` and `reviewed` are
history variables.

## 3. What is checked

| Run | Instance | Shows |
|---|---|---|
| `evidence_store` | 2 images, 1 note and none, 2 captures | `EvidenceBacked`, `ListedIsJournalled`, `JournalRecovers`, `AckedSurvives`, `BundleBounded`, and that the store implements `EvidenceLog` |
| `single_flight` | 2 threads, 2 ids, 4 leases, 1 restart | `OneFlight`, `StaleCancelHarmless` |
| `surface_runtime` | 3 threads, 2 slots, 4 of 10 requests, 2 captures, 1 restart | `ClientsCounted`, `EvidenceStays`, `AnswersHonest`, `EarlyCancelHonoured`, `ExportsCurrent`, and that the daemon implements `EvidenceSession` |
| `runtime_liveness` | 3 threads, 2 slots, 3 of capture, status, cancel | `FlightFreed`, `EveryRequestAnswered` |
| `capture_engine` | 2 windows or none, 2 changes, all modes | `StatusHonest`, `MisattributionMarked`, `NothingLeftRunning`, `CaptureEnds` |
| `client_calls` | 2 daemons, 1 of the unit, 4 starts; 1 call of 14 command lines | `AloneIsReached`, `AnswersDecisive`, `OneCapturePerCommand`, `AdapterNeedsConsent`, `EveryCommandEnds` |
| `export_archive` | 2 captures of 2 lengths, 2 notes, 2 mishaps | `ExportSucceeds`, `ArchiveWhole`, `DamageDetected`, `ExtractsWhole` |
| `evidence_review` | 3 captures of 3 images and 2 scales, 2 reviews of 18 answers or none | `FactsMeasured`, `WholeResponse`, `RefusedForLimitsOnly`, `PairIsMeasured` |
| `journal_outcome` | as the first, 1 image | *violated*: `OutcomeRecorded` |
| `stale_cancel` | as `single_flight` | *violated*: `CancelHitsItsTarget` |
| `cancelled_publish` | as `runtime_liveness`, no restart | *violated*: `NeverPublishesCancelled` |
| `selection_timeout` | as `capture_engine` | *violated*: `TimeoutIsDistinct` |

The safety runs also check the type invariants.  Each property of a passing run
has a mutant of the code's model in `PROJECT.json` that breaks it; the operators
with the mutated behaviour stand before the definitions they vary and are used
nowhere else.

**Bounds.**  Failures are not counted in `evidence_store`: any number of
errors, crashes and power failures may happen, and the model is finite because
captures, journal and bundle are bounded by limits of the code itself.  With
six lines the journal bound admits two captures and a revision, and is passed
in the middle of a later operation; 24 units leave room for two captures and
for one manifest left behind, so that leftovers make the quota bite.  Two
images suffice for the same image twice, for two different ones and for a
leftover of either.  In `single_flight`, four leases over two ids let an id
return three times, before and after the restart, and `GenerationLimit` is
above `MaxLeases`, as 2^64 is.  In `surface_runtime` four requests let a capture
and a review precede a pair of operations that overlap; three threads are a
holder, a reader or canceller, and one that finds the daemon busy or its slots
taken.  In `capture_engine` two changes let a window move and come back between
the looks at it; a tool's life is not bounded.

In `client_calls` two daemons suffice for a start that overlaps another and for
a unit that removes the socket of a daemon that is not its own; four starts let
each come twice.  Calls share nothing but the socket, so one is enough beside
daemons that may do anything at any time.  The command lines are one for each
way a request is served, and one for each mistake: an agent without consent, a
consent of the wrong kind, an option of another command, one given twice, one
without its value.  In `export_archive` a block is two bytes, so that an image
of two fills its block and one of three leaves padding; 26 bytes admit the
largest session and refuse its archive, which `ExportSucceeds` allows only
within the overhead of the limit.  Two mishaps let a second one hide the first.
In `evidence_review` three captures let one repeat another that is not its
neighbour and leave a third beside a pair; eight facts, three findings and a
manifest of twelve units (one for each record, one, seven or thirteen for the
text of a finding) are less than three captures and two reviews can make, so
that each limit is reached: captures over the limit on facts, reviews that are
refused for findings and for the length of the manifest, also two of which each
alone would fit, a selection that is refused for the two records it adds, and a
response that is too long whatever the manifest is.

`CHECK_DEADLOCK FALSE` is set everywhere: all these models may stop, the
store when its journal is full, a capture when it is over, an export when its
copy has been extracted, the others when the bounded requests, starts or reviews
are used up.  Symmetry over images, threads, ids or scales is used in safety runs
and not in the liveness run.

**Fairness.**  `FairSpec` asks that each thread that can take a step of its
handler takes one at last.  Nothing in a handler waits for another: `begin`
answers busy instead of blocking, the mutex is never held across a call, sockets
have timeouts of 35 s, tools have deadlines.  The adapters in the repository
answer at once; an adapter that does not would be outside this assumption, and
so would a tool's descendant that keeps a pipe open (see `hazards`).  No
fairness is asked of clients or of `Crash`.  With at most three requests in
all, `FlightFreed` says that the flight does not stay taken once the requests
are over or the daemon has ended, and `EveryRequestAnswered` that no thread
stays in its handler.

`CaptureEngine`'s `FairSpec` asks that the capture's thread runs, that time
passes (`Expire`), and that no process a tool leaves behind keeps its output
open for ever (`PipeCloses`): the runner kills the group of a tool it stops, but
joins its readers without a limit.  A tool need not print or end.
`SurfaceRuntime`'s fairness rests on this for its `Engine` step.

`ServiceClient`'s `FairSpec` asks that a client takes its own next step, and
nothing of any daemon, which may stop in the middle of a request for ever.  The
kernel answers `connect` whether or not the daemon accepts, reads and writes of
the client's socket time out (`TimeOut`), and the tools of a direct capture have
deadlines as above.

### Where the code and its documents part

* `journal_outcome`.  The manifest is renamed into place and its journal line is
  appended afterwards; a crash or an error in between leaves a manifest the
  journal does not record, and nothing reads the journal to repair it, while
  `docs/adr/0001-native-architecture.md` says the journal "records operation
  intent and outcome for crash recovery".  The evidence is safe
  (`EvidenceBacked`, `AckedSurvives`): the journal's record of it is incomplete.
* `stale_cancel`.  Generations begin again with each run of the daemon and the
  client derives ids from its arguments, so a cancel for an operation before a
  restart can match one after it, while `docs/security.md` says "an old request
  cannot cancel a newer operation".  Within one run the promise holds
  (`StaleCancelHarmless`).
* `cancelled_publish`.  After the last look at the flag a cancel is acknowledged
  and has no effect, while `DEVLOG.md` says the daemon "never publishes an image
  after its operation generation has been cancelled".  What holds is
  `EarlyCancelHonoured`: a cancel during the tools' run is always obeyed.
* `selection_timeout`.  The engine looks first whether the selector failed and
  printed nothing, which it takes for a selection the user cancelled; a selector
  killed at its deadline looks the same, while `docs/operator.md` says "an
  escape/cancel is distinct from a crash or timeout".

Beside these, `AloneIsReached` and `OneCapturePerCommand` hold with a condition a
reader should know.  `docs/adr/0001-native-architecture.md` has one service as
the "sole owner" of evidence writes; nothing but the probe of the socket enforces
that, so two daemons can serve one store if their starts overlap, or if one
that was started by hand runs when the unit's stops and its directory goes.
And a capture whose socket file disappears while it waits may be taken twice,
by the daemon into the store and by the client, whose answer says that nothing
was stored (`AnswersDecisive`).

## 4. What is proved

`EvidenceStoreProofs`, for all images, notes, limits and sizes
(`StoreAssumption`), and any number of failures:

* `StoreTyped`: `Spec => []TypeOK`
* `ListedCapturesAreDurable`: `Spec => []EvidenceBacked`
* `AcknowledgedCapturesStay`: `Spec => []AckedSurvives`
* `JournalReadsBack`: `Spec => []JournalRecovers`
* `ListedCapturesAreJournalled`: `Spec => []ListedIsJournalled`
* `BundleStaysBounded`: `Spec => []BundleBounded`
* `StoreImplementsLog`: `Spec => ImplementsLog`

None of these but `JournalReadsBack` is inductive.  That a manifest on the platter lists
synced images only depends on what the writer has done when it renames one:
`WriterInv` says, by the value of `pc`, that the goal keeps the captures of the
manifest it started from; that they are synced, all but the new one, from the
start, and that one too when the manifest is about to be written; and that once
the directory is synced nothing else than the goal is on the platter.
`StoreInv`, the conjunction of `TypeOK`, `WriterInv` and the three invariants, is preserved by
each action, one lemma per action; `PowerFailure` is the case that needs
`EvidenceBacked` and `AckedSurvives` of all of `OnPlatter` and not only of the
manifest in sight.  `LoseSession` needs that there is no manifest before a line
of the journal is durable (`UnlistedInv`); `SessionInv` is the two together.

For the journal and the refinement, `LogInv` adds to `SessionInv` that whatever is on the platter begins the list a
reader finds and is no shorter than what is durable (`PrefixInv`), that the goal is
that list or the list with one capture more (`GoalInv`), and that the line of the
new capture is in the journal, then durable, before the manifest is written
(`LinesInv`).  With these a rename of the manifest is a `Publish` or a stutter,
and a sync or a power failure a `Settle`.

For the quota, `RoomInv` says at each step of an operation that what it still has
to write fits beside everything in the directory but the manifest (`Others`):
the new manifest and two lines once the image's temporary file is there, the
manifest and one line after the first of the lines, one line once the manifest's
own temporary file is there.  Each action then adds no more than `RoomInv` has kept free for it, and
failures only take away or leave what was counted already.  The bytes of a set of
manifests are the cardinality of a set (`Weight`), so that what is known of
cardinalities applies to them.  For every value of the quota the bound cannot be
the quota alone, as the proof brought out: `create_session` writes its line
whatever the quota is (a test in `store/src/lib.rs` sets it to one byte), so that
below the size of one line it is that line which bounds the session.
`BundleBounded` says so.

`SingleFlightProofs`, for any number of threads, ids, leases and restarts
(`FlightAssumption`):

* `FlightTyped`: `FlightSpec => []FlightTypeOK`
* `FlightExclusive`: `FlightSpec => []OneFlight`
* `CancelIsExact`: `FlightSpec => []StaleCancelHarmless`

The last rests on facts about every lease that is in flight or was seen: none
has a generation above the counter of its run (`NamedArePast`), and two of one
run with the same generation are the same (`NamesDiffer`).  The counter never
wraps because it is at most the number of leases (`GenerationsCount`).

`SurfaceRuntimeProofs`, for any number of threads, client slots, captures,
restarts and valid requests (`RuntimeAssumption`, `FlightAssumption`):

* `RuntimeTyped`: `Spec => []TypeOK`
* `SlotsAreCounted`: `Spec => []ClientsCounted`
* `ReadEvidenceStays`: `Spec => []EvidenceStays`
* `AnswersAreHonest`: `Spec => []AnswersHonest`
* `EarlyCancelsAreObeyed`: `Spec => []EarlyCancelHonoured`
* `ArchivesAreCurrent`: `Spec => ExportsCurrent`
* `DaemonImplementsSession`: `Spec => ImplementsSession`

Every step of the daemon is a step of `SingleFlight` or leaves the flight alone, so
`FlightInv`, and with it `OneFlight`, carries over.  `RuntimeInv` says of each
thread where it can be and with what (`Placed`, `Shot`).  What a thread with a
lease has read is the manifest that is there (`Current`): nobody else holds a
lease, so nobody else writes.  What a thread without one has read stays in it
(`Steady`), since writes only add captures (`Grows`) and no file of a capture goes
away.  A write is then an operation of `EvidenceSession` applied to the manifest
that is there, and every other step a stutter of it.  The client counter is the
cardinality of the threads in use, taken up and down one at a time.

`CaptureEngineProofs`, for any windows and any number of changes
(`EngineAssumption`), also if a tool never ends:

* `EngineTyped`: `Spec => []TypeOK`
* `StatusesAreHonest`: `Spec => []StatusHonest`
* `ToolsAreGone`: `Spec => []NothingLeftRunning`
* `MisattributionsAreMarked`: `Spec => []MisattributionMarked`

`StatusHonest` needs to know where a capture can be whose last tool was started
under a raised flag (`WarnedIsCut`: before the first look at the flag, or cut),
and that the runner cuts only for a reason (`CutForAReason`).
`MisattributionMarked` needs to know which window each look and the picture have
seen: one that differs from the first look's has come by a change of the desktop
(`CameBy`, in `SeenInv`), so that after a single change the last look, too, must
differ.

`ServiceClientProofs`, for any daemons, clients, command lines and number of
starts (`SocketAssumption`, `LineAssumption`):

* `CallsTyped`: `Spec => []TypeOK`
* `AloneDaemonIsReached`: `Spec => []AloneIsReached`
* `ExitStatusIsDecisive`: `Spec => []AnswersDecisive`
* `OneCaptureEach`: `Spec => []OneCapturePerCommand`
* `ConsentIsGiven`: `Spec => []AdapterNeedsConsent`

`SocketInv` strengthens `AloneIsReached` along the start of a daemon: nobody else
starts beside one that is alone (`StartIsAlone`), the name is its own from
`bind` on (`ListenerIsNamed`), and whoever starts when it is up has not got past
the probe (`ProbeHolds`).  `CallInv` says for each call where it can be
(`Placed`), what the daemon has made of it (`Served`), what the client has
printed and why (`Told`), and that a client captures for itself only without
a request at any daemon or after the socket went away (`Traced`).  The calls
need nothing of `SocketInv` but that a socket with an owner is there.

`ReviewRecordsProofs`, for any images, scales, limits and answers of an agent
(`ReviewAssumption`):

* `RecordsTyped`: `Spec => []TypeOK`, which says above all that the manifest is
  always a valid one
* `PairStaysMeasured`: `Spec => []PairIsMeasured`
* `FactsStayMeasured`: `Spec => []FactsMeasured`
* `ResponsesStayWhole`: `Spec => []WholeResponse`
* `OnlyLimitsRefuse`: `Spec => []RefusedForLimitsOnly`

`PairIsMeasured` is inductive with the facts that the pair names captures that are
there (`PairIsListed`) and that no operation changes a capture that is there.
`FactsInv` has more than `FactsMeasured`: the very list of the facts about a
capture, which a review of it replaces and one of another leaves alone.
`FindingsInv` says that each finding cites one capture and no other, from which
dropping what cites one capture takes nothing from the rest.  That nothing but
the limits refuses a manifest rests on both: the parts that an operation keeps
were valid before it, and those it adds are valid by `deterministic_findings`,
by the coordinator's checks, or by the comparison.

`ExportArchiveProofs`, for any images, lengths, block size and limits, any number
of mishaps and failures, and archives of any length.  `FormatAssumption` asks of
the paths of captures that they differ from each other and from the names of the
manifest and the checksums (`publish_capture` makes them from identifiers, under `captures/`), and
that there is one for each capture a session may have; `ArchiveAssumption`, that
no image is empty:

* `ArchiveTyped`: `Spec => []TypeOK`
* `ArchiveStaysWhole`: `Spec => []ArchiveWhole`
* `DamageIsDetected`: `Spec => []DamageDetected`
* `WholeIsExtracted`: `Spec => []ExtractsWhole`
* `ExportsSucceed`: `Spec => []ExportSucceeds`

`ArchiveStaysWhole` follows the file: what is renamed into place has been built
and verified, and is complete when it is renamed (`WholeInv`).  For
`DamageIsDetected` each block knows the file and the part its data were, and a mishap
brings in no part that is not of the two exports there are (`CopyInv`).  So does
reading the blocks, whichever they are (`ReadTyped`, `ParseTyped`): an entry that
reads as checksums is the checksum file of one export, and if every line of it
fits its entry, the entries are those of that export and no other (`SumsDecide`).
`WholeIsExtracted` needs that each entry is still left or written
(`ExtractInv`).  `ExportsSucceed` says that the reader undoes the writer: an entry is
read to its end (`ReadEntry`), entries one after the other with nothing refused
(`ReadEntries`), and the terminator (`BuiltIsRead`); what has been read passes
every check (`BuiltVerifies`), and the blocks take no more than evidence and
overhead (`BuiltTakes`).

**Lists of any length.**  The library's induction theorems take a predicate as a
parameter, which the provers cannot instantiate.  `ListLemmas` states induction
without one: a predicate is the set of the numbers or sequences that have it
(`Induct`, `SeqInduct`, from the well-foundedness of `<`), and a fold is the
function from lengths to what it has made of that many elements (`FoldExists`,
from the definitions of `FoldLeft` and `MapThenFoldSet`).  What `Retain`,
`FlattenSeq`, the reader and the sums come to follows from what one more element
adds (`RetainNext`, `FlattenNext`, `ReadNext`, `SumOfNext`).

**Only model-checked:** liveness under fairness (`FlightFreed`,
`EveryRequestAnswered`, `CaptureEnds`, `EveryCommandEnds`), which is out of this
prover's reach.  Every other property of a run that passes is a theorem.

## 5. What is not modelled

* Contents: pixels and their statistics (floating point, which TLC does not
  have), PNG and the geometry that tools print (inflating and parsing of bytes;
  every model takes their result, an image or a failure), findings' texts,
  hashes and identifiers as strings, JSON, the bytes of a tar header.
* Heights in `EvidenceContract`: they are treated like widths throughout.
* The validation of requests and envelopes, which is a filter before a handler
  (`Reject` in `SurfaceRuntime`), and an answer of the daemon that the client
  finds not to be valid.
* File modes, symbolic links and special files: every function refuses them
  before it changes anything.  `authenticate_peer`, which compares what the
  kernel says of the peer with a constant.
* The messages of the Premonition adapter (protocol, digest, size): sequences of
  checks whose failure is one step of `HandOff`; and which finding a handoff
  resolves when ids repeat.
* `probe_tools`, which runs three tools for their versions and never fails, and
  `incompatible_finding`, which nothing calls.
* More than one session: sessions share the flight and the session limit only.
* Panics of a handler: none is known that a state of the daemon can cause; one
  would keep the flight and the slot.
* The shell plugin, packaging and scripts: they start the programs.

## 6. Plan

Done: `EvidenceStore` with `EvidenceLog`; `SingleFlight`; `SurfaceRuntime` with
`EvidenceSession`; `CaptureEngine`; `RuntimeSocket` with `ServiceClient`;
`ArchiveFormat` with `ExportArchive`; `EvidenceContract` with `ReviewRecords`;
their runs, and the proofs of section 4, which state every safety property of
the runs.

To come, in order:

1. `probe_tools`, and the messages of the Premonition adapter.
2. Two sessions beside each other, and the session limit.
3. The engine's `Capture` of `CaptureEngine` inside `SurfaceRuntime`: that its
   `Engine` step is what `CaptureEngine` comes to.
