--------------------------- MODULE EvidenceStore ---------------------------
(***************************************************************************)
(* One session directory of surfacecheck-store, at the grain at which a   *)
(* failure can strike: every create, rename, directory sync, journal write *)
(* and file sync of create_session, publish_capture and replace_manifest  *)
(* is a step.  A step may be the last one (an I/O error returned by `?`,   *)
(* or a crash of the daemon, whose restart finds nothing but the files),   *)
(* and the power may fail, which also loses what was never synced.         *)
(*                                                                         *)
(* There is one writer: the daemon runs every mutating handler under the   *)
(* single-flight lease (module SurfaceRuntime).  An operation that one of  *)
(* its checks refuses changes nothing: it is a stuttering step.            *)
(*                                                                         *)
(* An image and its SHA-256 are one value, a manifest is its list of       *)
(* captures and its note, and the hash chain of the journal is the         *)
(* sequence number each line carries.                                      *)
(***************************************************************************)
EXTENDS Naturals, FiniteSets, SequencesExt

CONSTANTS
  Image,          \* what can be captured
  Note,           \* what annotate, or a note given with a capture, can write
  NoNote,         \* the note of a manifest that has none
  MaxCaptures,    \* config.max_captures
  MaxJournal,     \* MAX_JOURNAL_BYTES, counted in lines
  MaxBundle,      \* config.max_bundle_bytes
  ImageBytes,     \* the size of an image,
  EntryBytes,     \* of one capture's entry in a manifest
  LineBytes       \* and of a journal line

ASSUME StoreAssumption ==
  /\ NoNote \in Note
  /\ MaxCaptures \in Nat \ {0}
  /\ MaxJournal \in Nat
  /\ MaxBundle \in Nat
  /\ ImageBytes \in Nat
  /\ EntryBytes \in Nat
  /\ LineBytes \in Nat

VARIABLES
  layout,         \* how much of the directory create_session has made
  files,          \* the captures/<id>.png that exist
  synced,         \* those whose directory entry is on the platter
  temps,          \* captures/.tmp-<sha>, in use or left behind
  manifest,       \* manifest.json as a reader finds it
  durable,        \* manifest.json as of the last sync of its directory
  pending,        \* the versions renamed over it since
  manifestTemps,  \* .tmp-manifest-<sha>, in use or left behind
  journal,        \* the complete lines of journal.jsonl
  journalSynced,  \* how many of them the last sync of the file covered
  torn,           \* whether an unterminated line follows them
  pc,             \* what the writer does next
  goal,           \* the manifest the current operation is to publish
  acked           \* history: the captures whose publish_capture returned Ok

captureVars == <<files, synced, temps>>
manifestVars == <<manifest, durable, pending, manifestTemps>>
journalVars == <<journal, journalSynced, torn>>
vars == <<layout, captureVars, manifestVars, journalVars, pc, goal, acked>>

-----------------------------------------------------------------------------
\* Data

CaptureId == [index : 1..MaxCaptures, image : Image]
Manifest == [captures : Seq(CaptureId), note : Note]

\* A manifest that is not there reads as the empty one; one that is there
\* lists at least a capture.
NoManifest == [captures |-> <<>>, note |-> NoNote]

JournalLine == [sequence : Nat, operation : {"session", "capture", "manifest"},
                content : Manifest]

Stages == {"none", "directory", "captures", "ready"}
Earlier ==
  [none |-> {}, directory |-> {"none"}, captures |-> {"none", "directory"},
   ready |-> {"none", "directory", "captures"}]
Logging == {"log_session", "log_capture", "log_manifest"}
Steps == Logging \cup
  {"idle", "make_captures", "make_journal", "sync_session", "rename_capture",
   "sync_captures", "sync_capture", "write_manifest", "rename_manifest",
   "sync_manifest", "sync_outcome"}

\* What a power failure may leave in the place of the manifest.
OnPlatter == pending \cup {durable}

\* "capture-<n>-<sha>": the place of the capture and its image.
CaptureIdFromZero(m, image) == [index |-> Len(m.captures), image |-> image]
CaptureIdOf(m, image) == [index |-> Len(m.captures) + 1, image |-> image]

\* A note that is given replaces the one there; capture, review and select
\* may give none.
NoteAfter(m, note) == IF note = NoNote THEN m.note ELSE note

\* The manifest a capture handler builds: the one it has read, with the new
\* capture pushed at the end.
ExtendedAfresh(m, c, note) ==
  [captures |-> <<c>>, note |-> NoteAfter(m, note)]
Extended(m, c, note) ==
  [captures |-> Append(m.captures, c), note |-> NoteAfter(m, note)]

NewCapture == Last(goal.captures)

-----------------------------------------------------------------------------
\* Quotas

ManifestBytes(m) == EntryBytes * Len(m.captures)

\* session_size: every file of the directory, those no manifest lists and the
\* temporary ones too.
SessionSize ==
  ImageBytes * (Cardinality(files) + Cardinality(temps))
    + ManifestBytes(manifest) + MapThenSumSet(ManifestBytes, manifestTemps)
    + LineBytes * (Len(journal) + (IF torn THEN 1 ELSE 0))

HasRoom == Len(manifest.captures) < MaxCaptures

\* The journal can be recovered, as far as its size goes.
JournalInBound == Len(journal) <= MaxJournal

PublishFitsAlready(new) == SessionSize <= MaxBundle
PublishFits(new) ==
  SessionSize + ImageBytes + ManifestBytes(new) + 2 * LineBytes <= MaxBundle

ReplaceFits(new) ==
  SessionSize - ManifestBytes(manifest) + ManifestBytes(new) + LineBytes
    <= MaxBundle

-----------------------------------------------------------------------------
\* create_session

CreateDirectory ==
  /\ pc = "idle" /\ layout = "none"
  /\ layout' = "directory"
  /\ pc' = "make_captures"
  /\ UNCHANGED <<captureVars, manifestVars, journalVars, goal, acked>>

CreateCaptures ==
  /\ pc = "make_captures"
  /\ layout' = "captures"
  /\ pc' = "make_journal"
  /\ UNCHANGED <<captureVars, manifestVars, journalVars, goal, acked>>

CreateJournal ==
  /\ pc = "make_journal"
  /\ layout' = "ready"
  /\ pc' = "log_session"
  /\ UNCHANGED <<captureVars, manifestVars, journalVars, goal, acked>>

-----------------------------------------------------------------------------
\* publish_capture, with the part of its caller that builds the manifest

\* Every check, and the temporary file, which a reader never opens.  A session
\* without a journal file fails in recover_journal.
BeginPublish(image, note) ==
  LET id == CaptureIdOf(manifest, image)
      new == Extended(manifest, id, note)
  IN /\ pc = "idle" /\ layout = "ready"
     /\ HasRoom
     /\ id \notin files
     /\ JournalInBound
     /\ PublishFits(new)
     /\ image \notin temps
     /\ goal' = new
     /\ temps' = temps \cup {image}
     /\ pc' = "rename_capture"
     /\ UNCHANGED <<layout, files, synced, manifestVars, journalVars, acked>>

RenameCapture ==
  /\ pc = "rename_capture"
  /\ files' = files \cup {NewCapture}
  /\ temps' = temps \ {NewCapture.image}
  /\ pc' = "sync_captures"
  /\ UNCHANGED <<layout, synced, manifestVars, journalVars, goal, acked>>

SyncCapturesNever ==
  /\ pc = "sync_captures"
  /\ pc' = "log_capture"
  /\ UNCHANGED <<layout, captureVars, manifestVars, journalVars, goal, acked>>

SyncCapturesUnlogged ==
  /\ pc = "sync_captures"
  /\ synced' = files
  /\ pc' = "write_manifest"
  /\ UNCHANGED <<layout, files, temps, manifestVars, journalVars, goal, acked>>

\* sync_directory(captures): all the entries of the directory.
SyncCaptures ==
  /\ pc = "sync_captures"
  /\ synced' = files
  /\ pc' = "log_capture"
  /\ UNCHANGED <<layout, files, temps, manifestVars, journalVars, goal, acked>>

-----------------------------------------------------------------------------
\* append_journal

\* A torn tail is cut off, and the file synced, before the line is written.
TruncateTail ==
  /\ pc \in Logging
  /\ JournalInBound
  /\ torn
  /\ torn' = FALSE
  /\ journalSynced' = Len(journal)
  /\ UNCHANGED <<layout, captureVars, manifestVars, journal, pc, goal, acked>>

LineToLog ==
  [sequence |-> Len(journal) + 1,
   operation |-> CASE pc = "log_session" -> "session"
                   [] pc = "log_capture" -> "capture"
                   [] pc = "log_manifest" -> "manifest",
   content |-> CASE pc = "log_session" -> NoManifest
                 [] pc = "log_capture" -> [captures |-> <<NewCapture>>, note |-> NoNote]
                 [] pc = "log_manifest" -> goal]

\* The line runs on from a torn tail: it will not parse.
WriteLineAfterTail ==
  /\ pc \in Logging
  /\ JournalInBound
  /\ journal' = Append(journal, IF torn THEN [LineToLog EXCEPT !.sequence = 0]
                                ELSE LineToLog)
  /\ torn' = FALSE
  /\ pc' = CASE pc = "log_session" -> "sync_session"
             [] pc = "log_capture" -> "sync_capture"
             [] pc = "log_manifest" -> "sync_outcome"
  /\ UNCHANGED <<layout, captureVars, manifestVars, journalSynced, goal, acked>>

WriteLine ==
  /\ pc \in Logging
  /\ JournalInBound
  /\ ~torn
  /\ journal' = Append(journal, LineToLog)
  /\ pc' = CASE pc = "log_session" -> "sync_session"
             [] pc = "log_capture" -> "sync_capture"
             [] pc = "log_manifest" -> "sync_outcome"
  /\ UNCHANGED <<layout, captureVars, manifestVars, journalSynced, torn, goal,
                 acked>>

\* The line is durable: create_session and the operation on the manifest end
\* here, a capture goes on to its manifest.
SyncJournal ==
  /\ pc \in {"sync_session", "sync_capture", "sync_outcome"}
  /\ journalSynced' = Len(journal)
  /\ pc' = IF pc = "sync_capture" THEN "write_manifest" ELSE "idle"
  /\ IF pc = "sync_outcome"
     THEN acked' = acked \cup ToSet(goal.captures) /\ goal' = NoManifest
     ELSE UNCHANGED <<acked, goal>>
  /\ UNCHANGED <<layout, captureVars, manifestVars, journal, torn>>

-----------------------------------------------------------------------------
\* atomic_replace of the manifest: the end of publish_capture, and all of
\* replace_manifest, whose callers only change what they read in place.

WriteManifest ==
  /\ pc = "write_manifest"
  /\ manifestTemps' = manifestTemps \cup {goal}
  /\ pc' = "rename_manifest"
  /\ UNCHANGED <<layout, captureVars, manifest, durable, pending, journalVars,
                 goal, acked>>

BeginReplace(note) ==
  LET new == [manifest EXCEPT !.note = NoteAfter(manifest, note)]
  IN /\ pc = "idle" /\ layout = "ready"
     /\ manifest # NoManifest
     /\ JournalInBound
     /\ ReplaceFits(new)
     /\ goal' = new
     /\ manifestTemps' = manifestTemps \cup {new}
     /\ pc' = "rename_manifest"
     /\ UNCHANGED <<layout, captureVars, manifest, durable, pending,
                    journalVars, acked>>

RenameManifest ==
  /\ pc = "rename_manifest"
  /\ manifest' = goal
  /\ pending' = pending \cup {goal}
  /\ manifestTemps' = manifestTemps \ {goal}
  /\ pc' = "sync_manifest"
  /\ UNCHANGED <<layout, captureVars, durable, journalVars, goal, acked>>

SyncManifestNever ==
  /\ pc = "sync_manifest"
  /\ pc' = "log_manifest"
  /\ UNCHANGED <<layout, captureVars, manifestVars, journalVars, goal, acked>>

SyncManifest ==
  /\ pc = "sync_manifest"
  /\ durable' = manifest
  /\ pending' = {}
  /\ pc' = "log_manifest"
  /\ UNCHANGED <<layout, captureVars, manifest, manifestTemps, journalVars,
                 goal, acked>>

-----------------------------------------------------------------------------
\* Failures

\* An I/O error, or a crash and a restart: the steps done stay done.  An
\* append may have put out a part of its line, or cut off a torn one.
Interrupt ==
  /\ pc # "idle"
  /\ pc' = "idle"
  /\ goal' = NoManifest
  /\ torn' \in IF pc \in Logging /\ JournalInBound THEN BOOLEAN ELSE {torn}
  /\ UNCHANGED <<layout, captureVars, manifestVars, journal, journalSynced, acked>>

\* Directory entries and journal lines that were not synced may be there or
\* not after a power failure; what is there then is on the platter.
PowerFailure ==
  /\ pc' = "idle"
  /\ goal' = NoManifest
  /\ files' \in {kept \in SUBSET files : synced \subseteq kept}
  /\ synced' = files'
  /\ temps' \in {temps, {}}
  /\ manifest' \in OnPlatter
  /\ durable' = manifest'
  /\ pending' = {}
  /\ manifestTemps' \in {manifestTemps, {}}
  /\ \E kept \in journalSynced..Len(journal) :
       /\ journal' = SubSeq(journal, 1, kept)
       /\ journalSynced' = kept
       /\ torn' \in {FALSE, torn \/ kept < Len(journal)}
  /\ UNCHANGED <<layout, acked>>

\* create_session syncs none of its directories.  Until a line of the journal
\* is durable, a power failure may leave any earlier stage of the session, and
\* what was in a directory that is gone is gone with it; there is no manifest
\* yet.  The first sync of the journal is taken to make the way to the file
\* durable with the file.
LoseSession ==
  /\ journalSynced = 0
  /\ layout' \in Earlier[layout]
  /\ files' \in {kept \in SUBSET files :
                 IF layout' = "captures" THEN synced \subseteq kept ELSE kept = {}}
  /\ synced' = files'
  /\ temps' \in {kept \in {temps, {}} : layout' # "captures" => kept = {}}
  /\ journal' = <<>> /\ torn' = FALSE
  /\ pc' = "idle"
  /\ goal' = NoManifest
  /\ UNCHANGED <<manifestVars, journalSynced, acked>>

-----------------------------------------------------------------------------

Init ==
  /\ layout = "none"
  /\ files = {} /\ synced = {} /\ temps = {}
  /\ manifest = NoManifest /\ durable = NoManifest
  /\ pending = {} /\ manifestTemps = {}
  /\ journal = <<>> /\ journalSynced = 0 /\ torn = FALSE
  /\ pc = "idle" /\ goal = NoManifest
  /\ acked = {}

Next ==
  \/ CreateDirectory \/ CreateCaptures \/ CreateJournal
  \/ \E image \in Image, note \in Note : BeginPublish(image, note)
  \/ RenameCapture \/ SyncCaptures
  \/ TruncateTail \/ WriteLine \/ SyncJournal
  \/ WriteManifest
  \/ \E note \in Note : BeginReplace(note)
  \/ RenameManifest \/ SyncManifest
  \/ Interrupt \/ PowerFailure \/ LoseSession

Spec == Init /\ [][Next]_vars

-----------------------------------------------------------------------------
\* Properties

\* Every variable stays in its range; in particular a session never lists
\* more captures than max_captures, so no index runs past it.
TypeOK ==
  /\ layout \in Stages
  /\ files \subseteq CaptureId
  /\ synced \subseteq files
  /\ temps \subseteq Image
  /\ manifest \in Manifest
  /\ durable \in Manifest
  /\ pending \subseteq Manifest
  /\ manifestTemps \subseteq Manifest
  /\ journal \in Seq(JournalLine)
  /\ journalSynced \in 0..Len(journal)
  /\ torn \in BOOLEAN
  /\ pc \in Steps
  /\ goal \in Manifest
  /\ acked \subseteq CaptureId

\* A manifest that anything may bring up, an unlocked reader, a restart or a
\* power failure, lists only captures whose file is there and stays there:
\* publish_capture makes the image durable before it names it.
EvidenceBacked ==
  \A m \in OnPlatter \cup {manifest} : ToSet(m.captures) \subseteq synced

\* Whatever manifest comes up, the durable part of the journal holds a line
\* for each capture it lists: the recovery journal never lacks an image that
\* can be seen.
ListedIsJournalled ==
  \A m \in OnPlatter \cup {manifest} : \A i \in DOMAIN m.captures :
    \E j \in 1..journalSynced :
      /\ journal[j].operation = "capture"
      /\ journal[j].content.captures = <<m.captures[i]>>

\* recover_journal never meets a complete line it must refuse, whatever tail a
\* failure left and whatever was appended after it: the sequence numbers run
\* from 1 without a gap.
JournalRecovers == \A j \in 1..Len(journal) : journal[j].sequence = j

\* A capture whose publication was answered with success survives every later
\* error, crash, restart and power failure.
AckedSurvives ==
  \A m \in OnPlatter \cup {manifest} : acked \subseteq ToSet(m.captures)

\* The session directory keeps to its quota, but for one manifest: that is
\* what replace_manifest writes beside the old one, and what a crash there
\* leaves behind.  The line of create_session is written whatever the quota.
BundleBounded ==
  \E limit \in {MaxBundle, LineBytes} : SessionSize <= limit + ManifestBytes(manifest)

\* The store is an append-only list of captures in which a failure takes back
\* only what was not durable, from the end.
Log == INSTANCE EvidenceLog WITH
         Capture <- CaptureId,
         log <- manifest.captures,
         committed <- Len(durable.captures)
ImplementsLog == Log!LogSpec

\* What the architecture record promises of the journal, that it records the
\* outcome of operations for crash recovery: between operations, its last
\* line on a manifest is about the manifest that is there.
OutcomeRecorded ==
  pc = "idle" /\ manifest # NoManifest =>
    LET lines == {j \in 1..Len(journal) : journal[j].operation = "manifest"}
    IN \E j \in lines : /\ \A k \in lines : k <= j
                        /\ journal[j].content = manifest

============================================================================
