------------------------ MODULE EvidenceStoreProofs ------------------------
(***************************************************************************)
(* The evidence store for any images, notes and limits: every manifest     *)
(* that can come up names only durable captures, what was acknowledged is  *)
(* in each of them, and the journal can always be read back.               *)
(* The journal of one run only grows, and a session stays within its       *)
(* quota by no more than the manifest that is being replaced.              *)
(*                                                                         *)
(* None of it is inductive as it stands: what the writer is about to       *)
(* publish has to be related to what is there (WriterInv), step by step of *)
(* the operation.  A failure at any step leaves the writer idle, where     *)
(* nothing is about to be published and WriterInv asks nothing.            *)
(***************************************************************************)
EXTENDS EvidenceStore, ListLemmas

Publishing ==
  {"rename_capture", "sync_captures", "log_capture", "sync_capture",
   "write_manifest"}

\* The capture is on the platter, and the manifest not yet there.
Naming == {"log_capture", "sync_capture", "write_manifest", "rename_manifest"}

WriterInv ==
  /\ pc \in Publishing => goal.captures # <<>>
  /\ pc \in Publishing \cup {"rename_manifest"} =>
       ToSet(manifest.captures) \subseteq ToSet(goal.captures)
  /\ pc \in {"rename_capture", "sync_captures"} =>
       ToSet(goal.captures) \subseteq synced \cup {NewCapture}
  /\ pc = "sync_captures" => NewCapture \in files
  /\ pc \in Naming => ToSet(goal.captures) \subseteq synced
  /\ pc \in {"sync_manifest", "log_manifest", "sync_outcome"} => goal = manifest
  /\ pc \in {"log_manifest", "sync_outcome"} => durable = goal /\ pending = {}

StoreInv ==
  /\ TypeOK
  /\ WriterInv
  /\ EvidenceBacked
  /\ AckedSurvives
  /\ JournalRecovers

\* Until a line of the journal is durable, no manifest is written.
UnlistedInv ==
  /\ pc = "sync_capture" => Len(journal) # 0
  /\ journalSynced = 0 =>
       /\ manifest = NoManifest /\ durable = NoManifest
       /\ pending = {} /\ manifestTemps = {}
       /\ pc \notin {"write_manifest", "rename_manifest", "sync_manifest",
                     "log_manifest", "sync_outcome"}

SessionInv == StoreInv /\ UnlistedInv

-----------------------------------------------------------------------------
\* Facts about the data

LEMMA NoManifestType ==
  /\ NoManifest \in Manifest
  /\ NoManifest.captures = <<>>
  /\ ToSet(NoManifest.captures) = {}
<1>1. NoManifest \in Manifest
  BY StoreAssumption DEF NoManifest, Manifest
<1>2. NoManifest.captures = <<>>
  BY DEF NoManifest
<1>3. ToSet(<<>>) = {}
  BY DEF ToSet
<1> QED
  BY <1>1, <1>2, <1>3

LEMMA ToSetAppend ==
  ASSUME NEW S, NEW s \in Seq(S), NEW c \in S
  PROVE  /\ Append(s, c) \in Seq(S)
         /\ Append(s, c) # <<>>
         /\ Last(Append(s, c)) = c
         /\ ToSet(Append(s, c)) = ToSet(s) \cup {c}
<1>1. /\ Append(s, c) \in Seq(S)
      /\ Len(Append(s, c)) = Len(s) + 1
      /\ Append(s, c)[Len(s) + 1] = c
      /\ \A i \in 1..Len(s) : Append(s, c)[i] = s[i]
  OBVIOUS
<1>2. Append(s, c) # <<>>
  BY <1>1
<1>3. Last(Append(s, c)) = c
  BY <1>1 DEF Last
<1>4. ToSet(Append(s, c)) = ToSet(s) \cup {c}
  BY <1>1 DEF ToSet
<1> QED
  BY <1>1, <1>2, <1>3, <1>4

\* The manifest a capture is added to keeps its captures.
LEMMA ExtendedType ==
  ASSUME NEW m \in Manifest, NEW c \in CaptureId, NEW note \in Note
  PROVE  /\ Extended(m, c, note) \in Manifest
         /\ Extended(m, c, note).captures # <<>>
         /\ Last(Extended(m, c, note).captures) = c
         /\ ToSet(Extended(m, c, note).captures) = ToSet(m.captures) \cup {c}
<1>1. m.captures \in Seq(CaptureId)
  BY DEF Manifest
<1>2. Extended(m, c, note).captures = Append(m.captures, c)
  BY DEF Extended
<1>3. /\ Append(m.captures, c) \in Seq(CaptureId)
      /\ Append(m.captures, c) # <<>>
      /\ Last(Append(m.captures, c)) = c
      /\ ToSet(Append(m.captures, c)) = ToSet(m.captures) \cup {c}
  BY <1>1, ToSetAppend
<1>4. Extended(m, c, note) \in Manifest
  BY <1>3 DEF Extended, NoteAfter, Manifest
<1> QED
  BY <1>2, <1>3, <1>4

LEMMA NewCaptureType ==
  ASSUME TypeOK, goal.captures # <<>>
  PROVE  NewCapture \in CaptureId /\ NewCapture.image \in Image
<1>1. goal.captures \in Seq(CaptureId)
  BY DEF TypeOK, Manifest
<1>2. Len(goal.captures) \in DOMAIN goal.captures
  BY <1>1
<1>3. NewCapture \in CaptureId
  BY <1>1, <1>2 DEF NewCapture, Last
<1> QED
  BY <1>3 DEF CaptureId

-----------------------------------------------------------------------------
\* The initial state, and the steps of create_session

LEMMA StoreInitially == Init => StoreInv
<1> SUFFICES ASSUME Init PROVE StoreInv
  OBVIOUS
<1>1. NoManifest \in Manifest /\ ToSet(NoManifest.captures) = {}
  BY NoManifestType
<1>2. TypeOK
  <2>1. journal \in Seq(JournalLine) /\ journalSynced \in 0..Len(journal)
    BY DEF Init
  <2>2. layout \in Stages /\ pc \in Steps /\ torn \in BOOLEAN
    BY DEF Init, Stages, Steps
  <2> QED
    BY <1>1, <2>1, <2>2 DEF Init, TypeOK
<1>3. WriterInv
  BY DEF Init, WriterInv, Publishing, Naming
<1>4. EvidenceBacked /\ AckedSurvives
  BY <1>1 DEF Init, EvidenceBacked, AckedSurvives, OnPlatter
<1>5. JournalRecovers
  BY DEF Init, JournalRecovers
<1> QED
  BY <1>2, <1>3, <1>4, <1>5 DEF StoreInv

LEMMA CreateKeeps ==
  ASSUME StoreInv, CreateDirectory \/ CreateCaptures \/ CreateJournal
  PROVE  StoreInv'
<1> USE DEF CreateDirectory, CreateCaptures, CreateJournal, captureVars,
            manifestVars, journalVars
<1>1. UNCHANGED <<files, synced, temps, manifest, durable, pending,
                  manifestTemps, journal, journalSynced, torn, goal, acked>>
  OBVIOUS
<1>2. layout' \in Stages /\ pc' \in {"make_captures", "make_journal", "log_session"}
  BY DEF Stages
<1>3. TypeOK'
  BY <1>1, <1>2 DEF StoreInv, TypeOK, Steps, Logging
<1>4. WriterInv'
  BY <1>2 DEF WriterInv, Publishing, Naming
<1>5. EvidenceBacked' /\ AckedSurvives' /\ JournalRecovers'
  BY <1>1 DEF StoreInv, EvidenceBacked, AckedSurvives, JournalRecovers, OnPlatter
<1> QED
  BY <1>3, <1>4, <1>5 DEF StoreInv

-----------------------------------------------------------------------------
\* The steps of publish_capture

LEMMA BeginPublishKeeps ==
  ASSUME StoreInv, NEW image \in Image, NEW note \in Note,
         BeginPublish(image, note)
  PROVE  StoreInv'
<1> DEFINE id == CaptureIdOf(manifest, image)
           new == Extended(manifest, id, note)
<1>1. TypeOK /\ EvidenceBacked /\ AckedSurvives /\ JournalRecovers
  BY DEF StoreInv
<1>2. /\ HasRoom
      /\ goal' = new
      /\ temps' = temps \cup {image}
      /\ pc' = "rename_capture"
      /\ UNCHANGED <<layout, files, synced, manifest, durable, pending,
                     manifestTemps, journal, journalSynced, torn, acked>>
  BY DEF BeginPublish, manifestVars, journalVars
<1>3. id \in CaptureId
  <2>1. manifest.captures \in Seq(CaptureId)
    BY <1>1 DEF TypeOK, Manifest
  <2>2. Len(manifest.captures) + 1 \in 1..MaxCaptures
    BY <1>2, <2>1, StoreAssumption DEF HasRoom
  <2> QED
    BY <2>2 DEF CaptureIdOf, CaptureId
<1>4. manifest \in Manifest
  BY <1>1 DEF TypeOK
<1> HIDE DEF id
<1>5. /\ new \in Manifest /\ new.captures # <<>>
      /\ Last(new.captures) = id
      /\ ToSet(new.captures) = ToSet(manifest.captures) \cup {id}
  BY <1>3, <1>4, ExtendedType
<1>6. ToSet(manifest.captures) \subseteq synced
  BY <1>1 DEF EvidenceBacked
<1> HIDE DEF new
<1>7. TypeOK'
  BY <1>1, <1>2, <1>5 DEF TypeOK, Steps
<1>8. WriterInv'
  <2>1. NewCapture' = id
    BY <1>2, <1>5 DEF NewCapture
  <2> QED
    BY <1>2, <1>5, <1>6, <2>1 DEF WriterInv, Publishing, Naming
<1>9. EvidenceBacked' /\ AckedSurvives' /\ JournalRecovers'
  BY <1>1, <1>2 DEF EvidenceBacked, AckedSurvives, JournalRecovers, OnPlatter
<1> QED
  BY <1>7, <1>8, <1>9 DEF StoreInv

LEMMA RenameCaptureKeeps ==
  ASSUME StoreInv, RenameCapture
  PROVE  StoreInv'
<1>1. /\ TypeOK /\ WriterInv /\ EvidenceBacked /\ AckedSurvives
      /\ JournalRecovers
  BY DEF StoreInv
<1>2. /\ pc = "rename_capture"
      /\ files' = files \cup {NewCapture}
      /\ temps' = temps \ {NewCapture.image}
      /\ pc' = "sync_captures"
      /\ UNCHANGED <<layout, synced, manifest, durable, pending, manifestTemps,
                     journal, journalSynced, torn, goal, acked>>
  BY DEF RenameCapture, manifestVars, journalVars
<1>3. goal.captures # <<>>
  BY <1>1, <1>2 DEF WriterInv, Publishing
<1>4. NewCapture \in CaptureId
  BY <1>1, <1>3, NewCaptureType
<1>5. NewCapture' = NewCapture
  BY <1>2 DEF NewCapture
<1>6. TypeOK'
  BY <1>1, <1>2, <1>4 DEF TypeOK, Steps
<1>7. WriterInv'
  BY <1>1, <1>2, <1>5 DEF WriterInv, Publishing, Naming
<1>8. EvidenceBacked' /\ AckedSurvives' /\ JournalRecovers'
  BY <1>1, <1>2 DEF EvidenceBacked, AckedSurvives, JournalRecovers, OnPlatter
<1> QED
  BY <1>6, <1>7, <1>8 DEF StoreInv

\* Here the capture becomes durable, before anything names it.
LEMMA SyncCapturesKeeps ==
  ASSUME StoreInv, SyncCaptures
  PROVE  StoreInv'
<1>1. /\ TypeOK /\ WriterInv /\ EvidenceBacked /\ AckedSurvives
      /\ JournalRecovers
  BY DEF StoreInv
<1>2. /\ pc = "sync_captures"
      /\ synced' = files
      /\ pc' = "log_capture"
      /\ UNCHANGED <<layout, files, temps, manifest, durable, pending,
                     manifestTemps, journal, journalSynced, torn, goal, acked>>
  BY DEF SyncCaptures, manifestVars, journalVars
<1>3. synced \subseteq files
  BY <1>1 DEF TypeOK
<1>4. TypeOK'
  BY <1>1, <1>2 DEF TypeOK, Steps, Logging
<1>5. WriterInv'
  <2>1. ToSet(goal.captures) \subseteq files
    BY <1>1, <1>2, <1>3 DEF WriterInv
  <2> QED
    BY <1>1, <1>2, <2>1 DEF WriterInv, Publishing, Naming
<1>6. EvidenceBacked'
  BY <1>1, <1>2, <1>3 DEF EvidenceBacked, OnPlatter
<1>7. AckedSurvives' /\ JournalRecovers'
  BY <1>1, <1>2 DEF AckedSurvives, JournalRecovers, OnPlatter
<1> QED
  BY <1>4, <1>5, <1>6, <1>7 DEF StoreInv

-----------------------------------------------------------------------------
\* The steps of append_journal

LEMMA TruncateTailKeeps ==
  ASSUME StoreInv, TruncateTail
  PROVE  StoreInv'
<1>1. /\ torn' = FALSE
      /\ journalSynced' = Len(journal)
      /\ UNCHANGED <<layout, files, synced, temps, manifest, durable, pending,
                     manifestTemps, journal, pc, goal, acked>>
  BY DEF TruncateTail, captureVars, manifestVars
<1>2. Len(journal) \in Nat
  BY DEF StoreInv, TypeOK
<1>3. TypeOK'
  <2>1. journalSynced' \in 0..Len(journal')
    BY <1>1, <1>2
  <2>2. torn' \in BOOLEAN
    BY <1>1
  <2>3. /\ layout' \in Stages /\ files' \subseteq CaptureId
        /\ synced' \subseteq files' /\ temps' \subseteq Image
        /\ manifest' \in Manifest /\ durable' \in Manifest
        /\ pending' \subseteq Manifest /\ manifestTemps' \subseteq Manifest
        /\ journal' \in Seq(JournalLine) /\ pc' \in Steps
        /\ goal' \in Manifest /\ acked' \subseteq CaptureId
    BY <1>1 DEF StoreInv, TypeOK
  <2> QED
    BY <2>1, <2>2, <2>3 DEF TypeOK
<1>4. WriterInv'
  BY <1>1 DEF StoreInv, WriterInv, NewCapture
<1>5. EvidenceBacked' /\ AckedSurvives' /\ JournalRecovers'
  BY <1>1 DEF StoreInv, EvidenceBacked, AckedSurvives, JournalRecovers, OnPlatter
<1> QED
  BY <1>3, <1>4, <1>5 DEF StoreInv

\* What is written next carries the next sequence number.
LEMMA LineToLogType ==
  ASSUME TypeOK, WriterInv, pc \in Logging
  PROVE  LineToLog \in JournalLine /\ LineToLog.sequence = Len(journal) + 1
<1>1. Len(journal) \in Nat /\ goal \in Manifest
  BY DEF TypeOK
<1>2. CASE pc = "log_session"
  <2>1. LineToLog = [sequence |-> Len(journal) + 1, operation |-> "session",
                     content |-> NoManifest]
    BY <1>2 DEF LineToLog
  <2> QED
    BY <1>1, <2>1, NoManifestType DEF JournalLine
<1>3. CASE pc = "log_capture"
  <2>1. goal.captures # <<>>
    BY <1>3 DEF WriterInv, Publishing
  <2>2. NewCapture \in CaptureId
    BY <2>1, NewCaptureType
  <2>3. [captures |-> <<NewCapture>>, note |-> NoNote] \in Manifest
    BY <2>2, StoreAssumption DEF Manifest
  <2>4. LineToLog = [sequence |-> Len(journal) + 1, operation |-> "capture",
                     content |-> [captures |-> <<NewCapture>>, note |-> NoNote]]
    BY <1>3 DEF LineToLog
  <2> QED
    BY <1>1, <2>3, <2>4 DEF JournalLine
<1>4. CASE pc = "log_manifest"
  <2>1. LineToLog = [sequence |-> Len(journal) + 1, operation |-> "manifest",
                     content |-> goal]
    BY <1>4 DEF LineToLog
  <2> QED
    BY <1>1, <2>1 DEF JournalLine
<1> QED
  BY <1>2, <1>3, <1>4 DEF Logging

LEMMA WriteLineKeeps ==
  ASSUME StoreInv, WriteLine
  PROVE  StoreInv'
<1>1. /\ TypeOK /\ WriterInv /\ EvidenceBacked /\ AckedSurvives
      /\ JournalRecovers
  BY DEF StoreInv
<1>2. /\ pc \in Logging
      /\ journal' = Append(journal, LineToLog)
      /\ UNCHANGED <<layout, files, synced, temps, manifest, durable, pending,
                     manifestTemps, journalSynced, torn, goal, acked>>
  BY DEF WriteLine, captureVars, manifestVars
<1>3. \/ pc = "log_session" /\ pc' = "sync_session"
      \/ pc = "log_capture" /\ pc' = "sync_capture"
      \/ pc = "log_manifest" /\ pc' = "sync_outcome"
  BY DEF WriteLine, Logging
<1>4. LineToLog \in JournalLine /\ LineToLog.sequence = Len(journal) + 1
  BY <1>1, <1>2, LineToLogType
<1> DEFINE line == LineToLog
<1> HIDE DEF line
<1>5. /\ journal \in Seq(JournalLine) /\ line \in JournalLine
      /\ journal' = Append(journal, line)
      /\ line.sequence = Len(journal) + 1
  BY <1>1, <1>2, <1>4 DEF TypeOK, line
<1>6. /\ journal' \in Seq(JournalLine)
      /\ Len(journal') = Len(journal) + 1
      /\ journal'[Len(journal) + 1] = line
      /\ \A i \in 1..Len(journal) : journal'[i] = journal[i]
  BY <1>5
<1>7. TypeOK'
  <2>1. journalSynced' \in 0..Len(journal')
    BY <1>1, <1>2, <1>5, <1>6 DEF TypeOK
  <2>2. pc' \in Steps
    BY <1>3 DEF Steps
  <2> QED
    BY <1>1, <1>2, <1>6, <2>1, <2>2 DEF TypeOK
<1>8. WriterInv'
  BY <1>1, <1>2, <1>3 DEF WriterInv, Publishing, Naming, NewCapture
<1>9. EvidenceBacked' /\ AckedSurvives'
  BY <1>1, <1>2 DEF EvidenceBacked, AckedSurvives, OnPlatter
<1>10. JournalRecovers'
  BY <1>1, <1>5, <1>6 DEF JournalRecovers
<1> QED
  BY <1>7, <1>8, <1>9, <1>10 DEF StoreInv

LEMMA SyncJournalKeeps ==
  ASSUME StoreInv, SyncJournal
  PROVE  StoreInv'
<1>1. /\ TypeOK /\ WriterInv /\ EvidenceBacked /\ AckedSurvives
      /\ JournalRecovers
  BY DEF StoreInv
<1>2. /\ journalSynced' = Len(journal)
      /\ UNCHANGED <<layout, files, synced, temps, manifest, durable, pending,
                     manifestTemps, journal, torn>>
  BY DEF SyncJournal, captureVars, manifestVars
<1>3. Len(journal) \in Nat /\ NoManifest \in Manifest
  BY <1>1, NoManifestType DEF TypeOK
<1>4. CASE pc = "sync_outcome"
  <2>1. /\ acked' = acked \cup ToSet(goal.captures)
        /\ goal' = NoManifest /\ pc' = "idle"
    BY <1>4 DEF SyncJournal
  <2>2. manifest = goal /\ durable = goal /\ pending = {}
    BY <1>1, <1>4 DEF WriterInv
  <2>3. ToSet(goal.captures) \subseteq CaptureId
    BY <1>1, <2>2 DEF TypeOK, EvidenceBacked
  <2>4. TypeOK'
    BY <1>1, <1>2, <1>3, <2>1, <2>3 DEF TypeOK, Steps
  <2>5. WriterInv'
    BY <2>1 DEF WriterInv, Publishing, Naming
  <2>6. AckedSurvives'
    BY <1>1, <1>2, <2>1, <2>2 DEF AckedSurvives, OnPlatter
  <2>7. EvidenceBacked' /\ JournalRecovers'
    BY <1>1, <1>2 DEF EvidenceBacked, JournalRecovers, OnPlatter
  <2> QED
    BY <2>4, <2>5, <2>6, <2>7 DEF StoreInv
<1>5. CASE pc # "sync_outcome"
  <2>1. /\ UNCHANGED <<acked, goal>>
        /\ \/ pc = "sync_session" /\ pc' = "idle"
           \/ pc = "sync_capture" /\ pc' = "write_manifest"
    BY <1>5 DEF SyncJournal
  <2>2. TypeOK'
    BY <1>1, <1>2, <1>3, <2>1 DEF TypeOK, Steps
  <2>3. WriterInv'
    BY <1>1, <1>2, <2>1 DEF WriterInv, Publishing, Naming, NewCapture
  <2>4. EvidenceBacked' /\ AckedSurvives' /\ JournalRecovers'
    BY <1>1, <1>2, <2>1
       DEF EvidenceBacked, AckedSurvives, JournalRecovers, OnPlatter
  <2> QED
    BY <2>2, <2>3, <2>4 DEF StoreInv
<1> QED
  BY <1>4, <1>5

-----------------------------------------------------------------------------
\* The steps of atomic_replace

LEMMA WriteManifestKeeps ==
  ASSUME StoreInv, WriteManifest
  PROVE  StoreInv'
<1>1. /\ TypeOK /\ WriterInv /\ EvidenceBacked /\ AckedSurvives
      /\ JournalRecovers
  BY DEF StoreInv
<1>2. /\ pc = "write_manifest" /\ pc' = "rename_manifest"
      /\ manifestTemps' = manifestTemps \cup {goal}
      /\ UNCHANGED <<layout, files, synced, temps, manifest, durable, pending,
                     journal, journalSynced, torn, goal, acked>>
  BY DEF WriteManifest, captureVars, journalVars
<1>3. TypeOK'
  BY <1>1, <1>2 DEF TypeOK, Steps
<1>4. WriterInv'
  BY <1>1, <1>2 DEF WriterInv, Publishing, Naming, NewCapture
<1>5. EvidenceBacked' /\ AckedSurvives' /\ JournalRecovers'
  BY <1>1, <1>2 DEF EvidenceBacked, AckedSurvives, JournalRecovers, OnPlatter
<1> QED
  BY <1>3, <1>4, <1>5 DEF StoreInv

LEMMA BeginReplaceKeeps ==
  ASSUME StoreInv, NEW note \in Note, BeginReplace(note)
  PROVE  StoreInv'
<1> DEFINE new == [manifest EXCEPT !.note = NoteAfter(manifest, note)]
<1>1. /\ TypeOK /\ WriterInv /\ EvidenceBacked /\ AckedSurvives
      /\ JournalRecovers
  BY DEF StoreInv
<1>2. /\ pc' = "rename_manifest"
      /\ goal' = new
      /\ manifestTemps' = manifestTemps \cup {new}
      /\ UNCHANGED <<layout, files, synced, temps, manifest, durable, pending,
                     journal, journalSynced, torn, acked>>
  BY DEF BeginReplace, captureVars, journalVars
<1>3. new \in Manifest /\ new.captures = manifest.captures
  BY <1>1 DEF TypeOK, Manifest, NoteAfter
<1> HIDE DEF new
<1>4. TypeOK'
  BY <1>1, <1>2, <1>3 DEF TypeOK, Steps
<1>5. WriterInv'
  <2>1. ToSet(manifest.captures) \subseteq synced
    BY <1>1 DEF EvidenceBacked
  <2> QED
    BY <1>2, <1>3, <2>1 DEF WriterInv, Publishing, Naming
<1>6. EvidenceBacked' /\ AckedSurvives' /\ JournalRecovers'
  BY <1>1, <1>2 DEF EvidenceBacked, AckedSurvives, JournalRecovers, OnPlatter
<1> QED
  BY <1>4, <1>5, <1>6 DEF StoreInv

\* Here the captures are named: they have been durable for a while.
LEMMA RenameManifestKeeps ==
  ASSUME StoreInv, RenameManifest
  PROVE  StoreInv'
<1>1. /\ TypeOK /\ WriterInv /\ EvidenceBacked /\ AckedSurvives
      /\ JournalRecovers
  BY DEF StoreInv
<1>2. /\ pc = "rename_manifest" /\ pc' = "sync_manifest"
      /\ manifest' = goal
      /\ pending' = pending \cup {goal}
      /\ manifestTemps' = manifestTemps \ {goal}
      /\ UNCHANGED <<layout, files, synced, temps, durable, journal,
                     journalSynced, torn, goal, acked>>
  BY DEF RenameManifest, captureVars, journalVars
<1>3. /\ ToSet(manifest.captures) \subseteq ToSet(goal.captures)
      /\ ToSet(goal.captures) \subseteq synced
  BY <1>1, <1>2 DEF WriterInv, Naming
<1>4. TypeOK'
  BY <1>1, <1>2 DEF TypeOK, Steps
<1>5. WriterInv'
  BY <1>2 DEF WriterInv, Publishing, Naming
<1>6. EvidenceBacked'
  BY <1>1, <1>2, <1>3 DEF EvidenceBacked, OnPlatter
<1>7. AckedSurvives'
  <2>1. acked \subseteq ToSet(goal.captures)
    BY <1>1, <1>3 DEF AckedSurvives
  <2> QED
    BY <1>1, <1>2, <2>1 DEF AckedSurvives, OnPlatter
<1>8. JournalRecovers'
  BY <1>1, <1>2 DEF JournalRecovers
<1> QED
  BY <1>4, <1>5, <1>6, <1>7, <1>8 DEF StoreInv

LEMMA SyncManifestKeeps ==
  ASSUME StoreInv, SyncManifest
  PROVE  StoreInv'
<1>1. /\ TypeOK /\ WriterInv /\ EvidenceBacked /\ AckedSurvives
      /\ JournalRecovers
  BY DEF StoreInv
<1>2. /\ pc = "sync_manifest" /\ pc' = "log_manifest"
      /\ durable' = manifest
      /\ pending' = {}
      /\ UNCHANGED <<layout, files, synced, temps, manifest, manifestTemps,
                     journal, journalSynced, torn, goal, acked>>
  BY DEF SyncManifest, captureVars, journalVars
<1>3. TypeOK'
  BY <1>1, <1>2 DEF TypeOK, Steps, Logging
<1>4. WriterInv'
  BY <1>1, <1>2 DEF WriterInv, Publishing, Naming
<1>5. EvidenceBacked' /\ AckedSurvives' /\ JournalRecovers'
  BY <1>1, <1>2 DEF EvidenceBacked, AckedSurvives, JournalRecovers, OnPlatter
<1> QED
  BY <1>3, <1>4, <1>5 DEF StoreInv

-----------------------------------------------------------------------------
\* Failures

LEMMA InterruptKeeps ==
  ASSUME StoreInv, Interrupt
  PROVE  StoreInv'
<1>1. /\ pc' = "idle" /\ goal' = NoManifest
      /\ UNCHANGED <<layout, files, synced, temps, manifest, durable, pending,
                     manifestTemps, journal, journalSynced, acked>>
  BY DEF Interrupt, captureVars, manifestVars
<1>2. torn' \in BOOLEAN
  BY DEF Interrupt, StoreInv, TypeOK
<1>3. TypeOK'
  BY <1>1, <1>2, NoManifestType DEF StoreInv, TypeOK, Steps
<1>4. WriterInv'
  BY <1>1 DEF WriterInv, Publishing, Naming
<1>5. EvidenceBacked' /\ AckedSurvives' /\ JournalRecovers'
  BY <1>1 DEF StoreInv, EvidenceBacked, AckedSurvives, JournalRecovers, OnPlatter
<1> QED
  BY <1>3, <1>4, <1>5 DEF StoreInv

\* A power failure brings up one of the manifests on the platter, and keeps
\* every file that was synced.
LEMMA PowerFailureKeeps ==
  ASSUME StoreInv, PowerFailure
  PROVE  StoreInv'
<1>1. /\ TypeOK /\ EvidenceBacked /\ AckedSurvives /\ JournalRecovers
  BY DEF StoreInv
<1>2. /\ pc' = "idle" /\ goal' = NoManifest
      /\ files' \subseteq files /\ synced \subseteq files' /\ synced' = files'
      /\ temps' \in {temps, {}}
      /\ manifest' \in OnPlatter
      /\ durable' = manifest' /\ pending' = {}
      /\ manifestTemps' \in {manifestTemps, {}}
      /\ layout' = layout /\ acked' = acked
  BY DEF PowerFailure
<1>3. PICK kept \in journalSynced..Len(journal) :
        /\ journal' = SubSeq(journal, 1, kept)
        /\ journalSynced' = kept
        /\ torn' \in {FALSE, torn \/ kept < Len(journal)}
  BY DEF PowerFailure
<1>4. /\ journal \in Seq(JournalLine) /\ Len(journal) \in Nat
      /\ journalSynced \in 0..Len(journal)
      /\ kept \in 0..Len(journal)
  BY <1>1, <1>3 DEF TypeOK
<1>5. /\ journal' \in Seq(JournalLine) /\ Len(journal') = kept
      /\ \A i \in 1..kept : journal'[i] = journal[i]
  BY <1>3, <1>4
<1>6. manifest' \in Manifest
  BY <1>1, <1>2 DEF TypeOK, OnPlatter
<1>7. torn' \in BOOLEAN
  BY <1>1, <1>3 DEF TypeOK
<1>8. TypeOK'
  <2>1. files' \subseteq CaptureId /\ temps' \subseteq Image
        /\ manifestTemps' \subseteq Manifest
    BY <1>1, <1>2 DEF TypeOK
  <2>2. journalSynced' \in 0..Len(journal')
    BY <1>3, <1>4, <1>5
  <2> QED
    BY <1>1, <1>2, <1>5, <1>6, <1>7, <2>1, <2>2, NoManifestType
       DEF TypeOK, Steps
<1>9. WriterInv'
  BY <1>2 DEF WriterInv, Publishing, Naming
<1>10. EvidenceBacked' /\ AckedSurvives'
  BY <1>1, <1>2 DEF EvidenceBacked, AckedSurvives, OnPlatter
<1>11. JournalRecovers'
  BY <1>1, <1>4, <1>5 DEF JournalRecovers
<1> QED
  BY <1>8, <1>9, <1>10, <1>11 DEF StoreInv

\* A session is lost only before its first line is durable, when nothing lists
\* a capture.
LEMMA LoseSessionKeeps ==
  ASSUME SessionInv, LoseSession
  PROVE  StoreInv'
<1>1. /\ TypeOK /\ EvidenceBacked /\ AckedSurvives /\ UnlistedInv
  BY DEF SessionInv, StoreInv
<1>2. /\ journalSynced = 0 /\ journalSynced' = 0
      /\ files' \subseteq files /\ synced' = files' /\ temps' \in {temps, {}}
      /\ journal' = <<>> /\ torn' = FALSE /\ pc' = "idle" /\ goal' = NoManifest
      /\ UNCHANGED <<manifest, durable, pending, manifestTemps, acked>>
  BY DEF LoseSession, manifestVars
<1>3. layout' \in Stages
  BY <1>1 DEF LoseSession, TypeOK, Earlier, Stages
<1>4. OnPlatter' \cup {manifest'} = {NoManifest}
  BY <1>1, <1>2 DEF UnlistedInv, OnPlatter
<1>5. TypeOK'
  <2>1. journal' \in Seq(JournalLine) /\ journalSynced' \in 0..Len(journal')
    BY <1>2
  <2>2. pc' \in Steps /\ torn' \in BOOLEAN
    BY <1>2 DEF Steps
  <2> QED
    BY <1>1, <1>2, <1>3, <2>1, <2>2, NoManifestType DEF TypeOK
<1>6. WriterInv'
  BY <1>2 DEF WriterInv, Publishing, Naming
<1>7. EvidenceBacked'
  BY <1>4, NoManifestType DEF EvidenceBacked
<1>8. AckedSurvives'
  BY <1>1, <1>2 DEF AckedSurvives, OnPlatter
<1>9. JournalRecovers'
  BY <1>2 DEF JournalRecovers
<1> QED
  BY <1>5, <1>6, <1>7, <1>8, <1>9 DEF StoreInv

-----------------------------------------------------------------------------

LEMMA StoreStep ==
  ASSUME SessionInv, [Next]_vars
  PROVE  StoreInv'
<1> USE DEF SessionInv
<1>1. CASE CreateDirectory \/ CreateCaptures \/ CreateJournal
  BY <1>1, CreateKeeps
<1>2. ASSUME NEW image \in Image, NEW note \in Note, BeginPublish(image, note)
      PROVE  StoreInv'
  BY <1>2, BeginPublishKeeps
<1>3. CASE RenameCapture
  BY <1>3, RenameCaptureKeeps
<1>4. CASE SyncCaptures
  BY <1>4, SyncCapturesKeeps
<1>5. CASE TruncateTail
  BY <1>5, TruncateTailKeeps
<1>6. CASE WriteLine
  BY <1>6, WriteLineKeeps
<1>7. CASE SyncJournal
  BY <1>7, SyncJournalKeeps
<1>8. CASE WriteManifest
  BY <1>8, WriteManifestKeeps
<1>9. ASSUME NEW note \in Note, BeginReplace(note) PROVE StoreInv'
  BY <1>9, BeginReplaceKeeps
<1>10. CASE RenameManifest
  BY <1>10, RenameManifestKeeps
<1>11. CASE SyncManifest
  BY <1>11, SyncManifestKeeps
<1>12. CASE Interrupt
  BY <1>12, InterruptKeeps
<1>13. CASE PowerFailure
  BY <1>13, PowerFailureKeeps
<1>14. CASE LoseSession
  BY <1>14, LoseSessionKeeps
<1>15. CASE UNCHANGED vars
  BY <1>15 DEF vars, captureVars, manifestVars, journalVars, StoreInv, TypeOK,
               WriterInv, NewCapture, EvidenceBacked, AckedSurvives,
               JournalRecovers, OnPlatter
<1> QED
  BY <1>1, <1>2, <1>3, <1>4, <1>5, <1>6, <1>7, <1>8, <1>9, <1>10, <1>11,
     <1>12, <1>13, <1>14, <1>15 DEF Next

LEMMA UnlistedStep ==
  ASSUME SessionInv, [Next]_vars
  PROVE  UnlistedInv'
<1>1. TypeOK /\ UnlistedInv
  BY DEF SessionInv, StoreInv
<1>2. /\ journal \in Seq(JournalLine) /\ Len(journal) \in Nat
      /\ journalSynced \in 0..Len(journal)
  BY <1>1 DEF TypeOK
<1>3. CASE WriteLine
  <2> DEFINE line == LineToLog
  <2>1. journal' = Append(journal, line)
    BY <1>3 DEF WriteLine
  <2> HIDE DEF line
  <2>2. Len(journal') # 0
    BY <1>2, <2>1
  <2>3. /\ pc' # "write_manifest" /\ (pc' = "sync_outcome" => pc = "log_manifest")
        /\ pc' \in {"sync_session", "sync_capture", "sync_outcome"}
        /\ UNCHANGED <<journalSynced, manifest, durable, pending, manifestTemps>>
    BY <1>3 DEF WriteLine, Logging, manifestVars
  <2> QED
    BY <1>1, <2>2, <2>3 DEF UnlistedInv
<1>4. CASE SyncJournal
  <2>1. /\ journalSynced' = Len(journal) /\ journal' = journal
        /\ pc' \in {"write_manifest", "idle"}
        /\ pc' = "write_manifest" => pc = "sync_capture"
        /\ UNCHANGED <<manifest, durable, pending, manifestTemps>>
    BY <1>4 DEF SyncJournal, manifestVars
  <2>2. journalSynced' = 0 => journalSynced = 0
    BY <1>2, <2>1
  <2> QED
    BY <1>1, <2>1, <2>2 DEF UnlistedInv
<1>5. CASE TruncateTail
  <2>1. /\ journalSynced' = Len(journal)
        /\ UNCHANGED <<journal, pc, manifest, durable, pending, manifestTemps>>
    BY <1>5 DEF TruncateTail, manifestVars
  <2>2. journalSynced' = 0 => journalSynced = 0
    BY <1>2, <2>1
  <2> QED
    BY <1>1, <2>1, <2>2 DEF UnlistedInv
<1>6. CASE PowerFailure
  <2>1. /\ pc' = "idle" /\ manifest' \in OnPlatter /\ durable' = manifest'
        /\ pending' = {} /\ manifestTemps' \in {manifestTemps, {}}
        /\ journalSynced' \in journalSynced..Len(journal)
    BY <1>6 DEF PowerFailure
  <2>2. journalSynced' = 0 => journalSynced = 0
    BY <1>2, <2>1
  <2> QED
    BY <1>1, <2>1, <2>2 DEF UnlistedInv, OnPlatter
<1>7. CASE \/ WriteManifest \/ RenameManifest \/ SyncManifest
           \/ \E note \in Note : BeginReplace(note)
  <2>1. journalSynced # 0
    BY <1>1, <1>7 DEF UnlistedInv, WriteManifest, RenameManifest, SyncManifest,
      BeginReplace
  <2>2. journalSynced' = journalSynced /\ pc' # "sync_capture"
    BY <1>7 DEF WriteManifest, RenameManifest, SyncManifest, BeginReplace,
      journalVars
  <2> QED
    BY <2>1, <2>2 DEF UnlistedInv
<1>8. CASE \/ CreateDirectory \/ CreateCaptures \/ CreateJournal
           \/ RenameCapture \/ SyncCaptures \/ Interrupt \/ LoseSession
           \/ \E image \in Image, note \in Note : BeginPublish(image, note)
  <2>1. /\ pc' \in {"make_captures", "make_journal", "log_session", "sync_captures",
                    "log_capture", "idle", "rename_capture"}
        /\ UNCHANGED <<journalSynced, manifest, durable, pending, manifestTemps>>
    BY <1>8 DEF CreateDirectory, CreateCaptures, CreateJournal, RenameCapture,
      SyncCaptures, Interrupt, LoseSession, BeginPublish, manifestVars, journalVars
  <2> QED
    BY <1>1, <2>1 DEF UnlistedInv
<1>9. CASE UNCHANGED vars
  BY <1>1, <1>9 DEF UnlistedInv, vars, manifestVars, journalVars
<1> QED
  BY <1>3, <1>4, <1>5, <1>6, <1>7, <1>8, <1>9 DEF Next

LEMMA SessionInitially == Init => SessionInv
<1>1. Init => UnlistedInv
  BY DEF Init, UnlistedInv
<1> QED
  BY <1>1, StoreInitially DEF SessionInv

LEMMA SessionStep == SessionInv /\ [Next]_vars => SessionInv'
<1> QED
  BY StoreStep, UnlistedStep DEF SessionInv

LEMMA SessionInvariant == Spec => []SessionInv
<1> QED
  BY SessionInitially, SessionStep, PTL DEF Spec

-----------------------------------------------------------------------------

\* The store's files, manifests and journal stay in their ranges, whatever the
\* limits: max_captures bounds the index of every capture id given out.
THEOREM StoreTyped == Spec => []TypeOK
<1>1. SessionInv => TypeOK
  BY DEF SessionInv, StoreInv
<1> QED
  BY <1>1, SessionInvariant, PTL

\* publish_capture makes an image durable before any manifest that can come
\* up, after whatever failure, names it.
THEOREM ListedCapturesAreDurable == Spec => []EvidenceBacked
<1>1. SessionInv => EvidenceBacked
  BY DEF SessionInv, StoreInv
<1> QED
  BY <1>1, SessionInvariant, PTL

\* A capture publish_capture has answered for is listed in every manifest that
\* can come up, after any number of failures.
THEOREM AcknowledgedCapturesStay == Spec => []AckedSurvives
<1>1. SessionInv => AckedSurvives
  BY DEF SessionInv, StoreInv
<1> QED
  BY <1>1, SessionInvariant, PTL

\* recover_journal reads back what append_journal has written, after any
\* sequence of torn, lost and completed lines.
THEOREM JournalReadsBack == Spec => []JournalRecovers
<1>1. SessionInv => JournalRecovers
  BY DEF SessionInv, StoreInv
<1> QED
  BY <1>1, SessionInvariant, PTL

-----------------------------------------------------------------------------
\* The store as an append-only list of captures: what is on the platter is at
\* any moment a prefix of what a reader finds, no shorter than what is durable,
\* and what is about to be published is the list there is, or that with one
\* capture more.  And whatever comes up, the durable part of the journal has a
\* line for each capture in it.

\* A capture's line is among the first lines of the journal.
Recorded(c, lines) ==
  \E j \in 1..lines : /\ journal[j].operation = "capture"
                      /\ journal[j].content.captures = <<c>>

GoalAppends == \E c \in CaptureId : goal.captures = Append(manifest.captures, c)

\* What the operation in progress makes of the list.
GoalInv ==
  /\ pc \in Publishing => GoalAppends
  /\ pc = "rename_manifest" =>
       goal.captures = manifest.captures \/ GoalAppends

\* Of two lists of captures, the one has come from the other by appending.
Begins(s, t) == Len(s) <= Len(t) /\ s = SubSeq(t, 1, Len(s))

PrefixInv ==
  \A m \in OnPlatter :
    /\ Begins(m.captures, manifest.captures)
    /\ Len(durable.captures) <= Len(m.captures)

\* The line of a capture is durable before the manifest that lists it is
\* written.
LinesInv ==
  /\ pc = "sync_capture" => Recorded(NewCapture, Len(journal))
  /\ pc = "write_manifest" => Recorded(NewCapture, journalSynced)
  /\ pc = "rename_manifest" =>
       \A i \in DOMAIN goal.captures : Recorded(goal.captures[i], journalSynced)
  /\ ListedIsJournalled

LogInv == SessionInv /\ GoalInv /\ PrefixInv /\ LinesInv

-----------------------------------------------------------------------------
\* Facts about the data

LEMMA BeginsFacts ==
  ASSUME NEW S, NEW s \in Seq(S), NEW t \in Seq(S), NEW c \in S
  PROVE  /\ Begins(t, t)
         /\ Begins(t, Append(t, c))
         /\ Begins(s, t) => Begins(s, Append(t, c))
<1>1. /\ Len(Append(t, c)) = Len(t) + 1
      /\ \A i \in 1..Len(t) : Append(t, c)[i] = t[i]
      /\ Append(t, c) \in Seq(S)
      /\ Len(s) \in Nat /\ Len(t) \in Nat
  OBVIOUS
<1>2. SubSeq(t, 1, Len(t)) = t
  OBVIOUS
<1>3. ASSUME NEW k \in 0..Len(t)
      PROVE  SubSeq(Append(t, c), 1, k) = SubSeq(t, 1, k)
  BY <1>1
<1> QED
  BY <1>1, <1>2, <1>3 DEF Begins

LEMMA ManifestCaptures ==
  ASSUME NEW m \in Manifest
  PROVE  /\ m.captures \in Seq(CaptureId)
         /\ Len(m.captures) \in Nat
         /\ DOMAIN m.captures = 1..Len(m.captures)
  BY DEF Manifest

\* Every manifest that counts is one.
LEMMA ManifestsAre ==
  ASSUME TypeOK
  PROVE  /\ goal \in Manifest /\ manifest \in Manifest /\ durable \in Manifest
         /\ OnPlatter \subseteq Manifest
  BY DEF TypeOK, OnPlatter

-----------------------------------------------------------------------------
\* The list

LEMMA LogInitially == Init => LogInv
<1> SUFFICES ASSUME Init PROVE LogInv
  OBVIOUS
<1>1. SessionInv
  BY SessionInitially
<1>2. /\ pc = "idle" /\ manifest = NoManifest /\ durable = NoManifest
      /\ OnPlatter = {NoManifest}
  BY DEF Init, OnPlatter
<1>3. GoalInv
  BY <1>2 DEF GoalInv, Publishing
<1>4. PrefixInv
  <2>1. NoManifest.captures = <<>> /\ Len(<<>>) = 0
    BY NoManifestType
  <2>2. Begins(<<>>, <<>>)
    BY DEF Begins
  <2> QED
    BY <1>2, <2>1, <2>2 DEF PrefixInv
<1>5. LinesInv
  <2>1. DOMAIN NoManifest.captures = {}
    BY NoManifestType
  <2> QED
    BY <1>2, <2>1 DEF LinesInv, ListedIsJournalled
<1> QED
  BY <1>1, <1>3, <1>4, <1>5 DEF LogInv

LEMMA GoalStep ==
  ASSUME LogInv, [Next]_vars
  PROVE  GoalInv'
<1>1. TypeOK /\ GoalInv
  BY DEF LogInv, SessionInv, StoreInv
<1>2. ASSUME NEW image \in Image, NEW note \in Note, BeginPublish(image, note)
      PROVE  GoalInv'
  <2> DEFINE id == CaptureIdOf(manifest, image)
  <2>1. /\ goal'.captures = Append(manifest.captures, id)
        /\ manifest' = manifest /\ pc' = "rename_capture" /\ HasRoom
    BY <1>2 DEF BeginPublish, Extended, manifestVars
  <2>2. id \in CaptureId
    <3>1. Len(manifest.captures) \in Nat
      BY <1>1, ManifestsAre, ManifestCaptures
    <3>2. Len(manifest.captures) + 1 \in 1..MaxCaptures
      BY <2>1, <3>1, StoreAssumption DEF HasRoom
    <3> QED
      BY <3>2 DEF CaptureIdOf, CaptureId
  <2> HIDE DEF id
  <2> QED
    BY <2>1, <2>2 DEF GoalInv, GoalAppends
<1>3. ASSUME NEW note \in Note, BeginReplace(note)
      PROVE  GoalInv'
  <2>1. manifest \in Manifest
    BY <1>1, ManifestsAre
  <2>2. /\ goal'.captures = manifest.captures
        /\ manifest' = manifest /\ pc' = "rename_manifest"
    BY <1>3, <2>1 DEF BeginReplace, Manifest
  <2> QED
    BY <2>2 DEF GoalInv, Publishing
<1>4. ASSUME UNCHANGED <<manifest, goal>>,
             \/ pc' = pc
             \/ pc \in Publishing /\ pc' \in Publishing \cup {"rename_manifest"}
      PROVE  GoalInv'
  BY <1>1, <1>4 DEF GoalInv, GoalAppends, Publishing
<1>5. ASSUME pc' \notin Publishing \cup {"rename_manifest"}
      PROVE  GoalInv'
  BY <1>5 DEF GoalInv
<1>6. CASE CreateDirectory \/ CreateCaptures \/ CreateJournal
           \/ RenameManifest \/ SyncManifest \/ Interrupt \/ PowerFailure
           \/ LoseSession
  BY <1>5, <1>6 DEF CreateDirectory, CreateCaptures, CreateJournal,
    RenameManifest, SyncManifest, Interrupt, PowerFailure, LoseSession,
    Publishing
<1>7. CASE RenameCapture \/ SyncCaptures \/ TruncateTail \/ WriteManifest
           \/ UNCHANGED vars
  BY <1>4, <1>7 DEF RenameCapture, SyncCaptures, TruncateTail, WriteManifest,
    Publishing, manifestVars, vars
<1>8. CASE WriteLine
  BY <1>4, <1>5, <1>8 DEF WriteLine, Logging, Publishing, manifestVars
<1>9. CASE SyncJournal
  BY <1>4, <1>5, <1>9 DEF SyncJournal, Publishing, manifestVars
<1> QED
  BY <1>2, <1>3, <1>6, <1>7, <1>8, <1>9 DEF Next

\* The steps that change what is listed or what is durable, and how.
LEMMA ListMoves ==
  ASSUME LogInv, [Next]_vars
  PROVE  \/ UNCHANGED <<manifest, durable, pending>>
         \/ RenameManifest \/ SyncManifest \/ PowerFailure
  BY DEF Next, vars, captureVars, manifestVars, journalVars, CreateDirectory,
    CreateCaptures, CreateJournal, BeginPublish, RenameCapture, SyncCaptures,
    TruncateTail, WriteLine, SyncJournal, WriteManifest, BeginReplace, Interrupt,
    LoseSession

LEMMA PrefixStep ==
  ASSUME LogInv, [Next]_vars
  PROVE  PrefixInv'
<1>1. TypeOK /\ TypeOK' /\ GoalInv /\ PrefixInv
  BY SessionStep DEF LogInv, SessionInv, StoreInv
<1>2. CASE UNCHANGED <<manifest, durable, pending>>
  BY <1>1, <1>2 DEF PrefixInv, OnPlatter
<1>3. CASE RenameManifest
  <2>1. /\ manifest' = goal /\ durable' = durable
        /\ OnPlatter' = OnPlatter \cup {goal}
        /\ pc = "rename_manifest"
    BY <1>3 DEF RenameManifest, OnPlatter
  <2>2. ASSUME NEW m \in OnPlatter \cup {goal}
        PROVE  Begins(m.captures, goal.captures)
    <3>1. m.captures \in Seq(CaptureId) /\ goal.captures \in Seq(CaptureId)
          /\ manifest.captures \in Seq(CaptureId)
      BY <1>1, ManifestsAre, ManifestCaptures
    <3>2. CASE m = goal
      <4>1. CASE CaptureId = {}
        <5>1. goal.captures = <<>>
          BY <3>1, <4>1
        <5> QED
          BY <3>2, <5>1 DEF Begins
      <4>2. CASE CaptureId # {}
        BY <3>1, <3>2, <4>2, BeginsFacts
      <4> QED
        BY <4>1, <4>2
    <3>3. CASE m \in OnPlatter /\ goal.captures = manifest.captures
      BY <1>1, <3>3 DEF PrefixInv
    <3>4. CASE m \in OnPlatter /\ GoalAppends
      BY <1>1, <3>1, <3>4, BeginsFacts DEF PrefixInv, GoalAppends
    <3> QED
      BY <1>1, <2>1, <3>2, <3>3, <3>4 DEF GoalInv
  <2>3. Len(durable.captures) <= Len(goal.captures)
    BY <2>2 DEF OnPlatter, Begins
  <2> QED
    BY <1>1, <2>1, <2>2, <2>3 DEF PrefixInv
<1>4. CASE SyncManifest \/ PowerFailure
  <2>1. durable' = manifest' /\ OnPlatter' = {manifest'}
    BY <1>4 DEF SyncManifest, PowerFailure, OnPlatter
  <2>2. manifest'.captures \in Seq(CaptureId) /\ Len(manifest'.captures) \in Nat
    BY <1>1 DEF TypeOK, Manifest
  <2>3. SubSeq(manifest'.captures, 1, Len(manifest'.captures)) = manifest'.captures
    BY <2>2
  <2> QED
    BY <2>1, <2>2, <2>3 DEF PrefixInv, Begins
<1> QED
  BY <1>2, <1>3, <1>4, ListMoves

-----------------------------------------------------------------------------
\* The journal

\* No durable line goes away or changes.
LEMMA DurableLinesStay ==
  ASSUME LogInv, [Next]_vars
  PROVE  /\ journalSynced <= journalSynced'
         /\ \A j \in 1..journalSynced : journal'[j] = journal[j]
<1>1. /\ journal \in Seq(JournalLine) /\ Len(journal) \in Nat
      /\ journalSynced \in 0..Len(journal)
  BY DEF LogInv, SessionInv, StoreInv, TypeOK
<1>2. CASE WriteLine
  <2> DEFINE line == LineToLog
  <2>1. journal' = Append(journal, line) /\ journalSynced' = journalSynced
    BY <1>2 DEF WriteLine
  <2> HIDE DEF line
  <2> QED
    BY <1>1, <2>1
<1>3. CASE TruncateTail \/ SyncJournal
  BY <1>1, <1>3 DEF TruncateTail, SyncJournal
<1>4. CASE PowerFailure
  <2>1. PICK kept \in journalSynced..Len(journal) :
          journal' = SubSeq(journal, 1, kept) /\ journalSynced' = kept
    BY <1>4 DEF PowerFailure
  <2> QED
    BY <1>1, <2>1
<1>5. CASE UNCHANGED <<journal, journalSynced>>
  BY <1>1, <1>5
<1>6. CASE LoseSession
  BY <1>6 DEF LoseSession
<1> QED
  BY <1>2, <1>3, <1>4, <1>5, <1>6 DEF Next, vars, captureVars, manifestVars,
    journalVars, CreateDirectory, CreateCaptures, CreateJournal, BeginPublish,
    RenameCapture, SyncCaptures, WriteManifest, BeginReplace, RenameManifest,
    SyncManifest, Interrupt

\* Nor does a capture's.
LEMMA RecordedStays ==
  ASSUME LogInv, [Next]_vars, NEW c, Recorded(c, journalSynced)
  PROVE  Recorded(c, journalSynced)'
<1>1. PICK j \in 1..journalSynced :
        /\ journal[j].operation = "capture"
        /\ journal[j].content.captures = <<c>>
  BY DEF Recorded
<1>2. journalSynced \in Nat /\ journalSynced' \in Nat
  BY SessionStep DEF LogInv, SessionInv, StoreInv, TypeOK
<1>3. j \in 1..journalSynced' /\ journal'[j] = journal[j]
  BY <1>1, <1>2, DurableLinesStay
<1> QED
  BY <1>1, <1>3 DEF Recorded

\* What is written for a capture is there, and durable when it is synced.
LEMMA LinesAreWritten ==
  ASSUME LogInv, [Next]_vars
  PROVE  /\ (pc = "sync_capture" => Recorded(NewCapture, Len(journal)))'
         /\ (pc = "write_manifest" => Recorded(NewCapture, journalSynced))'
<1>1. TypeOK /\ WriterInv /\ LinesInv
  BY DEF LogInv, SessionInv, StoreInv
<1>2. CASE WriteLine
  <2>1. CASE pc = "log_capture"
    <3> DEFINE line == LineToLog
    <3>1. line.operation = "capture" /\ line.content.captures = <<NewCapture>>
      BY <2>1 DEF LineToLog
    <3> HIDE DEF line
    <3>2. /\ journal' = Append(journal, line) /\ pc' = "sync_capture"
          /\ goal' = goal
      BY <1>2, <2>1 DEF WriteLine, line
    <3>3. journal \in Seq(JournalLine)
      BY <1>1 DEF TypeOK
    <3>4. /\ Len(journal') = Len(journal) + 1 /\ Len(journal) \in Nat
          /\ journal'[Len(journal) + 1] = line
      BY <3>2, <3>3
    <3>5. NewCapture' = NewCapture
      BY <3>2 DEF NewCapture
    <3> QED
      BY <3>1, <3>2, <3>4, <3>5 DEF Recorded
  <2>2. CASE pc # "log_capture"
    BY <1>2, <2>2 DEF WriteLine, Logging
  <2> QED
    BY <2>1, <2>2
<1>3. CASE SyncJournal
  <2>1. CASE pc = "sync_capture"
    <3>1. /\ journalSynced' = Len(journal) /\ journal' = journal
          /\ goal' = goal /\ pc' = "write_manifest"
      BY <1>3, <2>1 DEF SyncJournal
    <3> QED
      BY <1>1, <2>1, <3>1 DEF LinesInv, Recorded, NewCapture
  <2>2. CASE pc # "sync_capture"
    BY <1>3, <2>2 DEF SyncJournal
  <2> QED
    BY <2>1, <2>2
<1>4. CASE TruncateTail
  BY <1>4 DEF TruncateTail, Logging
<1>5. CASE UNCHANGED vars
  BY <1>1, <1>5 DEF LinesInv, Recorded, NewCapture, vars, journalVars
<1> QED
  BY <1>2, <1>3, <1>4, <1>5 DEF Next, CreateDirectory, CreateCaptures,
    CreateJournal, BeginPublish, RenameCapture, SyncCaptures, WriteManifest,
    BeginReplace, RenameManifest, SyncManifest, Interrupt, PowerFailure,
    LoseSession

\* So every capture of the manifest that is about to be named has its line.
LEMMA GoalIsRecorded ==
  ASSUME LogInv, [Next]_vars, (pc = "rename_manifest")',
         NEW i \in DOMAIN goal'.captures
  PROVE  Recorded(goal.captures[i], journalSynced)'
<1>1. TypeOK /\ WriterInv /\ GoalInv /\ LinesInv
  BY DEF LogInv, SessionInv, StoreInv
<1>2. /\ goal.captures \in Seq(CaptureId) /\ manifest.captures \in Seq(CaptureId)
  BY <1>1, ManifestsAre, ManifestCaptures
<1>3. ASSUME NEW k \in DOMAIN manifest.captures
      PROVE  Recorded(manifest.captures[k], journalSynced)
  BY <1>1, <1>3 DEF LinesInv, ListedIsJournalled, Recorded
<1>4. CASE WriteManifest
  <2>1. /\ pc = "write_manifest" /\ goal' = goal
        /\ UNCHANGED <<journal, journalSynced>>
    BY <1>4 DEF WriteManifest, journalVars
  <2>2. PICK c \in CaptureId : goal.captures = Append(manifest.captures, c)
    BY <1>1, <2>1 DEF GoalInv, GoalAppends, Publishing
  <2>3. NewCapture = c
    BY <1>2, <2>2, ToSetAppend DEF NewCapture
  <2>4. CASE i = Len(manifest.captures) + 1
    <3>1. goal.captures[i] = c
      BY <1>2, <2>2, <2>4
    <3> QED
      BY <1>1, <2>1, <2>3, <3>1 DEF LinesInv, Recorded
  <2>5. CASE i # Len(manifest.captures) + 1
    <3>1. i \in DOMAIN manifest.captures /\ goal.captures[i] = manifest.captures[i]
      BY <1>2, <2>1, <2>2, <2>5
    <3> QED
      BY <1>3, <2>1, <3>1 DEF Recorded
  <2> QED
    BY <2>4, <2>5
<1>5. ASSUME NEW note \in Note, BeginReplace(note)
      PROVE  Recorded(goal.captures[i], journalSynced)'
  <2>1. manifest \in Manifest
    BY <1>1, ManifestsAre
  <2>2. /\ goal'.captures = manifest.captures
        /\ UNCHANGED <<journal, journalSynced>>
    BY <1>5, <2>1 DEF BeginReplace, Manifest, journalVars
  <2> QED
    BY <1>3, <2>2 DEF Recorded
<1>6. CASE UNCHANGED vars
  BY <1>1, <1>6 DEF LinesInv, Recorded, vars, journalVars
<1>7. CASE TruncateTail
  BY <1>7 DEF TruncateTail, Logging
<1>8. CASE WriteLine
  BY <1>8 DEF WriteLine, Logging
<1> QED
  BY <1>4, <1>5, <1>6, <1>7, <1>8 DEF Next, CreateDirectory, CreateCaptures,
    CreateJournal, BeginPublish, RenameCapture, SyncCaptures, SyncJournal,
    RenameManifest, SyncManifest, Interrupt, PowerFailure, LoseSession

LEMMA ListedStep ==
  ASSUME LogInv, [Next]_vars
  PROVE  ListedIsJournalled'
<1>1. LinesInv
  BY DEF LogInv
<1>2. ASSUME NEW m \in OnPlatter \cup {manifest}, NEW i \in DOMAIN m.captures
      PROVE  Recorded(m.captures[i], journalSynced)'
  <2>1. Recorded(m.captures[i], journalSynced)
    BY <1>1 DEF LinesInv, ListedIsJournalled, Recorded
  <2> QED
    BY <2>1, RecordedStays DEF Recorded
<1>3. ASSUME RenameManifest, NEW i \in DOMAIN goal.captures
      PROVE  Recorded(goal.captures[i], journalSynced)'
  <2>1. Recorded(goal.captures[i], journalSynced)
    BY <1>1, <1>3 DEF LinesInv, RenameManifest
  <2>2. goal' = goal
    BY <1>3 DEF RenameManifest
  <2> QED
    BY <2>1, <2>2, RecordedStays DEF Recorded
<1>4. ASSUME NEW m \in (OnPlatter \cup {manifest})'
      PROVE  m \in OnPlatter \cup {manifest} \/ (RenameManifest /\ m = goal)
  <2>1. CASE UNCHANGED <<manifest, durable, pending>>
    BY <1>4, <2>1 DEF OnPlatter
  <2>2. CASE RenameManifest
    <3>1. manifest' = goal /\ pending' = pending \cup {goal} /\ durable' = durable
      BY <2>2 DEF RenameManifest
    <3> QED
      BY <1>4, <2>2, <3>1 DEF OnPlatter
  <2>3. CASE SyncManifest \/ PowerFailure
    <3>1. /\ durable' = manifest' /\ pending' = {}
          /\ manifest' \in OnPlatter \cup {manifest}
      BY <2>3 DEF SyncManifest, PowerFailure
    <3> QED
      BY <1>4, <3>1 DEF OnPlatter
  <2> QED
    BY <2>1, <2>2, <2>3, ListMoves
<1> SUFFICES ASSUME NEW m \in (OnPlatter \cup {manifest})',
                    NEW i \in DOMAIN m.captures
             PROVE  Recorded(m.captures[i], journalSynced)'
  BY DEF ListedIsJournalled, Recorded
<1>5. CASE m \in OnPlatter \cup {manifest}
  BY <1>2, <1>5
<1>6. CASE RenameManifest /\ m = goal
  <2>1. goal' = goal
    BY <1>6 DEF RenameManifest
  <2> QED
    BY <1>3, <1>6, <2>1
<1> QED
  BY <1>4, <1>5, <1>6

LEMMA LogStep == LogInv /\ [Next]_vars => LogInv'
<1> SUFFICES ASSUME LogInv, [Next]_vars PROVE LogInv'
  OBVIOUS
<1>1. SessionInv'
  BY SessionStep DEF LogInv
<1>2. LinesInv'
  BY LinesAreWritten, GoalIsRecorded, ListedStep DEF LinesInv
<1> QED
  BY <1>1, <1>2, GoalStep, PrefixStep DEF LogInv

LEMMA LogInvariant == Spec => []LogInv
<1> QED
  BY LogInitially, LogStep, PTL DEF Spec

-----------------------------------------------------------------------------

\* append_journal makes the line of a capture durable before write_manifest
\* begins: no manifest that can come up lists a capture without one.
THEOREM ListedCapturesAreJournalled == Spec => []ListedIsJournalled
<1>1. LogInv => ListedIsJournalled
  BY DEF LogInv, LinesInv
<1> QED
  BY <1>1, LogInvariant, PTL

\* Every step of the store publishes one capture, settles what is durable, or
\* changes nothing of the list.
LEMMA StepOfLog ==
  ASSUME LogInv, [Next]_vars
  PROVE  [Log!LogNext]_(Log!logVars)
<1>1. TypeOK /\ GoalInv /\ PrefixInv
  BY DEF LogInv, SessionInv, StoreInv
<1>2. CASE UNCHANGED <<manifest, durable, pending>>
  BY <1>2 DEF Log!logVars
<1>3. CASE RenameManifest
  <2>1. manifest' = goal /\ durable' = durable /\ pc = "rename_manifest"
    BY <1>3 DEF RenameManifest
  <2>2. CASE goal.captures = manifest.captures
    BY <2>1, <2>2 DEF Log!logVars
  <2>3. CASE GoalAppends
    <3>1. PICK c \in CaptureId : goal.captures = Append(manifest.captures, c)
      BY <2>3 DEF GoalAppends
    <3>2. Log!Publish(c)
      BY <2>1, <3>1 DEF Log!Publish
    <3> QED
      BY <3>2 DEF Log!LogNext
  <2> QED
    BY <1>1, <2>1, <2>2, <2>3 DEF GoalInv
<1>4. ASSUME NEW m \in OnPlatter \cup {manifest},
             manifest' = m, durable' = m
      PROVE  Log!LogNext
  <2>1. /\ durable.captures \in Seq(CaptureId)
        /\ manifest.captures \in Seq(CaptureId)
        /\ m.captures \in Seq(CaptureId)
    BY <1>1, ManifestsAre, ManifestCaptures
  <2>2. Begins(m.captures, manifest.captures)
        /\ Len(durable.captures) <= Len(m.captures)
    <3>1. CASE m \in OnPlatter
      BY <1>1, <3>1 DEF PrefixInv
    <3>2. CASE m = manifest
      <4>1. SubSeq(manifest.captures, 1, Len(manifest.captures)) = manifest.captures
        BY <2>1
      <4>2. Len(durable.captures) <= Len(manifest.captures)
        BY <1>1 DEF PrefixInv, OnPlatter, Begins
      <4> QED
        BY <2>1, <3>2, <4>1, <4>2 DEF Begins
    <3> QED
      BY <3>1, <3>2
  <2>3. Len(m.captures) \in Len(durable.captures)..Len(manifest.captures)
    BY <2>1, <2>2 DEF Begins
  <2>4. Log!Settle(Len(m.captures))
    BY <1>4, <2>2, <2>3 DEF Log!Settle, Begins
  <2> QED
    BY <2>3, <2>4 DEF Log!LogNext
<1>5. CASE SyncManifest
  BY <1>4, <1>5 DEF SyncManifest
<1>6. CASE PowerFailure
  BY <1>4, <1>6 DEF PowerFailure
<1> QED
  BY <1>2, <1>3, <1>5, <1>6, ListMoves

\* A session directory, with all its files and failures, is an append-only
\* list of captures of which a failure takes back only what was not durable.
THEOREM StoreImplementsLog == Spec => ImplementsLog
<1>1. Init => Log!LogInit
  BY NoManifestType DEF Init, Log!LogInit
<1> QED
  BY <1>1, LogInvariant, StepOfLog, PTL DEF Spec, ImplementsLog, Log!LogSpec

-----------------------------------------------------------------------------
(***************************************************************************)
(* The quota.  The bytes of a session are those of its images, its lines   *)
(* and its manifests.  What each step writes had room when its operation   *)
(* measured the session (RoomInv), and stays to be written by that one     *)
(* operation only.  The bytes of a set of manifests are the size of a set  *)
(* (Weight), so that what is known of cardinalities applies to them.       *)
(***************************************************************************)

\* As many elements as the manifests of a set have bytes.
Weight(set) == {p \in set \X Nat : p[2] < ManifestBytes(p[1])}

LEMMA ManifestBytesType ==
  ASSUME NEW m \in Manifest
  PROVE  ManifestBytes(m) \in Nat
<1>1. m.captures \in Seq(CaptureId)
  BY DEF Manifest
<1>2. Len(m.captures) \in Nat /\ EntryBytes \in Nat
  BY <1>1, StoreAssumption
<1> QED
  BY <1>2 DEF ManifestBytes

LEMMA WeightOfOne ==
  ASSUME NEW m \in Manifest
  PROVE  IsFiniteSet(Weight({m})) /\ Cardinality(Weight({m})) = ManifestBytes(m)
<1> DEFINE n == ManifestBytes(m)
           numbers == 0..(n - 1)
           f == [i \in numbers |-> <<m, i>>]
<1>1. n \in Nat
  BY ManifestBytesType
<1>2. IsFiniteSet(numbers) /\ Cardinality(numbers) = n
  <2> HIDE DEF n
  <2>1. 0 \in Int /\ n - 1 \in Int
    BY <1>1
  <2>2. IsFiniteSet(0..(n - 1)) /\ Cardinality(0..(n - 1)) = IF 0 > n - 1 THEN 0 ELSE (n - 1) - 0 + 1
    BY <2>1, FS_Interval
  <2> QED
    BY <1>1, <2>2
<1>3. Weight({m}) = {<<m, i>> : i \in numbers}
  <2> HIDE DEF n
  <2>1. Weight({m}) = {p \in {m} \X Nat : p[2] < n}
    BY DEF Weight, n
  <2>2. ASSUME NEW p \in Weight({m}) PROVE p \in {<<m, i>> : i \in numbers}
    <3>1. p \in {m} \X Nat /\ p[2] < n
      BY <2>1
    <3>2. p = <<m, p[2]>> /\ p[2] \in Nat
      BY <3>1
    <3>3. p[2] \in numbers
      BY <1>1, <3>1, <3>2
    <3> QED
      BY <3>2, <3>3
  <2>3. ASSUME NEW i \in numbers PROVE <<m, i>> \in Weight({m})
    <3>1. i \in Nat /\ i < n
      BY <1>1
    <3>2. <<m, i>> \in {m} \X Nat /\ <<m, i>>[2] = i
      BY <3>1
    <3> QED
      BY <2>1, <3>1, <3>2
  <2> QED
    BY <2>2, <2>3
<1>4. f \in Bijection(numbers, Weight({m}))
  <2>1. f \in Injection(numbers, Weight({m})) /\ f \in Surjection(numbers, Weight({m}))
    BY <1>3 DEF Injection, IsInjective, Surjection
  <2> QED
    BY <2>1 DEF Bijection
<1>5. ExistsBijection(numbers, Weight({m}))
  BY <1>4 DEF ExistsBijection
<1> HIDE DEF numbers, n
<1> QED
  BY <1>2, <1>5, FS_Bijection DEF n

LEMMA WeightGrows ==
  ASSUME NEW set \in SUBSET Manifest, IsFiniteSet(Weight(set)), NEW m \in Manifest,
         m \notin set
  PROVE  /\ IsFiniteSet(Weight(set \cup {m}))
         /\ Cardinality(Weight(set \cup {m})) = ManifestBytes(m) + Cardinality(Weight(set))
<1>1. /\ Weight(set \cup {m}) = Weight(set) \cup Weight({m})
      /\ Weight(set) \cap Weight({m}) = {}
  BY DEF Weight
<1>2. IsFiniteSet(Weight({m})) /\ Cardinality(Weight({m})) = ManifestBytes(m)
  BY WeightOfOne
<1> DEFINE v == Weight(set)
           w == Weight({m})
<1> HIDE DEF v, w
<1>3. /\ IsFiniteSet(v \cup w)
      /\ Cardinality(v \cup w) = Cardinality(v) + Cardinality(w) - Cardinality(v \cap w)
  BY <1>2, FS_Union DEF v, w
<1>4. Cardinality(v \cap w) = 0
  BY <1>1, FS_EmptySet DEF v, w
<1>5. Cardinality(v) \in Nat /\ Cardinality(w) \in Nat
  BY <1>2, FS_CardinalityType DEF v, w
<1> DEFINE a == Cardinality(v)
           b == Cardinality(w)
           c == Cardinality(v \cap w)
           d == Cardinality(v \cup w)
<1>6. a \in Nat /\ b \in Nat /\ c = 0 /\ d = a + b - c
  BY <1>3, <1>4, <1>5
<1>7. d = b + a
  <2> HIDE DEF a, b, c, d
  <2> QED
    BY <1>6
<1>8. Cardinality(v \cup w) = ManifestBytes(m) + Cardinality(v)
  BY <1>2, <1>7 DEF w
<1>9. IsFiniteSet(v \cup w) /\ v \cup w = Weight(set \cup {m}) /\ v = Weight(set)
  BY <1>1, <1>3 DEF v, w
<1> QED
  BY <1>8, <1>9

LEMMA WeightIsFinite ==
  ASSUME NEW set \in SUBSET Manifest, IsFiniteSet(set)
  PROVE  IsFiniteSet(Weight(set)) /\ Cardinality(Weight(set)) \in Nat
<1> DEFINE S == {n \in Nat : \A u \in SUBSET Manifest :
                   IsFiniteSet(u) /\ Cardinality(u) = n => IsFiniteSet(Weight(u))}
<1>1. 0 \in S
  <2> SUFFICES ASSUME NEW u \in SUBSET Manifest, IsFiniteSet(u), Cardinality(u) = 0
               PROVE  IsFiniteSet(Weight(u))
    OBVIOUS
  <2>1. Weight(u) = {}
    BY FS_EmptySet DEF Weight
  <2> QED
    BY <2>1, FS_EmptySet
<1>2. ASSUME NEW n \in Nat, n \in S PROVE n + 1 \in S
  <2> SUFFICES ASSUME NEW u \in SUBSET Manifest, IsFiniteSet(u), Cardinality(u) = n + 1
               PROVE  IsFiniteSet(Weight(u))
    OBVIOUS
  <2>1. PICK m \in u : TRUE
    BY FS_EmptySet
  <2> DEFINE v == u \ {m}
  <2>2. IsFiniteSet(v) /\ Cardinality(v) = n
    <3>1. /\ IsFiniteSet(v)
          /\ Cardinality(v) = IF m \in u THEN Cardinality(u) - 1 ELSE Cardinality(u)
      BY FS_RemoveElement
    <3>2. Cardinality(v) = (n + 1) - 1
      BY <2>1, <3>1
    <3> QED
      BY <3>1, <3>2
  <2>3. v \in SUBSET Manifest /\ m \in Manifest /\ m \notin v /\ u = v \cup {m}
    BY <2>1
  <2>4. IsFiniteSet(Weight(v))
    BY <1>2, <2>2, <2>3
  <2> HIDE DEF v
  <2> QED
    BY <2>3, <2>4, WeightGrows
<1> HIDE DEF S
<1>3. Nat \subseteq S
  BY <1>1, <1>2, Induct
<1>4. Cardinality(set) \in Nat
  BY FS_CardinalityType
<1>5. IsFiniteSet(Weight(set))
  BY <1>3, <1>4 DEF S
<1> QED
  BY <1>5, FS_CardinalityType

\* The bytes of some manifests are added up.
SumOfManifests(set) == MapThenSumSet(ManifestBytes, set)

LEMMA SumIsWeight ==
  ASSUME NEW set \in SUBSET Manifest, IsFiniteSet(set)
  PROVE  SumOfManifests(set) = Cardinality(Weight(set))
<1> DEFINE pick(u) == CHOOSE x \in u : TRUE
           body(f) == [u \in SUBSET set |->
                         IF u = {} THEN 0
                         ELSE LET x == pick(u) IN ManifestBytes(x) + f[u \ {x}]]
           fold == CHOOSE f : f = body(f)
           g == [u \in SUBSET set |-> Cardinality(Weight(u))]
<1>1. SumOfManifests(set) = fold[set]
  BY DEF SumOfManifests, MapThenSumSet, MapThenFoldSet
<1>2. \A u \in SUBSET set : IsFiniteSet(u) /\ u \in SUBSET Manifest
  BY FS_Subset
<1>3. ASSUME NEW u \in SUBSET set, u # {}
      PROVE  /\ pick(u) \in u
             /\ Cardinality(Weight(u)) =
                  ManifestBytes(pick(u)) + Cardinality(Weight(u \ {pick(u)}))
  <2> DEFINE x == pick(u)
             v == u \ {x}
  <2>1. x \in u
    BY <1>3
  <2> HIDE DEF x
  <2>2. v \in SUBSET Manifest /\ IsFiniteSet(v) /\ x \in Manifest /\ x \notin v
        /\ u = v \cup {x}
    BY <1>2, <2>1
  <2>3. IsFiniteSet(Weight(v))
    BY <2>2, WeightIsFinite
  <2> HIDE DEF v
  <2>4. Cardinality(Weight(v \cup {x})) = ManifestBytes(x) + Cardinality(Weight(v))
    BY <2>2, <2>3, WeightGrows
  <2> QED
    BY <2>1, <2>2, <2>4 DEF x, v
<1>4. Cardinality(Weight({})) = 0
  <2>1. Weight({}) = {}
    BY DEF Weight
  <2> QED
    BY <2>1, FS_EmptySet
<1>5. g = body(g)
  <2>1. ASSUME NEW u \in SUBSET set
        PROVE  g[u] = IF u = {} THEN 0 ELSE ManifestBytes(pick(u)) + g[u \ {pick(u)}]
    <3>1. CASE u = {}
      BY <1>4, <3>1
    <3>2. CASE u # {}
      <4>1. u \ {pick(u)} \in SUBSET set
        OBVIOUS
      <4> HIDE DEF pick
      <4> QED
        BY <1>3, <3>2, <4>1
    <3> QED
      BY <3>1, <3>2
  <2> HIDE DEF pick
  <2> QED
    BY <2>1
<1>6. fold = body(fold)
  <2> HIDE DEF body
  <2> QED
    BY <1>5, Zenon
<1> HIDE DEF fold
<1>7. \A u \in SUBSET set :
        fold[u] = IF u = {} THEN 0 ELSE ManifestBytes(pick(u)) + fold[u \ {pick(u)}]
  <2>1. \A u \in SUBSET set :
          body(fold)[u] = IF u = {} THEN 0
                          ELSE ManifestBytes(pick(u)) + fold[u \ {pick(u)}]
    OBVIOUS
  <2> HIDE DEF body, pick
  <2> QED
    BY <1>6, <2>1
<1> HIDE DEF body, pick
<1> DEFINE S == {n \in Nat : \A u \in SUBSET set :
                   Cardinality(u) = n => fold[u] = Cardinality(Weight(u))}
<1>8. 0 \in S
  <2> SUFFICES ASSUME NEW u \in SUBSET set, Cardinality(u) = 0
               PROVE  fold[u] = Cardinality(Weight(u))
    OBVIOUS
  <2>1. u = {}
    BY <1>2, FS_EmptySet
  <2> QED
    BY <1>4, <1>7, <2>1
<1>9. ASSUME NEW n \in Nat, n \in S PROVE n + 1 \in S
  <2> SUFFICES ASSUME NEW u \in SUBSET set, Cardinality(u) = n + 1
               PROVE  fold[u] = Cardinality(Weight(u))
    OBVIOUS
  <2>1. IsFiniteSet(u) /\ u # {}
    BY <1>2, FS_EmptySet
  <2> DEFINE x == pick(u)
             v == u \ {x}
  <2>2. x \in u
    BY <1>3, <2>1
  <2>3. Cardinality(v) = n
    <3>1. Cardinality(v) = Cardinality(u) - 1
      BY <2>1, <2>2, FS_RemoveElement
    <3> QED
      BY <3>1
  <2>4. v \in SUBSET set
    OBVIOUS
  <2>5. fold[v] = Cardinality(Weight(v))
    BY <1>9, <2>3, <2>4
  <2> QED
    BY <1>3, <1>7, <2>1, <2>5
<1> HIDE DEF S
<1>10. Nat \subseteq S
  BY <1>8, <1>9, Induct
<1>11. Cardinality(set) \in Nat
  BY FS_CardinalityType
<1>12. fold[set] = Cardinality(Weight(set))
  BY <1>10, <1>11 DEF S
<1> QED
  BY <1>1, <1>12

LEMMA SumOfSome ==
  ASSUME NEW set \in SUBSET Manifest, IsFiniteSet(set), NEW m \in Manifest
  PROVE  /\ SumOfManifests(set) \in Nat
         /\ SumOfManifests(set \cup {m}) \in Nat
         /\ SumOfManifests(set \cup {m}) <= SumOfManifests(set) + ManifestBytes(m)
         /\ SumOfManifests(set \ {m}) \in Nat
         /\ SumOfManifests(set \ {m}) <= SumOfManifests(set)
         /\ SumOfManifests({}) = 0
<1>1. IsFiniteSet(set \cup {m}) /\ set \cup {m} \in SUBSET Manifest
  BY FS_AddElement
<1>2. IsFiniteSet(set \ {m}) /\ set \ {m} \in SUBSET Manifest
  BY FS_RemoveElement
<1>3. /\ SumOfManifests(set) \in Nat
      /\ SumOfManifests(set \cup {m}) \in Nat
      /\ SumOfManifests(set \ {m}) \in Nat
  BY <1>1, <1>2, SumIsWeight, WeightIsFinite
<1>4. SumOfManifests(set \cup {m}) <= SumOfManifests(set) + ManifestBytes(m)
  <2>1. CASE m \in set
    <3>1. set \cup {m} = set
      BY <2>1
    <3> QED
      BY <1>3, <3>1, ManifestBytesType
  <2>2. CASE m \notin set
    <3>1. IsFiniteSet(Weight(set))
      BY WeightIsFinite
    <3>2. Cardinality(Weight(set \cup {m})) = ManifestBytes(m) + Cardinality(Weight(set))
      BY <2>2, <3>1, WeightGrows
    <3>3. SumOfManifests(set \cup {m}) = ManifestBytes(m) + SumOfManifests(set)
      BY <1>1, <3>2, SumIsWeight
    <3> QED
      BY <1>3, <3>3, ManifestBytesType
  <2> QED
    BY <2>1, <2>2
<1>5. SumOfManifests(set \ {m}) <= SumOfManifests(set)
  <2>1. Weight(set \ {m}) \in SUBSET Weight(set)
    BY DEF Weight
  <2>2. Cardinality(Weight(set \ {m})) <= Cardinality(Weight(set))
    BY <2>1, WeightIsFinite, FS_Subset
  <2> QED
    BY <1>2, <2>2, SumIsWeight
<1>6. SumOfManifests({}) = 0
  <2>1. Weight({}) = {} /\ {} \in SUBSET Manifest
    BY DEF Weight
  <2> QED
    BY <2>1, FS_EmptySet, SumIsWeight
<1> QED
  BY <1>3, <1>4, <1>5, <1>6

-----------------------------------------------------------------------------
\* Everything in the directory but the manifest, and what of it each part is.

ImagesTake(present, temporary) ==
  ImageBytes * (Cardinality(present) + Cardinality(temporary))
LinesTake(lines, tail) == LineBytes * (Len(lines) + (IF tail THEN 1 ELSE 0))

Others ==
  ImagesTake(files, temps) + SumOfManifests(manifestTemps) + LinesTake(journal, torn)

Finite == IsFiniteSet(files) /\ IsFiniteSet(temps) /\ IsFiniteSet(manifestTemps)

Creating == {"make_captures", "make_journal", "log_session"}
Listing == {"rename_manifest", "sync_manifest", "log_manifest"}

\* What an operation still writes has room at each of its steps.
RoomInv ==
  /\ Others <= MaxBundle \/ Others <= LineBytes
  /\ layout = "none" => pc = "idle"
  /\ layout = "none" \/ pc \in Creating => Others = 0
  /\ pc = "rename_capture" => NewCapture.image \in temps
  /\ pc \in {"rename_capture", "sync_captures", "log_capture"} =>
       Others + ManifestBytes(goal) + 2 * LineBytes <= MaxBundle
  /\ pc \in {"sync_capture", "write_manifest"} =>
       Others + ManifestBytes(goal) + LineBytes <= MaxBundle
  /\ pc \in Listing => Others + LineBytes <= MaxBundle

SizeInv == SessionInv /\ Finite /\ RoomInv

LEMMA MoreTakesMore ==
  ASSUME NEW a \in Nat, NEW b \in Nat, a <= b, NEW each \in Nat
  PROVE  each * a \in Nat /\ each * b \in Nat /\ each * a <= each * b
<1>1. b - a \in Nat /\ b = a + (b - a)
  OBVIOUS
<1>2. each * (b - a) \in Nat /\ each * a \in Nat /\ each * b \in Nat
  BY <1>1
<1>3. each * (a + (b - a)) = each * a + each * (b - a)
  BY <1>1
<1> QED
  BY <1>1, <1>2, <1>3

LEMMA LessFits ==
  ASSUME NEW a \in Nat, NEW b \in Nat, a <= b, b + LineBytes <= MaxBundle
  PROVE  a + LineBytes <= MaxBundle /\ a <= MaxBundle
BY StoreAssumption

LEMMA ImagesTakeFacts ==
  ASSUME NEW present, IsFiniteSet(present), NEW temporary, IsFiniteSet(temporary)
  PROVE  /\ ImagesTake(present, temporary) \in Nat
         /\ \A x : x \notin temporary =>
              /\ IsFiniteSet(temporary \cup {x})
              /\ ImagesTake(present, temporary \cup {x})
                   = ImagesTake(present, temporary) + ImageBytes
         /\ \A x, y : y \in temporary =>
              /\ IsFiniteSet(present \cup {x}) /\ IsFiniteSet(temporary \ {y})
              /\ ImagesTake(present \cup {x}, temporary \ {y}) \in Nat
              /\ ImagesTake(present \cup {x}, temporary \ {y})
                   <= ImagesTake(present, temporary)
         /\ \A p \in SUBSET present, t \in SUBSET temporary :
              /\ IsFiniteSet(p) /\ IsFiniteSet(t)
              /\ ImagesTake(p, t) \in Nat
              /\ ImagesTake(p, t) <= ImagesTake(present, temporary)
<1> DEFINE c == Cardinality(present)
           d == Cardinality(temporary)
<1>1. c \in Nat /\ d \in Nat /\ ImageBytes \in Nat
  BY FS_CardinalityType, StoreAssumption
<1>2. ImagesTake(present, temporary) = ImageBytes * (c + d)
  BY DEF ImagesTake
<1>3. ImagesTake(present, temporary) \in Nat
  <2> HIDE DEF c, d
  <2> QED
    BY <1>1, <1>2
<1>4. ASSUME NEW x, x \notin temporary
      PROVE  /\ IsFiniteSet(temporary \cup {x})
             /\ ImagesTake(present, temporary \cup {x})
                  = ImagesTake(present, temporary) + ImageBytes
  <2>1. IsFiniteSet(temporary \cup {x}) /\ Cardinality(temporary \cup {x}) = d + 1
    BY <1>4, FS_AddElement
  <2>2. ImagesTake(present, temporary \cup {x}) = ImageBytes * (c + (d + 1))
    BY <2>1 DEF ImagesTake
  <2> HIDE DEF c, d
  <2>3. ImageBytes * (c + (d + 1)) = ImageBytes * (c + d) + ImageBytes
    BY <1>1
  <2> QED
    BY <1>2, <2>1, <2>2, <2>3
<1>5. ASSUME NEW x, NEW y, y \in temporary
      PROVE  /\ IsFiniteSet(present \cup {x}) /\ IsFiniteSet(temporary \ {y})
             /\ ImagesTake(present \cup {x}, temporary \ {y}) \in Nat
             /\ ImagesTake(present \cup {x}, temporary \ {y})
                  <= ImagesTake(present, temporary)
  <2> DEFINE a == Cardinality(present \cup {x})
             b == Cardinality(temporary \ {y})
  <2>1. /\ IsFiniteSet(present \cup {x})
        /\ Cardinality(present \cup {x}) = IF x \in present THEN c ELSE c + 1
    BY FS_AddElement
  <2>2. /\ IsFiniteSet(temporary \ {y}) /\ Cardinality(temporary \ {y}) = d - 1
    BY <1>5, FS_RemoveElement
  <2>3. a \in Nat /\ b \in Nat
    BY <2>1, <2>2, FS_CardinalityType
  <2>4. ImagesTake(present \cup {x}, temporary \ {y}) = ImageBytes * (a + b)
    BY DEF ImagesTake
  <2> HIDE DEF c, d
  <2>5. a + b <= c + d
    BY <1>1, <2>1, <2>2
  <2> HIDE DEF a, b
  <2>6. ImageBytes * (a + b) \in Nat /\ ImageBytes * (a + b) <= ImageBytes * (c + d)
    BY <1>1, <2>3, <2>5, MoreTakesMore
  <2> QED
    BY <1>2, <2>1, <2>2, <2>4, <2>6
<1>6. ASSUME NEW p \in SUBSET present, NEW t \in SUBSET temporary
      PROVE  /\ IsFiniteSet(p) /\ IsFiniteSet(t)
             /\ ImagesTake(p, t) \in Nat
             /\ ImagesTake(p, t) <= ImagesTake(present, temporary)
  <2> DEFINE a == Cardinality(p)
             b == Cardinality(t)
  <2>1. IsFiniteSet(p) /\ a <= c /\ IsFiniteSet(t) /\ b <= d
    BY FS_Subset
  <2>2. a \in Nat /\ b \in Nat
    BY <2>1, FS_CardinalityType
  <2>3. ImagesTake(p, t) = ImageBytes * (a + b)
    BY DEF ImagesTake
  <2> HIDE DEF a, b, c, d
  <2>4. a + b <= c + d
    BY <1>1, <2>1, <2>2
  <2>5. ImageBytes * (a + b) \in Nat /\ ImageBytes * (a + b) <= ImageBytes * (c + d)
    BY <1>1, <2>2, <2>4, MoreTakesMore
  <2> QED
    BY <1>2, <2>1, <2>3, <2>5
<1> QED
  BY <1>3, <1>4, <1>5, <1>6

LEMMA LinesTakeFacts ==
  ASSUME NEW lines, Len(lines) \in Nat, NEW tail \in BOOLEAN
  PROVE  /\ LinesTake(lines, tail) \in Nat
         /\ \A other : \A end \in BOOLEAN :
              Len(other) \in 0..Len(lines) /\ (end => tail \/ Len(other) < Len(lines)) =>
                /\ LinesTake(other, end) \in Nat
                /\ LinesTake(other, end) <= LinesTake(lines, tail)
         /\ \A end \in BOOLEAN :
              /\ LinesTake(lines, end) \in Nat
              /\ LinesTake(lines, end) <= LinesTake(lines, tail) + LineBytes
         /\ \A other : Len(other) = Len(lines) + 1 =>
              LinesTake(other, tail) = LinesTake(lines, tail) + LineBytes
<1> DEFINE n == Len(lines)
           one(end) == IF end THEN 1 ELSE 0
<1>1. n \in Nat /\ LineBytes \in Nat /\ \A end \in BOOLEAN : one(end) \in 0..1
  BY StoreAssumption
<1>2. \A other, end : LinesTake(other, end) = LineBytes * (Len(other) + one(end))
  BY DEF LinesTake
<1>3. ASSUME NEW other, NEW end \in BOOLEAN, Len(other) \in Nat
      PROVE  LinesTake(other, end) \in Nat
  <2>1. Len(other) + one(end) \in Nat
    BY <1>3
  <2> HIDE DEF one
  <2> QED
    BY <1>1, <1>2, <2>1
<1>4. ASSUME NEW other, NEW end \in BOOLEAN, Len(other) \in 0..n,
             end => tail \/ Len(other) < n
      PROVE  LinesTake(other, end) <= LinesTake(lines, tail)
  <2> DEFINE a == Len(other) + one(end)
             b == n + one(tail)
  <2>1. a \in Nat /\ b \in Nat /\ a <= b
    BY <1>1, <1>4
  <2> HIDE DEF a, b, one
  <2>2. LineBytes * a <= LineBytes * b
    BY <1>1, <2>1, MoreTakesMore
  <2> QED
    BY <1>2, <2>2 DEF a, b
<1>5. ASSUME NEW end \in BOOLEAN
      PROVE  LinesTake(lines, end) <= LinesTake(lines, tail) + LineBytes
  <2> DEFINE a == n + one(end)
             b == n + one(tail)
  <2>1. a \in Nat /\ b \in Nat /\ a <= b + 1 /\ b + 1 \in Nat
    BY <1>1
  <2> HIDE DEF a, b, one
  <2>2. LineBytes * a <= LineBytes * (b + 1)
    BY <1>1, <2>1, MoreTakesMore
  <2>3. LineBytes * (b + 1) = LineBytes * b + LineBytes
    BY <1>1, <2>1
  <2> QED
    BY <1>2, <2>2, <2>3 DEF a, b
<1>6. ASSUME NEW other, Len(other) = n + 1
      PROVE  LinesTake(other, tail) = LinesTake(lines, tail) + LineBytes
  <2> DEFINE b == n + one(tail)
  <2>1. b \in Nat /\ Len(other) + one(tail) = b + 1
    BY <1>1, <1>6
  <2> HIDE DEF b, one
  <2>2. LineBytes * (b + 1) = LineBytes * b + LineBytes
    BY <1>1, <2>1
  <2> QED
    BY <1>2, <2>1, <2>2 DEF b
<1> HIDE DEF one
<1>7. \A end \in BOOLEAN : LinesTake(lines, end) \in Nat
  BY <1>1, <1>3
<1>8. \A other : \A end \in BOOLEAN :
        Len(other) \in 0..Len(lines) /\ (end => tail \/ Len(other) < Len(lines)) =>
          /\ LinesTake(other, end) \in Nat
          /\ LinesTake(other, end) <= LinesTake(lines, tail)
  BY <1>3, <1>4
<1> QED
  BY <1>5, <1>6, <1>7, <1>8

LEMMA OthersType ==
  ASSUME TypeOK, Finite
  PROVE  /\ Len(journal) \in Nat
         /\ ImagesTake(files, temps) \in Nat
         /\ SumOfManifests(manifestTemps) \in Nat
         /\ LinesTake(journal, torn) \in Nat
         /\ Others \in Nat
         /\ ManifestBytes(goal) \in Nat /\ ManifestBytes(manifest) \in Nat
         /\ SessionSize = Others + ManifestBytes(manifest)
<1>1. journal \in Seq(JournalLine) /\ torn \in BOOLEAN /\ goal \in Manifest
      /\ manifest \in Manifest /\ manifestTemps \in SUBSET Manifest
  BY DEF TypeOK
<1>2. Len(journal) \in Nat
  BY <1>1
<1>3. ImagesTake(files, temps) \in Nat
  BY ImagesTakeFacts DEF Finite
<1>4. SumOfManifests(manifestTemps) \in Nat
  BY <1>1, SumOfSome DEF Finite
<1>5. LinesTake(journal, torn) \in Nat
  BY <1>1, <1>2, LinesTakeFacts
<1>6. ManifestBytes(goal) \in Nat /\ ManifestBytes(manifest) \in Nat
  BY <1>1, ManifestBytesType
<1>7. SessionSize = ImagesTake(files, temps) + ManifestBytes(manifest)
                      + SumOfManifests(manifestTemps) + LinesTake(journal, torn)
  BY DEF SessionSize, ImagesTake, SumOfManifests, LinesTake
<1> QED
  BY <1>2, <1>3, <1>4, <1>5, <1>6, <1>7 DEF Others

LEMMA SizeInitially == Init => Finite /\ RoomInv
<1> SUFFICES ASSUME Init PROVE Finite /\ RoomInv
  OBVIOUS
<1>1. Finite
  BY FS_EmptySet DEF Init, Finite
<1>2. ImagesTake(files, temps) = 0
  <2>1. Cardinality(files) = 0 /\ Cardinality(temps) = 0
    BY FS_EmptySet DEF Init
  <2> QED
    BY <2>1, StoreAssumption DEF ImagesTake
<1>3. SumOfManifests(manifestTemps) = 0
  BY NoManifestType, FS_EmptySet, SumOfSome DEF Init
<1>4. LinesTake(journal, torn) = 0
  <2>1. Len(journal) = 0 /\ torn = FALSE
    BY DEF Init
  <2> QED
    BY <2>1, StoreAssumption DEF LinesTake
<1>5. Others = 0
  BY <1>2, <1>3, <1>4 DEF Others
<1>6. pc = "idle"
  BY DEF Init
<1> QED
  BY <1>1, <1>5, <1>6, StoreAssumption DEF RoomInv, Creating, Listing

\* An action that leaves the other files alone.
SameOthers == UNCHANGED <<files, temps, manifestTemps, journal, torn>>

LEMMA OthersStay ==
  ASSUME SameOthers
  PROVE  Others' = Others /\ (Finite => Finite')
  BY DEF SameOthers, Others, Finite, ImagesTake, LinesTake, SumOfManifests

LEMMA CreateHasRoom ==
  ASSUME SizeInv, CreateDirectory \/ CreateCaptures \/ CreateJournal
  PROVE  Finite' /\ RoomInv'
<1>1. SameOthers
  BY DEF CreateDirectory, CreateCaptures, CreateJournal, captureVars,
         manifestVars, journalVars, SameOthers
<1>2. Others' = Others /\ Finite'
  BY <1>1, OthersStay DEF SizeInv
<1>3. Others = 0 /\ layout' # "none" /\ pc' \in Creating
  BY DEF CreateDirectory, CreateCaptures, CreateJournal, SizeInv, RoomInv, Creating
<1> QED
  BY <1>2, <1>3, StoreAssumption DEF RoomInv, Creating, Listing

LEMMA BeginPublishHasRoom ==
  ASSUME SizeInv, NEW image \in Image, NEW note \in Note, BeginPublish(image, note)
  PROVE  Finite' /\ RoomInv'
<1> DEFINE new == Extended(manifest, CaptureIdOf(manifest, image), note)
<1>1. /\ layout' = layout /\ layout = "ready" /\ pc' = "rename_capture"
      /\ image \notin temps /\ temps' = temps \cup {image} /\ goal' = new
      /\ PublishFits(new)
      /\ UNCHANGED <<files, manifestTemps, journal, torn>>
  BY DEF BeginPublish, manifestVars, journalVars
<1> HIDE DEF new
<1>2. TypeOK /\ Finite /\ StoreInv
  BY DEF SizeInv, SessionInv, StoreInv
<1>3. /\ Others \in Nat /\ SessionSize = Others + ManifestBytes(manifest)
      /\ ManifestBytes(manifest) \in Nat /\ ImagesTake(files, temps) \in Nat
      /\ SumOfManifests(manifestTemps) \in Nat /\ LinesTake(journal, torn) \in Nat
  BY <1>2, OthersType
<1>4. /\ IsFiniteSet(temps')
      /\ ImagesTake(files, temps') = ImagesTake(files, temps) + ImageBytes
  BY <1>1, <1>2, ImagesTakeFacts DEF Finite
<1>5. Others' = Others + ImageBytes
  <2>1. Others' = ImagesTake(files, temps') + SumOfManifests(manifestTemps)
                    + LinesTake(journal, torn)
    BY <1>1 DEF Others
  <2> QED
    BY <1>3, <1>4, <2>1, StoreAssumption DEF Others
<1>6. StoreInv'
  BY <1>2, BeginPublishKeeps
<1>7. ManifestBytes(new) \in Nat
  BY <1>1, <1>6, ManifestBytesType DEF SessionInv, StoreInv, TypeOK
<1>8. Others' + ManifestBytes(goal)' + 2 * LineBytes <= MaxBundle /\ Others' <= MaxBundle
  BY <1>1, <1>3, <1>5, <1>7, StoreAssumption DEF PublishFits
<1>9. NewCapture'.image \in temps'
  <2>1. manifest \in Manifest /\ HasRoom
    BY <1>2 DEF TypeOK, BeginPublish
  <2>2. CaptureIdOf(manifest, image) \in CaptureId
    <3>1. manifest.captures \in Seq(CaptureId)
      BY <2>1 DEF Manifest
    <3>2. Len(manifest.captures) + 1 \in 1..MaxCaptures
      BY <2>1, <3>1, StoreAssumption DEF HasRoom
    <3> QED
      BY <3>2 DEF CaptureIdOf, CaptureId
  <2>3. Last(new.captures) = CaptureIdOf(manifest, image)
    BY <2>1, <2>2, ExtendedType DEF new
  <2>4. NewCapture' = CaptureIdOf(manifest, image)
    BY <1>1, <2>3 DEF NewCapture
  <2> QED
    BY <1>1, <2>4 DEF CaptureIdOf
<1>10. Finite'
  BY <1>1, <1>2, <1>4 DEF Finite
<1> QED
  BY <1>1, <1>8, <1>9, <1>10 DEF RoomInv, Creating, Listing

LEMMA RenameCaptureHasRoom ==
  ASSUME SizeInv, RenameCapture
  PROVE  Finite' /\ RoomInv'
<1>1. /\ pc = "rename_capture" /\ pc' = "sync_captures" /\ layout' = layout
      /\ files' = files \cup {NewCapture} /\ temps' = temps \ {NewCapture.image}
      /\ UNCHANGED <<manifestTemps, journal, torn, goal>>
  BY DEF RenameCapture, manifestVars, journalVars
<1>2. TypeOK /\ Finite
  BY DEF SizeInv, SessionInv, StoreInv
<1>3. /\ Others \in Nat /\ ImagesTake(files, temps) \in Nat /\ ManifestBytes(goal) \in Nat
      /\ SumOfManifests(manifestTemps) \in Nat /\ LinesTake(journal, torn) \in Nat
  BY <1>2, OthersType
<1>4. /\ NewCapture.image \in temps /\ layout # "none"
      /\ Others + ManifestBytes(goal) + 2 * LineBytes <= MaxBundle
  BY <1>1 DEF SizeInv, RoomInv
<1>5. /\ IsFiniteSet(files') /\ IsFiniteSet(temps')
      /\ ImagesTake(files', temps') \in Nat
      /\ ImagesTake(files', temps') <= ImagesTake(files, temps)
  <2> DEFINE c == NewCapture
             x == NewCapture.image
  <2>1. IsFiniteSet(files) /\ IsFiniteSet(temps) /\ x \in temps
    BY <1>2, <1>4 DEF Finite
  <2> HIDE DEF c, x
  <2>2. /\ IsFiniteSet(files \cup {c}) /\ IsFiniteSet(temps \ {x})
        /\ ImagesTake(files \cup {c}, temps \ {x}) \in Nat
        /\ ImagesTake(files \cup {c}, temps \ {x}) <= ImagesTake(files, temps)
    BY <2>1, ImagesTakeFacts
  <2> QED
    BY <1>1, <2>2 DEF c, x
<1>6. Others' \in Nat /\ Others' <= Others
  <2>1. Others' = ImagesTake(files', temps') + SumOfManifests(manifestTemps)
                    + LinesTake(journal, torn)
    BY <1>1 DEF Others
  <2> QED
    BY <1>3, <1>5, <2>1 DEF Others
<1>7. Finite'
  BY <1>1, <1>2, <1>5 DEF Finite
<1>8. Others' + ManifestBytes(goal)' + 2 * LineBytes <= MaxBundle /\ Others' <= MaxBundle
  <2>1. ManifestBytes(goal)' = ManifestBytes(goal)
    BY <1>1 DEF ManifestBytes
  <2> QED
    BY <1>3, <1>4, <1>6, <2>1, StoreAssumption
<1> QED
  BY <1>1, <1>4, <1>7, <1>8 DEF RoomInv, Creating, Listing

LEMMA WriterHasRoom ==
  ASSUME SizeInv, SyncCaptures \/ SyncJournal \/ SyncManifest
  PROVE  Finite' /\ RoomInv'
<1>1. SameOthers /\ layout' = layout /\ pc # "idle"
  BY DEF SyncCaptures, SyncJournal, SyncManifest, captureVars, manifestVars,
         journalVars, SameOthers
<1>2. Others' = Others /\ Finite'
  BY <1>1, OthersStay DEF SizeInv
<1>3. layout' # "none" /\ (Others <= MaxBundle \/ Others <= LineBytes)
  BY <1>1 DEF SizeInv, RoomInv
<1>4. CASE SyncCaptures
  <2>1. pc = "sync_captures" /\ pc' = "log_capture" /\ goal' = goal
    BY <1>4 DEF SyncCaptures
  <2>2. Others + ManifestBytes(goal) + 2 * LineBytes <= MaxBundle
    BY <2>1 DEF SizeInv, RoomInv
  <2> QED
    BY <1>2, <1>3, <2>1, <2>2 DEF RoomInv, Creating, Listing, ManifestBytes
<1>5. CASE SyncJournal
  <2>1. CASE pc = "sync_capture"
    <3>1. pc' = "write_manifest" /\ goal' = goal
      BY <1>5, <2>1 DEF SyncJournal
    <3>2. Others + ManifestBytes(goal) + LineBytes <= MaxBundle
      BY <2>1 DEF SizeInv, RoomInv
    <3> QED
      BY <1>2, <1>3, <3>1, <3>2 DEF RoomInv, Creating, Listing, ManifestBytes
  <2>2. CASE pc # "sync_capture"
    <3>1. pc' = "idle"
      BY <1>5, <2>2 DEF SyncJournal
    <3> QED
      BY <1>2, <1>3, <3>1 DEF RoomInv, Creating, Listing
  <2> QED
    BY <2>1, <2>2
<1>6. CASE SyncManifest
  <2>1. pc = "sync_manifest" /\ pc' = "log_manifest"
    BY <1>6 DEF SyncManifest
  <2>2. Others + LineBytes <= MaxBundle
    BY <2>1 DEF SizeInv, RoomInv, Listing
  <2> QED
    BY <1>2, <1>3, <2>1, <2>2 DEF RoomInv, Creating, Listing
<1> QED
  BY <1>4, <1>5, <1>6

\* An action that changes nothing but the journal.
LEMMA LinesMove ==
  ASSUME TypeOK, Finite, UNCHANGED <<files, temps, manifestTemps>>,
         LinesTake(journal, torn)' \in Nat
  PROVE  /\ Finite'
         /\ Others' \in Nat
         /\ LinesTake(journal, torn)' <= LinesTake(journal, torn) => Others' <= Others
         /\ LinesTake(journal, torn)' <= LinesTake(journal, torn) + LineBytes
              => Others' <= Others + LineBytes
<1> DEFINE a == ImagesTake(files, temps)
           b == SumOfManifests(manifestTemps)
           c == LinesTake(journal, torn)
           d == LinesTake(journal, torn)'
<1>1. a \in Nat /\ b \in Nat /\ c \in Nat /\ d \in Nat /\ LineBytes \in Nat
  BY OthersType, StoreAssumption
<1>2. Others = a + b + c /\ Others' = a + b + d
  BY DEF Others, ImagesTake, SumOfManifests
<1>3. Finite'
  BY DEF Finite
<1> HIDE DEF a, b, c, d
<1>4. /\ a + b + d \in Nat
      /\ d <= c => a + b + d <= a + b + c
      /\ d <= c + LineBytes => a + b + d <= a + b + c + LineBytes
  BY <1>1
<1> QED
  BY <1>2, <1>3, <1>4 DEF c, d

LEMMA TruncateTailHasRoom ==
  ASSUME SizeInv, TruncateTail
  PROVE  Finite' /\ RoomInv'
<1>1. /\ pc \in Logging /\ torn /\ torn' = FALSE
      /\ UNCHANGED <<layout, files, synced, temps, manifest, manifestTemps, journal, pc, goal>>
  BY DEF TruncateTail, captureVars, manifestVars
<1>2. TypeOK /\ Finite
  BY DEF SizeInv, SessionInv, StoreInv
<1>3. /\ Others \in Nat /\ Len(journal) \in Nat /\ torn \in BOOLEAN
      /\ ManifestBytes(goal) \in Nat
  BY <1>2, OthersType DEF TypeOK
<1>4. /\ LinesTake(journal, FALSE) \in Nat
      /\ LinesTake(journal, FALSE) <= LinesTake(journal, torn)
  <2>1. /\ LinesTake(journal, torn) \in Nat
        /\ \A other : \A end \in BOOLEAN :
             Len(other) \in 0..Len(journal) /\ (end => torn \/ Len(other) < Len(journal)) =>
               /\ LinesTake(other, end) \in Nat
               /\ LinesTake(other, end) <= LinesTake(journal, torn)
    BY <1>3, LinesTakeFacts
  <2>2. Len(journal) \in 0..Len(journal)
    BY <1>3
  <2> QED
    BY <2>1, <2>2, FALSE \in BOOLEAN
<1>5. LinesTake(journal, torn)' = LinesTake(journal, FALSE)
  BY <1>1 DEF LinesTake
<1>6. Finite' /\ Others' \in Nat /\ Others' <= Others
  BY <1>1, <1>2, <1>4, <1>5, LinesMove
<1>7. layout # "none" /\ ManifestBytes(goal)' = ManifestBytes(goal)
      /\ pc' = pc /\ layout' = layout /\ NewCapture' = NewCapture
  BY <1>1 DEF SizeInv, RoomInv, ManifestBytes, NewCapture, Logging
<1>8. RoomInv
  BY DEF SizeInv
<1>9. /\ Others' <= MaxBundle \/ Others' <= LineBytes
      /\ Others = 0 => Others' = 0
      /\ \A more \in Nat : Others + more <= MaxBundle => Others' + more <= MaxBundle
  <2> DEFINE a == Others'
             b == Others
  <2>1. a \in Nat /\ b \in Nat /\ a <= b /\ (b <= MaxBundle \/ b <= LineBytes)
    BY <1>3, <1>6, <1>8 DEF RoomInv
  <2> HIDE DEF a, b
  <2>2. LineBytes \in Nat /\ MaxBundle \in Nat
    BY StoreAssumption
  <2>3. /\ a <= MaxBundle \/ a <= LineBytes
        /\ b = 0 => a = 0
        /\ \A more \in Nat : b + more <= MaxBundle => a + more <= MaxBundle
    BY <2>1, <2>2
  <2> QED
    BY <2>3 DEF a, b
<1>10. CASE pc = "log_session"
  BY <1>1, <1>6, <1>7, <1>8, <1>9, <1>10 DEF RoomInv, Creating, Listing
<1>11. CASE pc = "log_capture"
  <2>1. Others + (ManifestBytes(goal) + 2 * LineBytes) <= MaxBundle
    <3>1. Others + ManifestBytes(goal) + 2 * LineBytes <= MaxBundle
      BY <1>8, <1>11 DEF RoomInv
    <3> DEFINE b == Others
               m == ManifestBytes(goal)
    <3>2. b \in Nat /\ m \in Nat /\ b + m + 2 * LineBytes <= MaxBundle
      BY <1>3, <3>1
    <3> HIDE DEF b, m
    <3>3. b + (m + 2 * LineBytes) <= MaxBundle
      BY <3>2, StoreAssumption
    <3> QED
      BY <3>3 DEF b, m
  <2>2. ManifestBytes(goal) + 2 * LineBytes \in Nat
    BY <1>3, StoreAssumption
  <2>3. Others' + (ManifestBytes(goal) + 2 * LineBytes) <= MaxBundle
    BY <1>9, <2>1, <2>2
  <2>4. Others' + ManifestBytes(goal) + 2 * LineBytes <= MaxBundle
    <3> DEFINE a == Others'
               m == ManifestBytes(goal)
    <3>1. a \in Nat /\ m \in Nat /\ a + (m + 2 * LineBytes) <= MaxBundle
      BY <1>3, <1>6, <2>3
    <3> HIDE DEF a, m
    <3>2. a + m + 2 * LineBytes <= MaxBundle
      BY <3>1, StoreAssumption
    <3> QED
      BY <3>2 DEF a, m
  <2> QED
    BY <1>1, <1>6, <1>7, <1>9, <1>11, <2>4 DEF RoomInv, Creating, Listing
<1>12. CASE pc = "log_manifest"
  <2>1. Others + LineBytes <= MaxBundle
    BY <1>8, <1>12 DEF RoomInv, Listing
  <2>2. Others' + LineBytes <= MaxBundle
    BY <1>9, <2>1, StoreAssumption
  <2> QED
    BY <1>1, <1>6, <1>7, <1>9, <1>12, <2>2 DEF RoomInv, Creating, Listing
<1> QED
  BY <1>1, <1>10, <1>11, <1>12 DEF Logging

LEMMA WriteLineHasRoom ==
  ASSUME SizeInv, WriteLine
  PROVE  Finite' /\ RoomInv'
<1>1. /\ pc \in Logging /\ journal' = Append(journal, LineToLog)
      /\ UNCHANGED <<layout, files, temps, manifestTemps, torn, goal>>
  BY DEF WriteLine, captureVars, manifestVars
<1>2. TypeOK /\ Finite /\ WriterInv
  BY DEF SizeInv, SessionInv, StoreInv
<1>3. /\ Others \in Nat /\ Len(journal) \in Nat /\ torn \in BOOLEAN
      /\ LinesTake(journal, torn) \in Nat
      /\ ManifestBytes(goal) \in Nat /\ LineBytes \in Nat
  BY <1>2, OthersType, StoreAssumption DEF TypeOK
<1>4. Len(journal') = Len(journal) + 1
  <2>1. LineToLog \in JournalLine
    BY <1>1, <1>2, LineToLogType
  <2>2. journal \in Seq(JournalLine)
    BY <1>2 DEF TypeOK
  <2> QED
    BY <1>1, <2>1, <2>2
<1>5. LinesTake(journal', torn) = LinesTake(journal, torn) + LineBytes
  <2> DEFINE new == journal'
  <2>1. Len(new) = Len(journal) + 1
    BY <1>4
  <2> HIDE DEF new
  <2>2. LinesTake(new, torn) = LinesTake(journal, torn) + LineBytes
    BY <1>3, <2>1, LinesTakeFacts
  <2> QED
    BY <2>2 DEF new
<1>6. LinesTake(journal, torn)' = LinesTake(journal, torn) + LineBytes
  BY <1>1, <1>5 DEF LinesTake
<1>7. Finite' /\ Others' \in Nat /\ Others' <= Others + LineBytes
  <2>1. LinesTake(journal, torn)' \in Nat
        /\ LinesTake(journal, torn)' <= LinesTake(journal, torn) + LineBytes
    BY <1>3, <1>6
  <2> QED
    BY <1>1, <1>2, <2>1, LinesMove
<1>8. layout' # "none" /\ ManifestBytes(goal)' = ManifestBytes(goal) /\ RoomInv
  BY <1>1 DEF SizeInv, RoomInv, ManifestBytes, Logging
<1>9. CASE pc = "log_session"
  <2>1. pc' = "sync_session" /\ Others = 0
    BY <1>8, <1>9 DEF WriteLine, RoomInv, Creating
  <2> QED
    BY <1>3, <1>7, <1>8, <2>1 DEF RoomInv, Creating, Listing
<1>10. CASE pc = "log_capture"
  <2>1. pc' = "sync_capture"
    BY <1>10 DEF WriteLine
  <2>2. Others + ManifestBytes(goal) + 2 * LineBytes <= MaxBundle
    BY <1>8, <1>10 DEF RoomInv
  <2>3. Others' + ManifestBytes(goal)' + LineBytes <= MaxBundle /\ Others' <= MaxBundle
    BY <1>3, <1>7, <1>8, <2>2, StoreAssumption
  <2> QED
    BY <1>7, <1>8, <2>1, <2>3 DEF RoomInv, Creating, Listing
<1>11. CASE pc = "log_manifest"
  <2>1. pc' = "sync_outcome"
    BY <1>11 DEF WriteLine
  <2>2. Others + LineBytes <= MaxBundle
    BY <1>8, <1>11 DEF RoomInv, Listing
  <2>3. Others' <= MaxBundle
    BY <1>3, <1>7, <2>2, StoreAssumption
  <2> QED
    BY <1>7, <1>8, <2>1, <2>3 DEF RoomInv, Creating, Listing
<1> QED
  BY <1>1, <1>9, <1>10, <1>11 DEF Logging

\* An action that changes nothing but what manifests lie about.
LEMMA ManifestsMove ==
  ASSUME TypeOK, Finite, UNCHANGED <<files, temps, journal, torn>>,
         NEW m \in Manifest,
         \/ manifestTemps' = manifestTemps \cup {m}
         \/ manifestTemps' = manifestTemps \ {m}
  PROVE  /\ Finite'
         /\ Others' \in Nat
         /\ manifestTemps' = manifestTemps \cup {m} => Others' <= Others + ManifestBytes(m)
         /\ manifestTemps' = manifestTemps \ {m} => Others' <= Others
<1> DEFINE a == ImagesTake(files, temps)
           b == SumOfManifests(manifestTemps)
           c == LinesTake(journal, torn)
           d == SumOfManifests(manifestTemps')
           more == SumOfManifests(manifestTemps \cup {m})
           less == SumOfManifests(manifestTemps \ {m})
           k == ManifestBytes(m)
<1>1. a \in Nat /\ b \in Nat /\ c \in Nat
  BY OthersType
<1>2. manifestTemps \in SUBSET Manifest /\ IsFiniteSet(manifestTemps)
  BY DEF TypeOK, Finite
<1>3. more \in Nat /\ more <= b + k /\ less \in Nat /\ less <= b /\ k \in Nat
  BY <1>2, SumOfSome, ManifestBytesType
<1>4. Others = a + b + c /\ Others' = a + d + c
  BY DEF Others, ImagesTake, SumOfManifests, LinesTake
<1>5. IsFiniteSet(manifestTemps')
  BY <1>2, FS_AddElement, FS_RemoveElement
<1>6. Finite'
  BY <1>5 DEF Finite
<1>7. /\ manifestTemps' = manifestTemps \cup {m} => d = more
      /\ manifestTemps' = manifestTemps \ {m} => d = less
      /\ d = more \/ d = less
  OBVIOUS
<1> HIDE DEF a, b, c, d, more, less, k
<1>8. /\ a + d + c \in Nat
      /\ d = more => a + d + c <= a + b + c + k
      /\ d = less => a + d + c <= a + b + c
  BY <1>1, <1>3, <1>7
<1> QED
  BY <1>4, <1>6, <1>7, <1>8 DEF k

LEMMA WriteManifestHasRoom ==
  ASSUME SizeInv, WriteManifest
  PROVE  Finite' /\ RoomInv'
<1>1. /\ pc = "write_manifest" /\ pc' = "rename_manifest"
      /\ manifestTemps' = manifestTemps \cup {goal}
      /\ UNCHANGED <<layout, files, temps, journal, torn>>
  BY DEF WriteManifest, captureVars, journalVars
<1>2. TypeOK /\ Finite /\ goal \in Manifest
  BY DEF SizeInv, SessionInv, StoreInv, TypeOK
<1>3. Others \in Nat /\ ManifestBytes(goal) \in Nat
  BY <1>2, OthersType
<1>4. Finite' /\ Others' \in Nat /\ Others' <= Others + ManifestBytes(goal)
  BY <1>1, <1>2, ManifestsMove
<1>5. Others + ManifestBytes(goal) + LineBytes <= MaxBundle /\ layout # "none"
  BY <1>1 DEF SizeInv, RoomInv
<1>6. Others' + LineBytes <= MaxBundle /\ Others' <= MaxBundle
  <2> DEFINE a == Others'
             b == Others + ManifestBytes(goal)
  <2>1. a \in Nat /\ b \in Nat /\ a <= b /\ b + LineBytes <= MaxBundle
    BY <1>3, <1>4, <1>5
  <2> HIDE DEF a, b
  <2>2. a + LineBytes <= MaxBundle /\ a <= MaxBundle
    BY <2>1, LessFits
  <2> QED
    BY <2>2 DEF a
<1> QED
  BY <1>1, <1>4, <1>5, <1>6 DEF RoomInv, Creating, Listing

LEMMA BeginReplaceHasRoom ==
  ASSUME SizeInv, NEW note \in Note, BeginReplace(note)
  PROVE  Finite' /\ RoomInv'
<1> DEFINE new == [manifest EXCEPT !.note = NoteAfter(manifest, note)]
<1>1. /\ layout = "ready" /\ pc' = "rename_manifest" /\ ReplaceFits(new)
      /\ manifestTemps' = manifestTemps \cup {new}
      /\ UNCHANGED <<layout, files, temps, journal, torn>>
  BY DEF BeginReplace, captureVars, journalVars
<1>2. TypeOK /\ Finite /\ new \in Manifest
  BY DEF SizeInv, SessionInv, StoreInv, TypeOK, Manifest, NoteAfter
<1> HIDE DEF new
<1>3. /\ Others \in Nat /\ ManifestBytes(new) \in Nat /\ ManifestBytes(manifest) \in Nat
      /\ SessionSize = Others + ManifestBytes(manifest)
  BY <1>2, OthersType, ManifestBytesType
<1>4. Finite' /\ Others' \in Nat /\ Others' <= Others + ManifestBytes(new)
  BY <1>1, <1>2, ManifestsMove
<1>5. Others' + LineBytes <= MaxBundle /\ Others' <= MaxBundle
  <2> DEFINE a == Others'
             b == Others + ManifestBytes(new)
  <2>1. a \in Nat /\ b \in Nat /\ a <= b
    BY <1>3, <1>4
  <2>2. b + LineBytes <= MaxBundle
    <3>1. SessionSize - ManifestBytes(manifest) + ManifestBytes(new) + LineBytes <= MaxBundle
      BY <1>1 DEF ReplaceFits
    <3> DEFINE o == Others
               m == ManifestBytes(manifest)
               n == ManifestBytes(new)
               z == SessionSize
    <3>2. o \in Nat /\ m \in Nat /\ n \in Nat /\ z = o + m
      BY <1>3
    <3>3. z - m + n + LineBytes <= MaxBundle
      BY <3>1
    <3> HIDE DEF o, m, n, z
    <3>4. LineBytes \in Nat /\ MaxBundle \in Nat
      BY StoreAssumption
    <3>5. o + n + LineBytes <= MaxBundle
      BY <3>2, <3>3, <3>4
    <3> QED
      BY <3>5 DEF o, n
  <2> HIDE DEF a, b
  <2>3. a + LineBytes <= MaxBundle /\ a <= MaxBundle
    BY <2>1, <2>2, LessFits
  <2> QED
    BY <2>3 DEF a
<1> QED
  BY <1>1, <1>4, <1>5 DEF RoomInv, Creating, Listing

LEMMA RenameManifestHasRoom ==
  ASSUME SizeInv, RenameManifest
  PROVE  Finite' /\ RoomInv'
<1>1. /\ pc = "rename_manifest" /\ pc' = "sync_manifest"
      /\ manifestTemps' = manifestTemps \ {goal}
      /\ UNCHANGED <<layout, files, temps, journal, torn>>
  BY DEF RenameManifest, captureVars, journalVars
<1>2. TypeOK /\ Finite /\ goal \in Manifest
  BY DEF SizeInv, SessionInv, StoreInv, TypeOK
<1>3. Others \in Nat
  BY <1>2, OthersType
<1>4. Finite' /\ Others' \in Nat /\ Others' <= Others
  BY <1>1, <1>2, ManifestsMove
<1>5. Others + LineBytes <= MaxBundle /\ layout # "none"
  BY <1>1 DEF SizeInv, RoomInv, Listing
<1>6. Others' + LineBytes <= MaxBundle /\ Others' <= MaxBundle
  <2> DEFINE a == Others'
             b == Others
  <2>1. a \in Nat /\ b \in Nat /\ a <= b /\ b + LineBytes <= MaxBundle
    BY <1>3, <1>4, <1>5
  <2> HIDE DEF a, b
  <2>2. a + LineBytes <= MaxBundle /\ a <= MaxBundle
    BY <2>1, LessFits
  <2> QED
    BY <2>2 DEF a
<1> QED
  BY <1>1, <1>4, <1>5, <1>6 DEF RoomInv, Creating, Listing

\* A part of a line may be left: there was room for the whole.
LEMMA InterruptHasRoom ==
  ASSUME SizeInv, Interrupt
  PROVE  Finite' /\ RoomInv'
<1>1. /\ pc # "idle" /\ pc' = "idle"
      /\ torn' \in BOOLEAN /\ (pc \notin Logging => torn' = torn)
      /\ UNCHANGED <<layout, files, temps, manifestTemps, journal>>
  BY DEF Interrupt, captureVars, manifestVars, SizeInv, SessionInv, StoreInv, TypeOK
<1>2. TypeOK /\ Finite /\ RoomInv
  BY DEF SizeInv, SessionInv, StoreInv
<1>3. /\ Others \in Nat /\ Len(journal) \in Nat /\ torn \in BOOLEAN
      /\ LinesTake(journal, torn) \in Nat
      /\ ManifestBytes(goal) \in Nat /\ LineBytes \in Nat
  BY <1>2, OthersType, StoreAssumption DEF TypeOK
<1>4. /\ LinesTake(journal, torn)' \in Nat
      /\ LinesTake(journal, torn)' <= LinesTake(journal, torn) + LineBytes
  <2> DEFINE end == torn'
  <2>1. end \in BOOLEAN
    BY <1>1
  <2> HIDE DEF end
  <2>2. /\ LinesTake(journal, end) \in Nat
        /\ LinesTake(journal, end) <= LinesTake(journal, torn) + LineBytes
    BY <1>3, <2>1, LinesTakeFacts
  <2> QED
    BY <1>1, <2>2 DEF end, LinesTake
<1>5. Finite' /\ Others' \in Nat /\ Others' <= Others + LineBytes
  BY <1>1, <1>2, <1>4, LinesMove
<1>6. layout' # "none"
  BY <1>1, <1>2 DEF RoomInv
<1>7. Others' <= MaxBundle \/ Others' <= LineBytes
  <2>1. CASE pc = "log_session"
    <3>1. Others = 0
      BY <1>2, <2>1 DEF RoomInv, Creating
    <3> QED
      BY <1>3, <1>5, <3>1
  <2>2. CASE pc \in {"log_capture", "log_manifest"}
    <3>1. Others + LineBytes <= MaxBundle
      BY <1>2, <1>3, <2>2, StoreAssumption DEF RoomInv, Listing
    <3> QED
      BY <1>3, <1>5, <3>1, StoreAssumption
  <2>3. CASE pc \notin Logging
    <3>1. Others' = Others
      BY <1>1, <2>3, OthersStay DEF SameOthers
    <3> QED
      BY <1>2, <3>1 DEF RoomInv
  <2> QED
    BY <2>1, <2>2, <2>3 DEF Logging
<1> QED
  BY <1>1, <1>5, <1>6, <1>7 DEF RoomInv, Creating, Listing

LEMMA PowerFailureHasRoom ==
  ASSUME SizeInv, PowerFailure
  PROVE  Finite' /\ RoomInv'
<1>1. /\ pc' = "idle" /\ layout' = layout
      /\ files' \in SUBSET files /\ temps' \in SUBSET temps
      /\ manifestTemps' \in {manifestTemps, {}}
  BY DEF PowerFailure
<1>2. TypeOK /\ Finite /\ RoomInv
  BY DEF SizeInv, SessionInv, StoreInv
<1>3. /\ Others \in Nat /\ Len(journal) \in Nat /\ torn \in BOOLEAN
      /\ ImagesTake(files, temps) \in Nat
      /\ SumOfManifests(manifestTemps) \in Nat
      /\ LinesTake(journal, torn) \in Nat
  BY <1>2, OthersType DEF TypeOK
<1>4. /\ IsFiniteSet(files') /\ IsFiniteSet(temps')
      /\ ImagesTake(files', temps') \in Nat
      /\ ImagesTake(files', temps') <= ImagesTake(files, temps)
  BY <1>1, <1>2, ImagesTakeFacts DEF Finite
<1>5. /\ IsFiniteSet(manifestTemps')
      /\ SumOfManifests(manifestTemps') \in Nat
      /\ SumOfManifests(manifestTemps') <= SumOfManifests(manifestTemps)
  <2>1. IsFiniteSet({}) /\ SumOfManifests({}) = 0
    BY NoManifestType, FS_EmptySet, SumOfSome
  <2>2. IsFiniteSet(manifestTemps)
    BY <1>2 DEF Finite
  <2> DEFINE left == manifestTemps'
  <2>3. left \in {manifestTemps, {}}
    BY <1>1
  <2> HIDE DEF left
  <2>4. /\ IsFiniteSet(left)
        /\ SumOfManifests(left) \in Nat
        /\ SumOfManifests(left) <= SumOfManifests(manifestTemps)
    <3>1. CASE left = manifestTemps
      BY <3>1, <1>3, <2>2
    <3>2. CASE left = {}
      BY <3>2, <1>3, <2>1
    <3> QED
      BY <2>3, <3>1, <3>2
  <2> QED
    BY <2>4 DEF left
<1>6. /\ LinesTake(journal', torn') \in Nat
      /\ LinesTake(journal', torn') <= LinesTake(journal, torn)
  <2>1. PICK kept \in journalSynced..Len(journal) :
          /\ journal' = SubSeq(journal, 1, kept)
          /\ torn' \in {FALSE, torn \/ kept < Len(journal)}
    BY DEF PowerFailure
  <2>2. kept \in 0..Len(journal) /\ Len(journal') = kept
    <3>1. journal \in Seq(JournalLine) /\ journalSynced \in 0..Len(journal)
      BY <1>2 DEF TypeOK
    <3>2. kept \in 0..Len(journal)
      BY <1>3, <3>1
    <3> QED
      BY <2>1, <3>1, <3>2
  <2> DEFINE new == journal'
             end == torn'
  <2>3. /\ Len(new) \in 0..Len(journal) /\ end \in BOOLEAN
        /\ end => torn \/ Len(new) < Len(journal)
    BY <1>3, <2>1, <2>2
  <2> HIDE DEF new, end
  <2>4. LinesTake(new, end) \in Nat /\ LinesTake(new, end) <= LinesTake(journal, torn)
    BY <1>3, <2>3, LinesTakeFacts
  <2> QED
    BY <2>4 DEF new, end
<1>7. Others' \in Nat /\ Others' <= Others
  <2>1. Others' = ImagesTake(files', temps') + SumOfManifests(manifestTemps')
                    + LinesTake(journal', torn')
    BY DEF Others
  <2> QED
    BY <1>3, <1>4, <1>5, <1>6, <2>1 DEF Others
<1>8. Finite'
  BY <1>4, <1>5 DEF Finite
<1>9. layout = "none" => Others = 0
  BY <1>2 DEF RoomInv
<1>10. Others' <= MaxBundle \/ Others' <= LineBytes
  BY <1>2, <1>3, <1>7, StoreAssumption DEF RoomInv
<1>11. layout' = "none" => Others' = 0
  BY <1>1, <1>3, <1>7, <1>9
<1> QED
  BY <1>1, <1>8, <1>10, <1>11 DEF RoomInv, Creating, Listing

LEMMA LoseSessionHasRoom ==
  ASSUME SizeInv, LoseSession
  PROVE  Finite' /\ RoomInv'
<1>1. /\ pc' = "idle" /\ journal' = <<>> /\ torn' = FALSE
      /\ files' \in SUBSET files /\ temps' \in SUBSET temps
      /\ layout' = "none" => files' = {} /\ temps' = {}
      /\ journalSynced = 0 /\ manifestTemps' = manifestTemps
  BY DEF LoseSession, manifestVars
<1>2. TypeOK /\ Finite /\ RoomInv /\ manifestTemps = {}
  BY <1>1 DEF SizeInv, SessionInv, StoreInv, UnlistedInv
<1>3. /\ Others \in Nat /\ Len(journal) \in Nat /\ torn \in BOOLEAN
      /\ ImagesTake(files, temps) \in Nat
      /\ SumOfManifests(manifestTemps) \in Nat
      /\ LinesTake(journal, torn) \in Nat
  BY <1>2, OthersType DEF TypeOK
<1>4. /\ IsFiniteSet(files') /\ IsFiniteSet(temps')
      /\ ImagesTake(files', temps') \in Nat
      /\ ImagesTake(files', temps') <= ImagesTake(files, temps)
  BY <1>1, <1>2, ImagesTakeFacts DEF Finite
<1>5. SumOfManifests(manifestTemps) = 0
  BY <1>2, NoManifestType, FS_EmptySet, SumOfSome
<1>6. LinesTake(<<>>, FALSE) = 0
  BY StoreAssumption DEF LinesTake
<1>7. Others' = ImagesTake(files', temps')
  <2> DEFINE images == ImagesTake(files', temps')
             manifests == SumOfManifests(manifestTemps)
             lines == LinesTake(<<>>, FALSE)
  <2>1. Others' = images + manifests + lines
    BY <1>1 DEF Others
  <2>2. images \in Nat /\ manifests = 0 /\ lines = 0
    BY <1>4, <1>5, <1>6
  <2> HIDE DEF images, manifests, lines
  <2>3. Others' = images
    BY <2>1, <2>2
  <2> QED
    BY <2>3 DEF images
<1>8. Others' \in Nat /\ Others' <= Others
  BY <1>3, <1>4, <1>7 DEF Others
<1>9. layout' = "none" => Others' = 0
  <2>1. ImagesTake({}, {}) = 0
    BY FS_EmptySet, StoreAssumption DEF ImagesTake
  <2> QED
    BY <1>1, <1>7, <2>1
<1>10. Finite'
  BY <1>1, <1>2, <1>4 DEF Finite
<1>11. Others' <= MaxBundle \/ Others' <= LineBytes
  BY <1>2, <1>3, <1>8, StoreAssumption DEF RoomInv
<1> QED
  BY <1>1, <1>9, <1>10, <1>11 DEF RoomInv, Creating, Listing

LEMMA SizeStep == SizeInv /\ [Next]_vars => SizeInv'
<1> SUFFICES ASSUME SizeInv, [Next]_vars PROVE SizeInv'
  OBVIOUS
<1>1. SessionInv'
  BY SessionStep DEF SizeInv
<1>2. CASE Next
  <2>1. ASSUME NEW image \in Image, NEW note \in Note, BeginPublish(image, note)
        PROVE  Finite' /\ RoomInv'
    BY <2>1, BeginPublishHasRoom
  <2>2. ASSUME NEW note \in Note, BeginReplace(note)
        PROVE  Finite' /\ RoomInv'
    BY <2>2, BeginReplaceHasRoom
  <2>3. Finite' /\ RoomInv'
    BY <1>2, <2>1, <2>2, CreateHasRoom, RenameCaptureHasRoom, WriterHasRoom,
       TruncateTailHasRoom, WriteLineHasRoom, WriteManifestHasRoom,
       RenameManifestHasRoom, InterruptHasRoom, PowerFailureHasRoom, LoseSessionHasRoom DEF Next
  <2> QED
    BY <1>1, <2>3 DEF SizeInv
<1>3. CASE UNCHANGED vars
  <2>1. SameOthers
    BY <1>3 DEF vars, captureVars, manifestVars, journalVars, SameOthers
  <2>2. Others' = Others /\ Finite'
    BY <2>1, OthersStay DEF SizeInv
  <2>3. UNCHANGED <<layout, pc, goal, temps>>
    BY <1>3 DEF vars, captureVars
  <2>4. RoomInv'
    BY <2>2, <2>3 DEF SizeInv, RoomInv, NewCapture, ManifestBytes
  <2> QED
    BY <1>1, <2>2, <2>4 DEF SizeInv
<1> QED
  BY <1>2, <1>3

\* The quota is kept through every operation, failure and restart: what an
\* operation will write is counted before it begins, and what failures leave
\* lying about is counted with the rest (session_size, and the checks of
\* publish_capture and replace_manifest).
THEOREM BundleStaysBounded == Spec => []BundleBounded
<1>1. Init => SizeInv
  BY SessionInitially, SizeInitially DEF SizeInv
<1>2. SizeInv => BundleBounded
  <2> SUFFICES ASSUME SizeInv PROVE BundleBounded
    OBVIOUS
  <2>1. /\ SessionSize = Others + ManifestBytes(manifest) /\ Others \in Nat
        /\ ManifestBytes(manifest) \in Nat
    BY OthersType DEF SizeInv, SessionInv, StoreInv
  <2>2. Others <= MaxBundle \/ Others <= LineBytes
    BY DEF SizeInv, RoomInv
  <2>3. \/ SessionSize <= MaxBundle + ManifestBytes(manifest)
        \/ SessionSize <= LineBytes + ManifestBytes(manifest)
    BY <2>1, <2>2, StoreAssumption
  <2> QED
    BY <2>3 DEF BundleBounded
<1> QED
  BY <1>1, <1>2, SizeStep, PTL DEF Spec

====
