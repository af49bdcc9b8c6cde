--------------------------- MODULE ExportArchive ---------------------------
(***************************************************************************)
(* What becomes of a session's export: export builds an archive of the     *)
(* manifest and the images it lists, checks it, and replaces the file of   *)
(* the last export; the file is carried somewhere, which may damage it;    *)
(* and it is extracted there, entry by entry, once it has been verified.   *)
(* The daemon may end, and the power fail, at any step.                    *)
(***************************************************************************)
EXTENDS ArchiveFormat

CONSTANTS
  ImageBytes,     \* the lengths of images
  Note,
  MaxDamage       \* bound: how much happens to an archive on its way

ASSUME ArchiveAssumption ==
  ImageBytes \subseteq Nat \ {0} /\ MaxDamage \in Nat

VARIABLES
  images,         \* the session: its captures, in order
  note,           \* and its note
  spoiled,        \* the captures whose file is no longer what was captured
  xpc,            \* where export_to_file is
  temp,           \* its temporary file: absent, partial or complete
  writing,        \* the archive it writes
  archive,        \* the file of the last export
  earlier,        \* the archive it has replaced
  copy,           \* the archive that is carried away
  damage,         \* how much has happened to it
  epc,            \* where the extraction is
  left,           \* the entries that are still to be written
  target,         \* the files of the destination
  stray           \* a temporary file is in the destination

sessionVars == <<images, note, spoiled>>
exportVars == <<xpc, temp, writing, archive, earlier>>
copyVars == <<copy, damage>>
extractVars == <<epc, left, target, stray>>
vars == <<sessionVars, exportVars, copyVars, extractVars>>

NoArchive == [blocks |-> <<>>, ragged |-> FALSE]

Init ==
  /\ images = <<>> /\ note \in Note /\ spoiled = {}
  /\ xpc = "idle" /\ temp = "absent"
  /\ writing = NoArchive /\ archive = NoArchive /\ earlier = NoArchive
  /\ copy = NoArchive /\ damage = 0
  /\ epc = "idle" /\ left = <<>> /\ target = NoEntries /\ stray = FALSE

-----------------------------------------------------------------------------
\* The session

Sum(s) == FoldLeft(LAMBDA a, b : a + b, 0, s)

\* What the store counts, but for the journal, which is not exported.
BundleBytes(files, n) ==
  Sum([i \in DOMAIN files |-> files[i].bytes]) + ManifestFile(files, n).bytes

\* Nothing else goes on when the session is changed: export has the lease, and
\* one archive is carried away, at last.
Quiet == xpc = "idle" /\ copy = NoArchive

AddCapture(bytes) ==
  LET files == Append(images, ImageFile(Len(images) + 1, bytes))
  IN /\ Quiet
     /\ Len(images) < MaxCaptureCount
     /\ BundleBytes(files, note) <= MaxArchiveBytes
     /\ images' = files
     /\ UNCHANGED <<note, spoiled, exportVars, copyVars, extractVars>>

Annotate(n) ==
  /\ Quiet /\ images # <<>>
  /\ note' = n
  /\ UNCHANGED <<images, spoiled, exportVars, copyVars, extractVars>>

\* Somebody changes or truncates an image on the disk.
SpoilImage(i) ==
  /\ Quiet
  /\ spoiled' = spoiled \cup {i}
  /\ UNCHANGED <<images, note, exportVars, copyVars, extractVars>>

-----------------------------------------------------------------------------
\* export_to_file

\* export: every image is what the manifest says, the archive is within the
\* limit, and it stands its own verification.
Exported == BuildTar(EvidenceFiles(images, note))

Exportable ==
  /\ images # <<>>
  /\ spoiled = {}
  /\ ArchiveBytes(Exported) <= MaxArchiveBytes
  /\ Verified(Exported)

BeginExport ==
  /\ Quiet
  /\ Exportable
  /\ xpc' = "create"
  /\ writing' = Exported
  /\ UNCHANGED <<temp, archive, earlier, sessionVars, copyVars, extractVars>>

ExportStep(from, to) == xpc = from /\ xpc' = to

\* A temporary file of the same name, left by a crash, is removed first.
CreateInPlace ==
  /\ ExportStep("create", "write")
  /\ archive' = [writing EXCEPT !.ragged = TRUE]
  /\ UNCHANGED <<temp, writing, earlier, sessionVars, copyVars, extractVars>>

CreateTemp ==
  /\ ExportStep("create", "write")
  /\ temp' = "partial"
  /\ UNCHANGED <<writing, archive, earlier, sessionVars, copyVars, extractVars>>

FillTempUnsynced ==
  /\ ExportStep("write", "rename")
  /\ UNCHANGED <<temp, writing, archive, earlier, sessionVars, copyVars,
                 extractVars>>

\* write_all and sync_all
FillTemp ==
  /\ ExportStep("write", "rename")
  /\ temp' = "complete"
  /\ UNCHANGED <<writing, archive, earlier, sessionVars, copyVars, extractVars>>

RenameTemp ==
  /\ ExportStep("rename", "sync")
  /\ earlier' = archive
  /\ archive' = IF temp = "complete" THEN writing
                ELSE [writing EXCEPT !.ragged = TRUE]
  /\ temp' = "absent"
  /\ UNCHANGED <<writing, sessionVars, copyVars, extractVars>>

\* sync_directory
SyncExports ==
  /\ ExportStep("sync", "idle")
  /\ writing' = NoArchive
  /\ UNCHANGED <<temp, archive, earlier, sessionVars, copyVars, extractVars>>

\* An I/O error, the end of the daemon, or the power fails: a rename that is
\* not on the disk yet may be lost.
ExportBreaksOff ==
  /\ xpc # "idle"
  /\ xpc' = "idle"
  /\ writing' = NoArchive
  /\ archive' \in {archive} \cup (IF xpc = "sync" THEN {earlier} ELSE {})
  /\ UNCHANGED <<temp, earlier, sessionVars, copyVars, extractVars>>

-----------------------------------------------------------------------------
\* The way of a copy

\* Taken of an export that is up to date, for what the session and the daemon
\* do afterwards does not matter to it.
Carry ==
  /\ Quiet /\ archive # NoArchive
  /\ temp = "absent" /\ spoiled = {} /\ archive = Exported
  /\ copy' = archive
  /\ UNCHANGED <<damage, sessionVars, exportVars, extractVars>>

\* Some bytes of a block have changed.
Flipped(block) ==
  CASE block.type = "header" -> [block EXCEPT !.sound = FALSE]
    [] OTHER -> Data(Junk)

\* One mishap: a block is changed, lost, wiped, doubled or out of order, is
\* still that of the earlier archive, or the end is cut off.
Mishaps(a) ==
  LET b == a.blocks
      old == earlier.blocks
      With(i, block) == [a EXCEPT !.blocks = ReplaceAt(b, i, block)]
  IN (UNION {{With(i, Flipped(b[i])), With(i, Zero),
              [a EXCEPT !.blocks = RemoveAt(b, i)],
              [a EXCEPT !.blocks = InsertAt(b, i, b[i])],
              [blocks |-> SubSeq(b, 1, i), ragged |-> TRUE],
              [a EXCEPT !.blocks = SubSeq(b, 1, i)]} : i \in DOMAIN b})
     \cup {With(i, old[i]) : i \in DOMAIN b \cap DOMAIN old}
     \cup {[a EXCEPT !.blocks = ReplaceAt(ReplaceAt(b, i, b[i + 1]), i + 1, b[i])]
            : i \in 1..Len(b) - 1}

Damage ==
  /\ copy # NoArchive /\ epc = "idle" /\ target = NoEntries
  /\ damage < MaxDamage
  /\ damage' = damage + 1
  /\ copy' \in Mishaps(copy)
  /\ UNCHANGED <<sessionVars, exportVars, extractVars>>

-----------------------------------------------------------------------------
\* extract_verified_archive

\* Only a destination that is empty is written to.
BeginExtract ==
  /\ copy # NoArchive /\ epc = "idle"
  /\ target = NoEntries /\ ~stray
  /\ Verified(copy)
  /\ epc' = "create"
  /\ left' = EntryOrder([path \in DOMAIN Entries(copy) \ {Sums} |-> {}])
  /\ UNCHANGED <<sessionVars, exportVars, copyVars, target, stray>>

\* atomic_create, for the next entry
CreateEntry ==
  /\ epc = "create" /\ left # <<>>
  /\ epc' = "rename"
  /\ stray' = TRUE
  /\ UNCHANGED <<sessionVars, exportVars, copyVars, left, target>>

RenameEntry ==
  /\ epc = "rename"
  /\ epc' = "create"
  /\ target' = [path \in DOMAIN target \cup {Head(left)} |-> Entries(copy)[path]]
  /\ left' = Tail(left)
  /\ stray' = FALSE
  /\ UNCHANGED <<sessionVars, exportVars, copyVars>>

FinishExtract ==
  /\ epc = "create" /\ left = <<>>
  /\ epc' = "done"
  /\ UNCHANGED <<sessionVars, exportVars, copyVars, left, target, stray>>

SkipEntry ==
  /\ epc \in {"create", "rename"} /\ left # <<>>
  /\ epc' = "create"
  /\ left' = Tail(left)
  /\ UNCHANGED <<sessionVars, exportVars, copyVars, target, stray>>

\* An error or the end of the program; what has been written stays.
ExtractBreaksOff ==
  /\ epc \in {"create", "rename"}
  /\ epc' = "idle"
  /\ left' = <<>>
  /\ UNCHANGED <<sessionVars, exportVars, copyVars, target, stray>>

-----------------------------------------------------------------------------

Next ==
  \/ \E bytes \in ImageBytes : AddCapture(bytes)
  \/ \E n \in Note : Annotate(n)
  \/ \E i \in DOMAIN images : SpoilImage(i)
  \/ BeginExport \/ CreateTemp \/ FillTemp \/ RenameTemp \/ SyncExports
  \/ ExportBreaksOff
  \/ Carry \/ Damage
  \/ BeginExtract \/ CreateEntry \/ RenameEntry \/ FinishExtract
  \/ ExtractBreaksOff

Spec == Init /\ [][Next]_vars

-----------------------------------------------------------------------------
\* Properties

\* Every variable stays in its range; a temporary archive is open exactly from
\* its creation to its renaming, or has been left behind.
TypeOK ==
  /\ Len(images) <= MaxCaptureCount
  /\ \A i \in DOMAIN images : images[i].nr = i /\ images[i].bytes \in ImageBytes
  /\ note \in Note /\ spoiled \subseteq DOMAIN images
  /\ xpc \in {"idle", "create", "write", "rename", "sync"}
  /\ temp \in {"absent", "partial", "complete"}
  /\ xpc = "write" => temp = "partial"
  /\ xpc = "rename" => temp = "complete"
  /\ damage \in 0..MaxDamage
  /\ epc \in {"idle", "create", "rename", "done"}
  /\ ToSet(left) \subseteq ToSet(CapturePath) \cup {Manifest}
  /\ epc = "rename" => stray

\* What an archive takes beyond the evidence: a header and padding for each
\* file, the checksums, and the terminator.
Overhead(n) == TarBlock * (n + 2) + (TarBlock - 1) * (n + 2) + (n + 1)
                 + 2 * TarBlock

\* Whatever session the store has let in, with as many captures as it may
\* have, can be exported while its images are intact, unless it is within the
\* overhead of the limit: the verification never refuses what was built.
ExportSucceeds ==
  images # <<>> /\ spoiled = {}
    /\ BundleBytes(images, note) + Overhead(Len(images)) <= MaxArchiveBytes
  => Exportable

\* The file of an export is there whole or not at all, whenever the daemon or
\* the power fails, and so is the one it replaces.
ArchiveWhole ==
  \A a \in {archive, earlier} : a = NoArchive \/ Verified(a)

\* A copy that passes the verification has every byte of every file of one
\* export: no mishap, and not a mixture of two exports, goes unnoticed.
DamageDetected ==
  copy # NoArchive /\ Verified(copy) =>
    \E a \in {archive, earlier} :
      a # NoArchive /\ Entries(copy) = Entries(a)

\* No file is extracted under its name but with its content, and an
\* extraction that ends well has written the manifest and all its images.
ExtractsWhole ==
  LET files == Entries(copy)
  IN /\ DOMAIN target \subseteq DOMAIN files \ {Sums}
     /\ \A path \in DOMAIN target : target[path] = files[path]
     /\ epc = "done" => /\ DOMAIN target = DOMAIN files \ {Sums}
                        /\ ~stray

============================================================================
