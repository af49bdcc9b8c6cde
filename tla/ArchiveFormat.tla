--------------------------- MODULE ArchiveFormat ---------------------------
(***************************************************************************)
(* The export archive as a sequence of blocks: build_tar, the reader that  *)
(* takes the blocks apart again, and the checks of what it has read.       *)
(*                                                                         *)
(* A file is what was put in, a content is what comes out: its length and  *)
(* the parts it is made of.  Two contents have the same hash when they are *)
(* equal.  One byte of the model stands for any number of them.            *)
(***************************************************************************)
EXTENDS Naturals, Sequences, FiniteSets, Lists

CONSTANTS
  CapturePath,       \* the paths of captures, in the order of their names
  TarBlock,          \* TAR_BLOCK
  MaxArchiveBytes,   \* MAX_ARCHIVE_BYTES, and the limit of the bundle
  MaxCaptureCount    \* MAX_CAPTURE_COUNT

Manifest == "manifest.json"
Sums == "SHA256SUMS"

ASSUME FormatAssumption ==
  /\ TarBlock \in Nat \ {0} /\ MaxArchiveBytes \in Nat
  /\ CapturePath \in Seq(STRING \ {Manifest, Sums}) /\ IsInjective(CapturePath)
  /\ MaxCaptureCount \in 1..Len(CapturePath)

-----------------------------------------------------------------------------
\* Files and contents

ImageFile(nr, bytes) == [kind |-> "image", nr |-> nr, bytes |-> bytes]

\* The manifest lists the images with their lengths and hashes.
ManifestFile(images, note) ==
  [kind |-> "manifest", images |-> images, note |-> note,
   bytes |-> 1 + Len(images)]

\* A line with hash and path for every file.
SumsFile(files) ==
  [kind |-> "sums", lines |-> files, bytes |-> Cardinality(DOMAIN files)]

BlocksFor(bytes) == (bytes + TarBlock - 1) \div TarBlock

Part(file, i) == [file |-> file, part |-> i]
Parts(file) == [i \in 1..BlocksFor(file.bytes) |-> Part(file, i)]
Content(file) == [bytes |-> file.bytes, parts |-> Parts(file)]

\* What a reader can make of a content: the whole of a file of that kind.
\* Anything else is no JSON, no list of checksums, no PNG.
ReadsAs(content, kind) ==
  /\ content.parts # <<>>
  /\ content.parts[1].file.kind = kind
  /\ content = Content(content.parts[1].file)

FileIn(content) == content.parts[1].file

-----------------------------------------------------------------------------
\* build_tar

Junk == Part([kind |-> "junk"], 0)
Zero == [type |-> "zero"]
Data(part) == [type |-> "data", part |-> part]

\* sound: the checksum is that of the header's bytes.
Header(path, bytes) ==
  [type |-> "header", path |-> path, bytes |-> bytes, sound |-> TRUE]

\* append_tar_entry
Entry(path, file) ==
  <<Header(path, file.bytes)>>
    \o [i \in 1..BlocksFor(file.bytes) |-> Data(Part(file, i))]

\* The order of the names: the checksums, the captures, the manifest.
EntryOrder(files) ==
  Retain(<<Sums>> \o CapturePath \o <<Manifest>>, DOMAIN files)

EvidenceFiles(images, note) ==
  LET captures == {CapturePath[i] : i \in DOMAIN images}
  IN [path \in captures \cup {Manifest} |->
        IF path = Manifest THEN ManifestFile(images, note)
        ELSE images[CHOOSE i \in DOMAIN images : CapturePath[i] = path]]

WithSums(files) ==
  [path \in DOMAIN files \cup {Sums} |->
     IF path = Sums THEN SumsFile(files) ELSE files[path]]

Blocks(files) ==
  LET all == WithSums(files)
      order == EntryOrder(all)
  IN FlattenSeq([i \in DOMAIN order |-> Entry(order[i], all[order[i]])])
       \o <<Zero, Zero>>

\* ragged: the last block is not complete.
BuildTar(files) == [blocks |-> Blocks(files), ragged |-> FALSE]

ArchiveBytes(archive) == TarBlock * Len(archive.blocks)

-----------------------------------------------------------------------------
\* parse_archive_entries

MaxArchiveEntriesOld == MaxCaptureCount + 1
MaxArchiveEntries == MaxCaptureCount + 2

\* The reader between two blocks: the entries it has, the one it is in, how
\* much of that is missing, the zero blocks it has just seen, and a reason to
\* refuse the archive.
Reader(entries, open, missing, zeros, fault) ==
  [entries |-> entries, open |-> open, missing |-> missing, zeros |-> zeros,
   fault |-> fault]

NoEntries == [path \in {} |-> 0]
NotOpen == [path |-> "", bytes |-> 0, parts |-> <<>>]
AtStart == Reader(NoEntries, NotOpen, 0, 0, "")

Refuse(r, reason) == [r EXCEPT !.fault = reason]

\* An entry whose data are complete goes to the others.
Close(r, open) ==
  IF open.path \in DOMAIN r.entries
  THEN Refuse(r, "duplicate archive entry")
  ELSE Reader([path \in DOMAIN r.entries \cup {open.path} |->
                 IF path = open.path
                 THEN [bytes |-> open.bytes, parts |-> open.parts]
                 ELSE r.entries[path]],
              NotOpen, 0, 0, "")

\* A block where a header is expected; one zero block may stand anywhere.
ReadHeader(r, block) ==
  IF block.type = "zero" THEN [r EXCEPT !.zeros = @ + 1]
  ELSE IF block.type = "data" THEN Refuse(r, "no header")
  ELSE IF ~block.sound THEN Refuse(r, "archive header checksum mismatch")
  ELSE IF Cardinality(DOMAIN r.entries) >= MaxArchiveEntries
       THEN Refuse(r, "archive contains too many entries")
  ELSE LET open == [path |-> block.path, bytes |-> block.bytes, parts |-> <<>>]
       IN IF block.bytes = 0 THEN Close(r, open)
          ELSE Reader(r.entries, open, BlocksFor(block.bytes), 0, "")

\* The data of an entry are taken as they are, a header or zeros among them,
\* and the padding of the last block is not looked at.
ReadData(r, block) ==
  LET part == IF block.type = "data" THEN block.part ELSE Junk
      open == [r.open EXCEPT !.parts = Append(@, part)]
  IN IF r.missing = 1 THEN Close(r, open)
     ELSE Reader(r.entries, open, r.missing - 1, 0, "")

ReadBlock(r, block) ==
  IF r.fault # "" THEN r
  ELSE IF r.missing > 0 THEN ReadData(r, block)
  ELSE IF r.zeros = 2
       THEN IF block.type = "zero" THEN r ELSE Refuse(r, "data after its terminator")
  ELSE ReadHeader(IF block.type = "zero" THEN r ELSE [r EXCEPT !.zeros = 0], block)

ParseArchiveEntries(archive) ==
  LET r == FoldLeft(ReadBlock, AtStart, archive.blocks)
  IN IF ArchiveBytes(archive) > MaxArchiveBytes THEN Refuse(r, "too large")
     ELSE IF archive.ragged THEN Refuse(r, "archive is not block aligned")
     ELSE IF r.fault # "" THEN r
     ELSE IF r.missing > 0 THEN Refuse(r, "entry extends beyond archive")
     ELSE IF r.zeros < 2 THEN Refuse(r, "archive is missing its terminator")
     ELSE r

-----------------------------------------------------------------------------
\* verify_archive_entries

\* Every line of SHA256SUMS is about an entry with that hash, and every other
\* entry has a line.
SumsNameEntries(entries, lines) ==
  /\ DOMAIN lines \subseteq DOMAIN entries \ {Sums}
  /\ Cardinality(DOMAIN lines) + 1 = Cardinality(DOMAIN entries)

SumsMatch(entries, lines) ==
  /\ SumsNameEntries(entries, lines)
  /\ \A path \in DOMAIN lines : entries[path] = Content(lines[path])

\* The images are those the manifest lists, and there is nothing else.
ImagesMatch(entries, images) ==
  /\ \A i \in DOMAIN images :
       /\ CapturePath[i] \in DOMAIN entries
       /\ entries[CapturePath[i]] = Content(images[i])
  /\ Len(images) + 2 = Cardinality(DOMAIN entries)

Verifies(entries) ==
  /\ {Sums, Manifest} \subseteq DOMAIN entries
  /\ ReadsAs(entries[Sums], "sums")
  /\ SumsMatch(entries, FileIn(entries[Sums]).lines)
  /\ ReadsAs(entries[Manifest], "manifest")
  /\ ImagesMatch(entries, FileIn(entries[Manifest]).images)

\* verify_archive
Verified(archive) ==
  LET r == ParseArchiveEntries(archive)
  IN r.fault = "" /\ Verifies(r.entries)

Entries(archive) == ParseArchiveEntries(archive).entries

============================================================================
