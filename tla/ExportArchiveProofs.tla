------------------------ MODULE ExportArchiveProofs ------------------------
(***************************************************************************)
(* The export archive for any evidence, block size and limits: an archive  *)
(* is there whole or not at all, no damage to a copy goes unnoticed, what  *)
(* is extracted is what was exported, and only its size keeps a session    *)
(* from being exported.                                                    *)
(***************************************************************************)
EXTENDS ExportArchive, ListLemmas

-----------------------------------------------------------------------------
\* What an archive is made of

\* The captures a session may have, and the files that are exported of it.
Image == [kind : {"image"}, nr : Nat, bytes : ImageBytes]

Session ==
  {s \in Seq(Image) :
     Len(s) <= MaxCaptureCount /\ \A i \in DOMAIN s : s[i].nr = i}

Evidence == {EvidenceFiles(s, n) : s \in Session, n \in Note}

PartsOf(files) ==
  {Part(WithSums(files)[path], i) : path \in DOMAIN WithSums(files), i \in Nat}

\* Blocks with the given parts, and what a reader can make of them.
Name == ToSet(CapturePath) \cup {Manifest, Sums, ""}

BlocksWith(parts) ==
  [type : {"zero"}] \cup [type : {"data"}, part : parts \cup {Junk}]
    \cup [type : {"header"}, path : Name, bytes : Nat, sound : BOOLEAN]

ContentsWith(parts) == [bytes : Nat, parts : Seq(parts \cup {Junk})]
EntriesWith(parts) == UNION {[names -> ContentsWith(parts)] : names \in SUBSET Name}

OpenWith(parts) == [path : Name, bytes : Nat, parts : Seq(parts \cup {Junk})]

Fault ==
  {"", "duplicate archive entry", "no header", "archive header checksum mismatch",
   "archive contains too many entries", "data after its terminator"}

ReadersWith(parts) ==
  [entries : EntriesWith(parts), open : OpenWith(parts),
   missing : Nat, zeros : Nat, fault : Fault]

LEMMA NamesAreFinite == IsFiniteSet(Name)
<1>1. IsFiniteSet(ToSet(CapturePath))
  <2>1. DOMAIN CapturePath = 1..Len(CapturePath) /\ Len(CapturePath) \in Nat
    BY FormatAssumption
  <2>2. IsFiniteSet(DOMAIN CapturePath)
    BY <2>1, FS_Interval
  <2>3. CapturePath \in Surjection(DOMAIN CapturePath, ToSet(CapturePath))
    BY FormatAssumption DEF Surjection, ToSet
  <2> QED
    BY <2>2, <2>3, FS_Surjection
<1>2. Name = (((ToSet(CapturePath) \cup {Manifest}) \cup {Sums}) \cup {""})
  BY DEF Name
<1> QED
  BY <1>1, <1>2, FS_AddElement

LEMMA EntriesTyped ==
  ASSUME NEW parts, NEW e
  PROVE  e \in EntriesWith(parts) <=>
           /\ DOMAIN e \subseteq Name
           /\ e \in [DOMAIN e -> ContentsWith(parts)]
  BY DEF EntriesWith

LEMMA BlocksNeeded ==
  ASSUME NEW bytes \in Nat
  PROVE  BlocksFor(bytes) \in Nat /\ (bytes # 0 => BlocksFor(bytes) # 0)
<1>1. TarBlock \in Nat /\ TarBlock > 0
  BY FormatAssumption
<1> QED
  BY <1>1 DEF BlocksFor

-----------------------------------------------------------------------------
\* The reader

LEMMA NoneIsSeq ==
  ASSUME NEW T
  PROVE  <<>> \in Seq(T)
  OBVIOUS

LEMMA ReaderTyped ==
  ASSUME NEW parts, NEW e \in EntriesWith(parts), NEW open \in OpenWith(parts),
         NEW missing \in Nat
  PROVE  Reader(e, open, missing, 0, "") \in ReadersWith(parts)
  BY DEF Reader, ReadersWith, Fault

LEMMA RefuseTyped ==
  ASSUME NEW parts, NEW r \in ReadersWith(parts), NEW reason \in Fault
  PROVE  Refuse(r, reason) \in ReadersWith(parts)
  BY DEF Refuse, ReadersWith

LEMMA AtStartTyped ==
  ASSUME NEW parts
  PROVE  NotOpen \in OpenWith(parts) /\ AtStart \in ReadersWith(parts)
<1>1. NoEntries \in EntriesWith(parts)
  <2>1. DOMAIN NoEntries \subseteq Name
        /\ NoEntries \in [DOMAIN NoEntries -> ContentsWith(parts)]
    BY DEF NoEntries
  <2> QED
    BY <2>1, EntriesTyped
<1>2. NotOpen \in OpenWith(parts)
  BY NoneIsSeq DEF NotOpen, OpenWith, Name
<1> QED
  BY <1>1, <1>2, ReaderTyped DEF AtStart

LEMMA CloseTyped ==
  ASSUME NEW parts, NEW r \in ReadersWith(parts),
         NEW open \in OpenWith(parts)
  PROVE  Close(r, open) \in ReadersWith(parts)
<1>1. CASE open.path \in DOMAIN r.entries
  BY <1>1, RefuseTyped DEF Close, Fault
<1>2. CASE open.path \notin DOMAIN r.entries
  <2> DEFINE e == [path \in DOMAIN r.entries \cup {open.path} |->
                     IF path = open.path
                     THEN [bytes |-> open.bytes, parts |-> open.parts]
                     ELSE r.entries[path]]
  <2>1. /\ DOMAIN r.entries \subseteq Name
        /\ r.entries \in [DOMAIN r.entries -> ContentsWith(parts)]
    <3>1. r.entries \in EntriesWith(parts)
      BY DEF ReadersWith
    <3> QED
      BY <3>1, EntriesTyped
  <2>2. DOMAIN e \subseteq Name /\ e \in [DOMAIN e -> ContentsWith(parts)]
    BY <2>1 DEF ContentsWith, OpenWith
  <2>3. e \in EntriesWith(parts)
    <3> HIDE DEF e
    <3> QED
      BY <2>2, EntriesTyped
  <2>4. Close(r, open) = Reader(e, NotOpen, 0, 0, "")
    BY <1>2 DEF Close
  <2> HIDE DEF e
  <2> QED
    BY <2>3, <2>4, AtStartTyped, ReaderTyped
<1> QED
  BY <1>1, <1>2

LEMMA ReadHeaderTyped ==
  ASSUME NEW parts, NEW r \in ReadersWith(parts), NEW block \in BlocksWith(parts)
  PROVE  ReadHeader(r, block) \in ReadersWith(parts)
<1>1. CASE block.type = "zero"
  <2>1. ReadHeader(r, block) = [r EXCEPT !.zeros = @ + 1]
    BY <1>1, Zenon DEF ReadHeader
  <2> QED
    BY <2>1 DEF ReadersWith
<1>2. CASE block.type = "data"
  <2>1. ReadHeader(r, block) = Refuse(r, "no header")
    BY <1>2, Zenon DEF ReadHeader
  <2> QED
    BY <2>1, RefuseTyped DEF Fault
<1>3. CASE block.type = "header"
  <2>1. block.path \in Name /\ block.bytes \in Nat
    BY <1>3 DEF BlocksWith
  <2> DEFINE open == [path |-> block.path, bytes |-> block.bytes, parts |-> <<>>]
  <2>2. open \in OpenWith(parts)
    BY <2>1, NoneIsSeq DEF OpenWith
  <2>3. Close(r, open) \in ReadersWith(parts)
    <3> HIDE DEF open
    <3> QED
      BY <2>2, CloseTyped
  <2>4. Reader(r.entries, open, BlocksFor(block.bytes), 0, "") \in ReadersWith(parts)
    <3>1. r.entries \in EntriesWith(parts) /\ BlocksFor(block.bytes) \in Nat
      BY <2>1, BlocksNeeded DEF ReadersWith
    <3> HIDE DEF open
    <3> QED
      BY <2>2, <3>1, ReaderTyped
  <2>5. /\ Refuse(r, "archive header checksum mismatch") \in ReadersWith(parts)
        /\ Refuse(r, "archive contains too many entries") \in ReadersWith(parts)
    BY RefuseTyped DEF Fault
  <2> QED
    BY <1>3, <2>3, <2>4, <2>5 DEF ReadHeader
<1> QED
  BY <1>1, <1>2, <1>3 DEF BlocksWith

LEMMA ReadDataTyped ==
  ASSUME NEW parts, NEW r \in ReadersWith(parts), NEW block \in BlocksWith(parts),
         r.missing > 0
  PROVE  ReadData(r, block) \in ReadersWith(parts)
<1> DEFINE part == IF block.type = "data" THEN block.part ELSE Junk
           open == [r.open EXCEPT !.parts = Append(@, part)]
<1>1. part \in parts \cup {Junk}
  BY DEF BlocksWith
<1>2. ReadData(r, block) = IF r.missing = 1 THEN Close(r, open)
                           ELSE Reader(r.entries, open, r.missing - 1, 0, "")
  BY DEF ReadData
<1>3. /\ r.open \in OpenWith(parts) /\ r.entries \in EntriesWith(parts)
      /\ r.missing \in Nat
  BY DEF ReadersWith
<1> HIDE DEF part
<1>4. Append(r.open.parts, part) \in Seq(parts \cup {Junk})
  <2>1. r.open.parts \in Seq(parts \cup {Junk})
    BY <1>3 DEF OpenWith
  <2> QED
    BY <1>1, <2>1, AppendProperties
<1>5. open \in OpenWith(parts)
  BY <1>3, <1>4 DEF OpenWith
<1> HIDE DEF open
<1>6. Close(r, open) \in ReadersWith(parts)
  BY <1>5, CloseTyped
<1>7. r.missing - 1 \in Nat
  BY <1>3
<1>8. Reader(r.entries, open, r.missing - 1, 0, "") \in ReadersWith(parts)
  BY <1>3, <1>5, <1>7, ReaderTyped
<1> QED
  BY <1>2, <1>6, <1>8

LEMMA ReadBlockTyped ==
  ASSUME NEW parts, NEW r \in ReadersWith(parts), NEW block \in BlocksWith(parts)
  PROVE  ReadBlock(r, block) \in ReadersWith(parts)
<1> DEFINE s == IF block.type = "zero" THEN r ELSE [r EXCEPT !.zeros = 0]
<1>1. s \in ReadersWith(parts)
  BY DEF ReadersWith
<1>2. ReadHeader(s, block) \in ReadersWith(parts)
  <2> HIDE DEF s
  <2> QED
    BY <1>1, ReadHeaderTyped
<1>3. Refuse(r, "data after its terminator") \in ReadersWith(parts)
  BY RefuseTyped DEF Fault
<1>4. r.missing > 0 => ReadData(r, block) \in ReadersWith(parts)
  BY ReadDataTyped
<1> QED
  BY <1>2, <1>3, <1>4 DEF ReadBlock

\* What the reader is after each of the first n blocks.
Reading(blocks) == FoldLeft(ReadBlock, AtStart, blocks)

ReadsAlong(g, blocks, n) ==
  /\ g[0] = AtStart
  /\ \A i \in 1..n : g[i] = ReadBlock(g[i - 1], blocks[i])

LEMMA ReadRuns ==
  ASSUME NEW parts, NEW blocks \in Seq(BlocksWith(parts))
  PROVE  \E g : /\ ReadsAlong(g, blocks, Len(blocks))
                /\ Reading(blocks) = g[Len(blocks)]
<1> DEFINE n == Len(blocks)
           A == ReadersWith(parts)
           step == [p \in (1..n) \X A |-> ReadBlock(p[2], blocks[p[1]])]
           body(f) == [u \in SUBSET DOMAIN blocks |->
                         IF u = {} THEN AtStart
                         ELSE LET x == Max(u) IN ReadBlock(f[u \ {x}], blocks[x])]
           fold == CHOOSE f : f = body(f)
<1> HIDE DEF A
<1>1. n \in Nat /\ DOMAIN blocks = 1..n /\ AtStart \in A
  BY AtStartTyped DEF A
<1>2. \A i \in 1..n, r \in A : ReadBlock(r, blocks[i]) \in A
  <2>1. \A i \in 1..n : blocks[i] \in BlocksWith(parts)
    BY <1>1, ElementOfSeq
  <2> QED
    BY <2>1, ReadBlockTyped DEF A
<1>3. step \in [(1..n) \X A -> A]
  BY <1>2
<1>4. \A i \in 1..n, r \in A : step[<<i, r>>] = ReadBlock(r, blocks[i])
  OBVIOUS
<1>5. Reading(blocks) = fold[DOMAIN blocks]
  BY DEF Reading, FoldLeft, MapThenFoldSet
<1> HIDE DEF step
<1>6. PICK g \in [SUBSET (1..n) -> A] : IsFold(g, n, AtStart, step)
  BY <1>1, <1>3, FoldExists
<1>7. g = body(g)
  <2>1. ASSUME NEW u \in SUBSET (1..n)
        PROVE  g[u] = IF u = {} THEN AtStart
                      ELSE ReadBlock(g[u \ {Max(u)}], blocks[Max(u)])
    <3>1. CASE u = {}
      BY <1>6, <3>1 DEF IsFold
    <3>2. CASE u # {}
      <4>1. Max(u) \in 1..n /\ u \ {Max(u)} \in SUBSET (1..n)
        BY <1>1, <3>2, MaxIsLargest
      <4>2. g[u] = step[<<Max(u), g[u \ {Max(u)}]>>]
        BY <1>6, <3>2 DEF IsFold
      <4>3. g[u \ {Max(u)}] \in A
        BY <4>1
      <4> QED
        BY <1>4, <3>2, <4>1, <4>2, <4>3
    <3> QED
      BY <3>1, <3>2
  <2> QED
    BY <1>1, <2>1
<1>8. fold = body(fold)
  <2> HIDE DEF body
  <2> QED
    BY <1>7, Zenon
<1> HIDE DEF fold
<1>9. \A u \in SUBSET (1..n) :
        fold[u] = IF u = {} THEN AtStart
                  ELSE ReadBlock(fold[u \ {Max(u)}], blocks[Max(u)])
  <2>1. \A u \in SUBSET DOMAIN blocks :
          body(fold)[u] = IF u = {} THEN AtStart
                          ELSE ReadBlock(fold[u \ {Max(u)}], blocks[Max(u)])
    OBVIOUS
  <2> HIDE DEF body
  <2> QED
    BY <1>1, <1>8, <2>1
<1> DEFINE at == [i \in 0..n |-> fold[1..i]]
<1>10. fold[1..0] = AtStart
  <2>1. 1..0 = {} /\ 1..0 \in SUBSET (1..n)
    OBVIOUS
  <2> QED
    BY <1>9, <2>1
<1>11. ASSUME NEW i \in 1..n
       PROVE  fold[1..i] = ReadBlock(fold[1..(i - 1)], blocks[i])
  BY <1>1, <1>9, UpTo
<1>12. /\ at[0] = AtStart /\ at[Len(blocks)] = Reading(blocks)
       /\ \A i \in 1..Len(blocks) : at[i] = ReadBlock(at[i - 1], blocks[i])
  BY <1>1, <1>5, <1>10, <1>11
<1> HIDE DEF at
<1>13. ReadsAlong(at, blocks, Len(blocks))
  BY <1>12 DEF ReadsAlong
<1> QED
  BY <1>12, <1>13

LEMMA ReadNone == Reading(<<>>) = AtStart
<1>1. <<>> \in Seq(BlocksWith({})) /\ Len(<<>>) = 0
  OBVIOUS
<1>2. PICK g : /\ ReadsAlong(g, <<>>, Len(<<>>))
               /\ Reading(<<>>) = g[Len(<<>>)]
  BY <1>1, ReadRuns
<1> QED
  BY <1>1, <1>2 DEF ReadsAlong

LEMMA ReadNext ==
  ASSUME NEW parts, NEW s \in Seq(BlocksWith(parts)), NEW block \in BlocksWith(parts)
  PROVE  Reading(Append(s, block)) = ReadBlock(Reading(s), block)
<1> DEFINE t == Append(s, block)
           n == Len(s)
<1>1. /\ t \in Seq(BlocksWith(parts)) /\ n \in Nat /\ Len(t) = n + 1
      /\ t[n + 1] = block /\ \A i \in 1..n : t[i] = s[i]
  OBVIOUS
<1>2. PICK g : ReadsAlong(g, s, n) /\ Reading(s) = g[n]
  BY ReadRuns
<1> HIDE DEF t
<1>3. PICK h : ReadsAlong(h, t, n + 1) /\ Reading(t) = h[n + 1]
  BY <1>1, ReadRuns
<1> HIDE DEF n
<1> DEFINE S == {i \in Nat : i <= n => h[i] = g[i]}
<1>4. 0 \in S
  BY <1>2, <1>3 DEF ReadsAlong
<1>5. ASSUME NEW i \in Nat, i \in S PROVE i + 1 \in S
  <2> SUFFICES ASSUME i + 1 <= n PROVE h[i + 1] = g[i + 1]
    OBVIOUS
  <2>1. /\ i + 1 \in 1..n /\ i + 1 \in 1..(n + 1)
        /\ (i + 1) - 1 = i /\ g[i] = h[i]
    BY <1>1, <1>5
  <2>2. /\ h[i + 1] = ReadBlock(h[i], t[i + 1])
        /\ g[i + 1] = ReadBlock(g[i], s[i + 1])
    BY <1>2, <1>3, <2>1 DEF ReadsAlong
  <2> QED
    BY <1>1, <2>1, <2>2
<1> HIDE DEF S
<1>6. n \in S
  BY <1>1, <1>4, <1>5, Induct
<1>7. h[n] = g[n]
  BY <1>1, <1>6 DEF S
<1>8. h[n + 1] = ReadBlock(h[n], t[n + 1])
  <2>1. n + 1 \in 1..(n + 1) /\ (n + 1) - 1 = n
    BY <1>1
  <2> QED
    BY <1>3, <2>1 DEF ReadsAlong
<1> QED
  BY <1>1, <1>2, <1>3, <1>7, <1>8 DEF t

LEMMA ReadTyped ==
  ASSUME NEW parts, NEW blocks \in Seq(BlocksWith(parts))
  PROVE  Reading(blocks) \in ReadersWith(parts)
<1> DEFINE P == {s \in Seq(BlocksWith(parts)) : Reading(s) \in ReadersWith(parts)}
<1>1. <<>> \in P
  BY NoneIsSeq, ReadNone, AtStartTyped
<1>2. ASSUME NEW s \in Seq(BlocksWith(parts)), s \in P, NEW b \in BlocksWith(parts)
      PROVE  Append(s, b) \in P
  <2>1. Reading(Append(s, b)) \in ReadersWith(parts)
    BY <1>2, ReadNext, ReadBlockTyped
  <2> QED
    BY <2>1
<1> HIDE DEF P
<1>3. Seq(BlocksWith(parts)) \subseteq P
  BY <1>1, <1>2, SeqInduct
<1> QED
  BY <1>3 DEF P

\* Whatever blocks an archive has, what is read of it is made of their parts.
LEMMA ParseTyped ==
  ASSUME NEW parts, NEW a, a.blocks \in Seq(BlocksWith(parts))
  PROVE  Entries(a) \in EntriesWith(parts)
<1>1. Reading(a.blocks) \in ReadersWith(parts)
  BY ReadTyped
<1>2. ParseArchiveEntries(a).entries = Reading(a.blocks).entries
  <2> DEFINE r == Reading(a.blocks)
  <2>1. \A reason : Refuse(r, reason).entries = r.entries
    BY <1>1 DEF Refuse, ReadersWith
  <2>2. r = FoldLeft(ReadBlock, AtStart, a.blocks)
    BY DEF Reading
  <2> HIDE DEF r
  <2> QED
    BY <2>1, <2>2 DEF ParseArchiveEntries, Reading
<1> QED
  BY <1>1, <1>2 DEF Entries, ReadersWith

-----------------------------------------------------------------------------
\* The evidence, and the archive that is built of it

LEMMA PathsAreDistinct ==
  ASSUME NEW s \in Session
  PROVE  /\ DOMAIN s = 1..Len(s) /\ Len(s) \in Nat /\ IsFiniteSet(DOMAIN s)
         /\ \A i \in DOMAIN s : s[i] \in Image
         /\ \A i \in DOMAIN s :
              /\ i \in DOMAIN CapturePath
              /\ CapturePath[i] \in ToSet(CapturePath) \ {Manifest, Sums}
         /\ \A i, j \in DOMAIN s : CapturePath[i] = CapturePath[j] => i = j
<1>1. /\ DOMAIN s = 1..Len(s) /\ Len(s) \in Nat /\ Len(s) <= MaxCaptureCount
      /\ \A i \in DOMAIN s : s[i] \in Image
  BY DEF Session
<1>2. /\ DOMAIN CapturePath = 1..Len(CapturePath) /\ Len(CapturePath) \in Nat
      /\ MaxCaptureCount \in 1..Len(CapturePath)
      /\ \A i \in DOMAIN CapturePath : CapturePath[i] \notin {Manifest, Sums}
  BY FormatAssumption
<1>3. \A i \in DOMAIN s : i \in DOMAIN CapturePath
  BY <1>1, <1>2
<1>4. IsFiniteSet(DOMAIN s)
  BY <1>1, FS_Interval
<1> QED
  BY <1>1, <1>2, <1>3, <1>4, FormatAssumption DEF ToSet, IsInjective

LEMMA EvidenceIs ==
  ASSUME NEW s \in Session, NEW n
  PROVE  LET files == EvidenceFiles(s, n)
         IN /\ DOMAIN files = {CapturePath[i] : i \in DOMAIN s} \cup {Manifest}
            /\ files = [path \in DOMAIN files |-> files[path]]
            /\ files[Manifest] = ManifestFile(s, n)
            /\ \A i \in DOMAIN s : files[CapturePath[i]] = s[i]
<1> DEFINE files == EvidenceFiles(s, n)
           captures == {CapturePath[i] : i \in DOMAIN s}
           image(path) == s[CHOOSE i \in DOMAIN s : CapturePath[i] = path]
<1>1. files = [path \in captures \cup {Manifest} |->
                 IF path = Manifest THEN ManifestFile(s, n) ELSE image(path)]
  BY DEF EvidenceFiles
<1>2. ASSUME NEW i \in DOMAIN s
      PROVE  image(CapturePath[i]) = s[i] /\ CapturePath[i] # Manifest
  BY PathsAreDistinct
<1> HIDE DEF files, image
<1>3. /\ DOMAIN files = captures \cup {Manifest}
      /\ files[Manifest] = ManifestFile(s, n)
      /\ \A i \in DOMAIN s : files[CapturePath[i]] = s[i]
  BY <1>1, <1>2
<1>4. files = [path \in DOMAIN files |-> files[path]]
  BY <1>1
<1> QED
  BY <1>3, <1>4 DEF files

LEMMA EvidenceTyped ==
  ASSUME NEW files \in Evidence
  PROVE  /\ DOMAIN files \subseteq Name /\ Sums \notin DOMAIN files
         /\ Manifest \in DOMAIN files
         /\ IsFiniteSet(DOMAIN files)
         /\ files = [path \in DOMAIN files |-> files[path]]
         /\ \A path \in DOMAIN files :
              files[path].bytes \in Nat \ {0}
                /\ files[path].kind \in {"image", "manifest"}
<1>1. PICK s \in Session, n \in Note : files = EvidenceFiles(s, n)
  BY DEF Evidence
<1>2. /\ DOMAIN files = {CapturePath[i] : i \in DOMAIN s} \cup {Manifest}
      /\ files = [path \in DOMAIN files |-> files[path]]
      /\ files[Manifest] = ManifestFile(s, n)
      /\ \A i \in DOMAIN s : files[CapturePath[i]] = s[i]
  BY <1>1, EvidenceIs
<1>3. /\ Len(s) \in Nat
      /\ \A i \in DOMAIN s : CapturePath[i] \in ToSet(CapturePath) \ {Manifest, Sums}
  BY PathsAreDistinct
<1>4. DOMAIN files \subseteq Name /\ Sums \notin DOMAIN files /\ Manifest \in DOMAIN files
  <2>1. Sums # Manifest
    BY DEF Sums, Manifest
  <2>2. {CapturePath[i] : i \in DOMAIN s} \subseteq ToSet(CapturePath) \ {Manifest, Sums}
    BY <1>3
  <2> QED
    BY <1>2, <2>1, <2>2 DEF Name
<1>5. IsFiniteSet(DOMAIN files)
  BY <1>4, NamesAreFinite, FS_Subset
<1>6. ManifestFile(s, n).bytes \in Nat \ {0} /\ ManifestFile(s, n).kind = "manifest"
  BY <1>3 DEF ManifestFile
<1>7. ASSUME NEW i \in DOMAIN s
      PROVE  s[i].bytes \in Nat \ {0} /\ s[i].kind = "image"
  <2>1. s[i] \in Image
    BY PathsAreDistinct
  <2> QED
    BY <2>1, ArchiveAssumption DEF Image
<1>8. ASSUME NEW path \in DOMAIN files
      PROVE  files[path].bytes \in Nat \ {0}
               /\ files[path].kind \in {"image", "manifest"}
  <2>1. CASE path = Manifest
    BY <1>2, <1>6, <2>1
  <2>2. CASE path # Manifest
    <3>1. PICK i \in DOMAIN s : path = CapturePath[i]
      BY <1>2, <2>2
    <3>2. files[path] = s[i]
      BY <1>2, <3>1
    <3> QED
      BY <1>7, <3>2
  <2> QED
    BY <2>1, <2>2
<1> QED
  BY <1>2, <1>4, <1>5, <1>8

LEMMA SummedTyped ==
  ASSUME NEW files \in Evidence
  PROVE  /\ DOMAIN WithSums(files) = DOMAIN files \cup {Sums}
         /\ WithSums(files)[Sums] = SumsFile(files)
         /\ \A path \in DOMAIN files : WithSums(files)[path] = files[path]
         /\ \A path \in DOMAIN WithSums(files) :
              path \in Name /\ WithSums(files)[path].bytes \in Nat \ {0}
<1>1. /\ DOMAIN WithSums(files) = DOMAIN files \cup {Sums}
      /\ WithSums(files)[Sums] = SumsFile(files)
      /\ \A path \in DOMAIN files : WithSums(files)[path] = files[path]
  BY EvidenceTyped DEF WithSums
<1>2. SumsFile(files).bytes \in Nat \ {0}
  <2>1. IsFiniteSet(DOMAIN files) /\ DOMAIN files # {}
    BY EvidenceTyped
  <2>2. Cardinality(DOMAIN files) \in Nat \ {0}
    BY <2>1, FS_CardinalityType, FS_EmptySet
  <2> QED
    BY <2>2 DEF SumsFile
<1> QED
  BY <1>1, <1>2, EvidenceTyped DEF Name

\* The order of the entries is that of their names, and has each of them.
LEMMA OrderTyped ==
  ASSUME NEW files, DOMAIN files \subseteq ToSet(CapturePath) \cup {Sums, Manifest}
  PROVE  /\ EntryOrder(files) \in Seq(DOMAIN files)
         /\ ToSet(EntryOrder(files)) = DOMAIN files
<1> DEFINE all == <<Sums>> \o CapturePath \o <<Manifest>>
           T == ToSet(CapturePath) \cup {Sums, Manifest}
<1>1. CapturePath \in Seq(T) /\ <<Sums>> \in Seq(T) /\ <<Manifest>> \in Seq(T)
  <2>1. CapturePath \in Seq(ToSet(CapturePath))
    BY FormatAssumption, SeqOfElements
  <2>2. CapturePath \in Seq(T)
    BY <2>1, SeqMonotonic
  <2>3. <<Sums>> \in Seq(T)
    BY ToSetOfOne, SeqMonotonic
  <2>4. <<Manifest>> \in Seq(T)
    BY ToSetOfOne, SeqMonotonic
  <2> QED
    BY <2>2, <2>3, <2>4
<1> HIDE DEF T
<1> DEFINE first == <<Sums>>
           last == <<Manifest>>
           front == first \o CapturePath
<1>2. ToSet(first) = {Sums} /\ ToSet(last) = {Manifest}
  BY ToSetOfOne
<1> HIDE DEF first, last
<1>3. first \in Seq(T) /\ last \in Seq(T)
  BY <1>1 DEF first, last
<1>4. front \in Seq(T) /\ ToSet(front) = {Sums} \cup ToSet(CapturePath)
  BY <1>1, <1>2, <1>3, ToSetOfConcat
<1> HIDE DEF front
<1>5. /\ front \o last \in Seq(T)
      /\ ToSet(front \o last) = {Sums} \cup ToSet(CapturePath) \cup {Manifest}
  BY <1>2, <1>3, <1>4, ToSetOfConcat
<1>6. all \in Seq(T) /\ ToSet(all) = {Sums} \cup ToSet(CapturePath) \cup {Manifest}
  BY <1>5 DEF first, last, front
<1> HIDE DEF all
<1>7. /\ Retain(all, DOMAIN files) \in Seq(T \cap DOMAIN files)
      /\ ToSet(Retain(all, DOMAIN files)) = ToSet(all) \cap DOMAIN files
  BY <1>6, RetainKeeps
<1>8. EntryOrder(files) = Retain(all, DOMAIN files)
  BY DEF EntryOrder, all
<1>9. T \cap DOMAIN files = DOMAIN files
  BY DEF T
<1> QED
  BY <1>6, <1>7, <1>8, <1>9

\* The names of the files of an evidence.
LEMMA NamesOfEvidence ==
  ASSUME NEW files \in Evidence
  PROVE  DOMAIN files \subseteq ToSet(CapturePath) \cup {Manifest}
<1>1. PICK s \in Session, n \in Note : files = EvidenceFiles(s, n)
  BY DEF Evidence
<1>2. DOMAIN files = {CapturePath[i] : i \in DOMAIN s} \cup {Manifest}
  BY <1>1, EvidenceIs
<1>3. \A i \in DOMAIN s : CapturePath[i] \in ToSet(CapturePath)
  BY PathsAreDistinct
<1> QED
  BY <1>2, <1>3

\* The blocks of an archive are made of the files of its evidence.
LEMMA EntryTyped ==
  ASSUME NEW files \in Evidence, NEW path \in DOMAIN WithSums(files)
  PROVE  Entry(path, WithSums(files)[path]) \in Seq(BlocksWith(PartsOf(files)))
<1> DEFINE file == WithSums(files)[path]
           B == BlocksWith(PartsOf(files))
           header == Header(path, file.bytes)
           data == [i \in 1..BlocksFor(file.bytes) |-> Data(Part(file, i))]
<1>1. path \in Name /\ file.bytes \in Nat /\ BlocksFor(file.bytes) \in Nat
  BY SummedTyped, BlocksNeeded
<1>2. header \in B
  BY <1>1 DEF Header, BlocksWith
<1>3. ASSUME NEW i \in 1..BlocksFor(file.bytes)
      PROVE  Data(Part(file, i)) \in B
  <2>1. i \in Nat
    BY <1>1
  <2>2. Part(file, i) \in PartsOf(files)
    BY <2>1 DEF PartsOf
  <2> QED
    BY <2>2 DEF Data, BlocksWith
<1> HIDE DEF header, B, file
<1>4. <<header>> \in Seq(B)
  BY <1>2
<1>5. data \in Seq(B)
  BY <1>1, <1>3
<1> HIDE DEF data
<1>6. <<header>> \o data \in Seq(B)
  BY <1>4, <1>5, ToSetOfConcat
<1> QED
  BY <1>6 DEF Entry, header, data, B, file

LEMMA BuiltTyped ==
  ASSUME NEW files \in Evidence
  PROVE  BuildTar(files).blocks \in Seq(BlocksWith(PartsOf(files)))
<1> DEFINE all == WithSums(files)
           order == EntryOrder(all)
           B == BlocksWith(PartsOf(files))
           entries == [i \in DOMAIN order |-> Entry(order[i], all[order[i]])]
<1>1. order \in Seq(DOMAIN all)
  <2>1. DOMAIN all = DOMAIN files \cup {Sums}
    BY SummedTyped
  <2>2. DOMAIN files \subseteq ToSet(CapturePath) \cup {Manifest}
    BY NamesOfEvidence
  <2> HIDE DEF all
  <2>3. DOMAIN all \subseteq ToSet(CapturePath) \cup {Sums, Manifest}
    BY <2>1, <2>2
  <2> QED
    BY <2>3, OrderTyped
<1>2. \A i \in DOMAIN order : Entry(order[i], all[order[i]]) \in Seq(B)
  <2>1. \A i \in DOMAIN order : order[i] \in DOMAIN all
    BY <1>1
  <2> QED
    BY <2>1, EntryTyped
<1>3. DOMAIN order = 1..Len(order) /\ Len(order) \in Nat
  BY <1>1
<1> HIDE DEF order, all, B
<1>4. entries \in Seq(Seq(B))
  BY <1>2, <1>3
<1> HIDE DEF entries
<1>5. FlattenSeq(entries) \in Seq(B)
  BY <1>4, FlattenTyped
<1> DEFINE end == <<Zero, Zero>>
<1>6. end \in Seq(B)
  <2>1. Zero \in B
    BY DEF Zero, B, BlocksWith
  <2> QED
    BY <2>1
<1> HIDE DEF end
<1>7. FlattenSeq(entries) \o end \in Seq(B)
  BY <1>5, <1>6, ToSetOfConcat
<1>8. BuildTar(files).blocks = FlattenSeq(entries) \o end
  BY DEF BuildTar, Blocks, entries, order, all, end
<1> QED
  BY <1>7, <1>8 DEF B

\* Where the parts are from decides what the archive is of, once its checksums
\* are verified: they are a list of one evidence, and of nothing else.
Contents(files) == [path \in DOMAIN WithSums(files) |-> Content(WithSums(files)[path])]

LEMMA SumsOfOneEvidence ==
  ASSUME NEW files \in Evidence, NEW part \in PartsOf(files),
         part.file.kind = "sums"
  PROVE  part.file = SumsFile(files)
<1>1. PICK path \in DOMAIN WithSums(files), i \in Nat :
        part = Part(WithSums(files)[path], i)
  BY DEF PartsOf
<1>2. part.file = WithSums(files)[path]
  BY <1>1 DEF Part
<1>3. path \notin DOMAIN files
  <2> SUFFICES ASSUME path \in DOMAIN files PROVE FALSE
    OBVIOUS
  <2>1. files[path].kind \in {"image", "manifest"}
    BY EvidenceTyped
  <2>2. part.file = files[path]
    BY <1>2, SummedTyped
  <2> QED
    BY <2>1, <2>2
<1>4. path = Sums
  <2>1. DOMAIN WithSums(files) = DOMAIN files \cup {Sums}
    BY SummedTyped
  <2> QED
    BY <1>3, <2>1
<1> QED
  BY <1>2, <1>4, SummedTyped

LEMMA SumsDecide ==
  ASSUME NEW sources \in SUBSET Evidence,
         NEW e \in EntriesWith(UNION {PartsOf(files) : files \in sources}),
         Verifies(e)
  PROVE  \E files \in sources : e = Contents(files)
<1> DEFINE parts == UNION {PartsOf(files) : files \in sources}
           sums == e[Sums]
<1>1. DOMAIN e \subseteq Name /\ e \in [DOMAIN e -> ContentsWith(parts)]
  BY EntriesTyped
<1>2. Sums \in DOMAIN e /\ ReadsAs(sums, "sums")
  BY DEF Verifies
<1>3. sums.parts[1] \in parts \cup {Junk}
  <2> HIDE DEF parts, sums
  <2>1. sums \in ContentsWith(parts)
    BY <1>1, <1>2 DEF sums
  <2>2. sums.parts \in Seq(parts \cup {Junk}) /\ sums.parts # <<>>
    BY <1>2, <2>1 DEF ContentsWith, ReadsAs
  <2> QED
    BY <2>2
<1>4. sums.parts[1].file.kind = "sums"
  BY <1>2 DEF ReadsAs
<1>5. sums.parts[1] # Junk
  BY <1>4 DEF Junk, Part
<1>6. PICK files \in sources : sums.parts[1] \in PartsOf(files)
  BY <1>3, <1>5
<1>7. sums.parts[1].file = SumsFile(files)
  BY <1>4, <1>6, SumsOfOneEvidence
<1>8. sums = Content(SumsFile(files)) /\ FileIn(sums).lines = files
  BY <1>2, <1>7 DEF ReadsAs, FileIn, SumsFile
<1>9. SumsMatch(e, files)
  BY <1>8 DEF Verifies
<1>10. files \in Evidence
  OBVIOUS
<1>11. DOMAIN e = DOMAIN files \cup {Sums}
  <2>1. IsFiniteSet(DOMAIN e)
    BY <1>1, NamesAreFinite, FS_Subset
  <2>2. DOMAIN files \cup {Sums} \subseteq DOMAIN e
    BY <1>2, <1>9 DEF SumsMatch, SumsNameEntries
  <2>3. Cardinality(DOMAIN files) + 1 = Cardinality(DOMAIN e)
    BY <1>9 DEF SumsMatch, SumsNameEntries
  <2>4. IsFiniteSet(DOMAIN files) /\ Sums \notin DOMAIN files
    BY <1>10, EvidenceTyped
  <2>5. Cardinality(DOMAIN files \cup {Sums}) = Cardinality(DOMAIN files) + 1
    BY <2>4, FS_AddElement
  <2> QED
    BY <2>1, <2>2, <2>3, <2>5, FS_Subset
<1>12. \A path \in DOMAIN files : e[path] = Content(files[path])
  BY <1>9, <1>11 DEF SumsMatch, SumsNameEntries
<1>13. /\ DOMAIN WithSums(files) = DOMAIN e
       /\ \A path \in DOMAIN e : e[path] = Content(WithSums(files)[path])
  BY <1>8, <1>10, <1>11, <1>12, SummedTyped
<1>14. e = [path \in DOMAIN e |-> e[path]]
  BY <1>1
<1> QED
  BY <1>13, <1>14 DEF Contents

-----------------------------------------------------------------------------
\* The session

SessionInv == images \in Session /\ note \in Note /\ spoiled \subseteq DOMAIN images

LEMMA SessionGrows ==
  ASSUME NEW s \in Session, Len(s) < MaxCaptureCount, NEW bytes \in ImageBytes
  PROVE  Append(s, ImageFile(Len(s) + 1, bytes)) \in Session
<1> DEFINE t == Append(s, ImageFile(Len(s) + 1, bytes))
<1>1. s \in Seq(Image) /\ Len(s) \in Nat /\ \A i \in 1..Len(s) : s[i].nr = i
  BY DEF Session
<1>2. ImageFile(Len(s) + 1, bytes) \in Image
  BY <1>1 DEF ImageFile, Image
<1>3. /\ t \in Seq(Image) /\ Len(t) = Len(s) + 1
      /\ \A i \in 1..Len(s) : t[i] = s[i]
      /\ t[Len(s) + 1].nr = Len(s) + 1
  BY <1>1, <1>2 DEF ImageFile
<1> HIDE DEF t
<1>4. MaxCaptureCount \in Nat
  BY FormatAssumption
<1>5. Len(t) <= MaxCaptureCount
  BY <1>1, <1>3, <1>4
<1>6. DOMAIN t = 1..(Len(s) + 1)
  BY <1>1, <1>3, LenProperties
<1>7. \A i \in DOMAIN t : t[i].nr = i
  BY <1>1, <1>3, <1>6
<1>8. t \in Session
  BY <1>3, <1>5, <1>7 DEF Session
<1> QED
  BY <1>8 DEF t

LEMMA SessionInvariant == Spec => []SessionInv
<1>1. Init => SessionInv
  <2> SUFFICES ASSUME Init PROVE SessionInv
    OBVIOUS
  <2>1. <<>> \in Session
    <3>1. MaxCaptureCount \in Nat
      BY FormatAssumption
    <3>2. <<>> \in Seq(Image) /\ Len(<<>>) = 0 /\ DOMAIN <<>> = {}
      BY NoneIsSeq
    <3> QED
      BY <3>1, <3>2 DEF Session
  <2> QED
    BY <2>1 DEF Init, SessionInv
<1>2. SessionInv /\ [Next]_vars => SessionInv'
  <2> SUFFICES ASSUME SessionInv, [Next]_vars PROVE SessionInv'
    OBVIOUS
  <2>1. ASSUME NEW bytes \in ImageBytes, AddCapture(bytes) PROVE SessionInv'
    <3>1. images' \in Session
      BY <2>1, SessionGrows DEF SessionInv, AddCapture
    <3>2. DOMAIN images \subseteq DOMAIN images'
      BY <2>1 DEF SessionInv, Session, AddCapture
    <3> QED
      BY <2>1, <3>1, <3>2 DEF SessionInv, AddCapture
  <2>2. ASSUME NEW n \in Note, Annotate(n) PROVE SessionInv'
    BY <2>2 DEF SessionInv, Annotate
  <2>3. ASSUME NEW i \in DOMAIN images, SpoilImage(i) PROVE SessionInv'
    BY <2>3 DEF SessionInv, SpoilImage
  <2>4. CASE UNCHANGED sessionVars
    BY <2>4 DEF SessionInv, sessionVars
  <2> QED
    BY <2>1, <2>2, <2>3, <2>4
    DEF Next, vars, BeginExport, CreateTemp, FillTemp, RenameTemp, SyncExports,
        ExportBreaksOff, Carry, Damage, BeginExtract, CreateEntry, RenameEntry,
        FinishExtract, ExtractBreaksOff
<1> QED
  BY <1>1, <1>2, PTL DEF Spec

-----------------------------------------------------------------------------
\* The file of the export

Built == {BuildTar(files) : files \in Evidence}

Whole(a) == a = NoArchive \/ (a \in Built /\ Verified(a))

WholeInv ==
  /\ Whole(archive) /\ Whole(earlier) /\ Whole(writing)
  /\ xpc \in {"idle", "create", "write", "rename", "sync"}
  /\ temp \in {"absent", "partial", "complete"}
  /\ xpc = "write" => temp = "partial"
  /\ xpc = "rename" => temp = "complete"

LEMMA WholeInvariant == Spec => []WholeInv
<1>1. Init => WholeInv
  BY DEF Init, WholeInv, Whole
<1>2. SessionInv /\ WholeInv /\ [Next]_vars => WholeInv'
  <2> SUFFICES ASSUME SessionInv, WholeInv, [Next]_vars PROVE WholeInv'
    OBVIOUS
  <2> USE DEF WholeInv
  <2>1. CASE BeginExport
    <3>1. Exported \in Built
      BY DEF SessionInv, Exported, Built, Evidence
    <3>2. Whole(writing')
      BY <2>1, <3>1 DEF BeginExport, Exportable, Whole
    <3> QED
      BY <2>1, <3>2 DEF BeginExport
  <2>2. CASE CreateTemp
    BY <2>2 DEF CreateTemp, ExportStep
  <2>3. CASE FillTemp
    BY <2>3 DEF FillTemp, ExportStep
  <2>4. CASE RenameTemp
    BY <2>4 DEF RenameTemp, ExportStep
  <2>5. CASE SyncExports
    <3>1. Whole(writing')
      BY <2>5 DEF SyncExports, Whole
    <3> QED
      BY <2>5, <3>1 DEF SyncExports, ExportStep
  <2>6. CASE ExportBreaksOff
    <3>1. Whole(writing')
      BY <2>6 DEF ExportBreaksOff, Whole
    <3>2. Whole(archive')
      BY <2>6 DEF ExportBreaksOff
    <3> QED
      BY <2>6, <3>1, <3>2 DEF ExportBreaksOff
  <2>7. CASE UNCHANGED exportVars
    BY <2>7 DEF exportVars
  <2> QED
    BY <2>1, <2>2, <2>3, <2>4, <2>5, <2>6, <2>7
    DEF Next, vars, AddCapture, Annotate, SpoilImage, Carry, Damage, BeginExtract,
        CreateEntry, RenameEntry, FinishExtract, ExtractBreaksOff
<1> QED
  BY <1>1, <1>2, SessionInvariant, PTL DEF Spec

\* Property ArchiveWhole: the file of an export is there whole or not at all,
\* and so is the one it replaced, whenever the daemon or the power fails.
THEOREM ArchiveStaysWhole == Spec => []ArchiveWhole
<1>1. WholeInv => ArchiveWhole
  BY DEF WholeInv, Whole, ArchiveWhole
<1> QED
  BY <1>1, WholeInvariant, PTL

-----------------------------------------------------------------------------
\* The copy: whatever happens to it, its parts are of the archives there are.

Sources ==
  {files \in Evidence : \E a \in {archive, earlier} :
                          a # NoArchive /\ a = BuildTar(files)}

SourceParts == UNION {PartsOf(files) : files \in Sources}

ArchivesWith(parts) == [blocks : Seq(BlocksWith(parts)), ragged : BOOLEAN]

CopyInv ==
  /\ copy \in ArchivesWith(SourceParts)
  /\ copy # NoArchive => xpc = "idle"

LEMMA MorePartsMoreBlocks ==
  ASSUME NEW p, NEW q, p \subseteq q
  PROVE  Seq(BlocksWith(p)) \subseteq Seq(BlocksWith(q))
<1>1. BlocksWith(p) \subseteq BlocksWith(q)
  BY DEF BlocksWith
<1> QED
  BY <1>1, SeqMonotonic

LEMMA SourceTyped ==
  ASSUME SessionInv, WholeInv, NEW a \in {archive, earlier}
  PROVE  a \in ArchivesWith(SourceParts)
<1>1. CASE a = NoArchive
  BY <1>1, NoneIsSeq DEF NoArchive, ArchivesWith
<1>2. CASE a # NoArchive
  <2>1. PICK files \in Evidence : a = BuildTar(files)
    BY <1>2 DEF WholeInv, Whole, Built
  <2>2. files \in Sources
    BY <1>2, <2>1 DEF Sources
  <2>3. PartsOf(files) \subseteq SourceParts
    BY <2>2 DEF SourceParts
  <2>4. a.blocks \in Seq(BlocksWith(SourceParts))
    BY <2>1, <2>3, BuiltTyped, MorePartsMoreBlocks
  <2> QED
    BY <2>1, <2>4 DEF BuildTar, ArchivesWith
<1> QED
  BY <1>1, <1>2

LEMMA FlippedTyped ==
  ASSUME NEW parts, NEW block \in BlocksWith(parts)
  PROVE  Flipped(block) \in BlocksWith(parts) /\ Zero \in BlocksWith(parts)
<1>1. Zero \in BlocksWith(parts) /\ Data(Junk) \in BlocksWith(parts)
  BY DEF Zero, Data, BlocksWith
<1>2. CASE block.type = "header"
  <2>1. Flipped(block) = [block EXCEPT !.sound = FALSE]
    BY <1>2 DEF Flipped
  <2>2. block \in [type : {"header"}, path : Name, bytes : Nat, sound : BOOLEAN]
    BY <1>2 DEF BlocksWith
  <2>3. [block EXCEPT !.sound = FALSE]
          \in [type : {"header"}, path : Name, bytes : Nat, sound : BOOLEAN]
    BY <2>2
  <2> QED
    BY <1>1, <2>1, <2>3 DEF BlocksWith
<1>3. CASE block.type # "header"
  BY <1>1, <1>3 DEF Flipped
<1> QED
  BY <1>1, <1>2, <1>3

\* A sequence that is changed at one place, or cut, is still one of the blocks.
LEMMA EditsTyped ==
  ASSUME NEW B, NEW b \in Seq(B), NEW i \in DOMAIN b, NEW x \in B
  PROVE  /\ ReplaceAt(b, i, x) \in Seq(B) /\ DOMAIN ReplaceAt(b, i, x) = DOMAIN b
         /\ RemoveAt(b, i) \in Seq(B)
         /\ InsertAt(b, i, x) \in Seq(B)
         /\ SubSeq(b, 1, i) \in Seq(B)
<1>1. DOMAIN b = 1..Len(b) /\ Len(b) \in Nat /\ \A j \in 1..Len(b) : b[j] \in B
  BY LenProperties, ElementOfSeq
<1>2. ReplaceAt(b, i, x) \in Seq(B) /\ DOMAIN ReplaceAt(b, i, x) = DOMAIN b
  BY <1>1, ExceptSeq DEF ReplaceAt
<1>3. \A m, n \in Int : (m > 0 /\ n <= Len(b)) => SubSeq(b, m, n) \in Seq(B)
  <2> SUFFICES ASSUME NEW m \in Int, NEW n \in Int, m > 0, n <= Len(b)
               PROVE  SubSeq(b, m, n) \in Seq(B)
    OBVIOUS
  <2>1. \A k \in m..n : b[k] \in B
    BY <1>1
  <2> QED
    BY <1>1, <2>1, SubSeqProperties
<1>4. /\ SubSeq(b, 1, i - 1) \in Seq(B) /\ SubSeq(b, i + 1, Len(b)) \in Seq(B)
      /\ SubSeq(b, i, Len(b)) \in Seq(B) /\ SubSeq(b, 1, i) \in Seq(B)
  BY <1>1, <1>3
<1>5. RemoveAt(b, i) \in Seq(B)
  BY <1>4, ToSetOfConcat DEF RemoveAt
<1>6. InsertAt(b, i, x) \in Seq(B)
  <2>1. <<x>> \in Seq(B)
    OBVIOUS
  <2>2. SubSeq(b, 1, i - 1) \o <<x>> \in Seq(B)
    BY <1>4, <2>1, ToSetOfConcat
  <2> QED
    BY <1>4, <2>2, ToSetOfConcat DEF InsertAt
<1> QED
  BY <1>2, <1>4, <1>5, <1>6

LEMMA MishapsTyped ==
  ASSUME NEW parts, NEW a \in ArchivesWith(parts), earlier \in ArchivesWith(parts)
  PROVE  Mishaps(a) \subseteq ArchivesWith(parts)
<1> DEFINE B == BlocksWith(parts)
           b == a.blocks
           old == earlier.blocks
<1>1. /\ b \in Seq(B) /\ old \in Seq(B)
      /\ DOMAIN b = 1..Len(b) /\ DOMAIN old = 1..Len(old)
      /\ Len(b) \in Nat /\ Len(old) \in Nat
      /\ \A i \in DOMAIN b : b[i] \in B
      /\ \A i \in DOMAIN old : old[i] \in B
  <2>1. b \in Seq(B) /\ old \in Seq(B)
    BY DEF ArchivesWith
  <2> HIDE DEF B, b, old
  <2> QED
    BY <2>1, LenProperties, ElementOfSeq
<1>2. \A s \in Seq(B) : [a EXCEPT !.blocks = s] \in ArchivesWith(parts)
  BY DEF ArchivesWith
<1>3. \A s \in Seq(B) : [blocks |-> s, ragged |-> TRUE] \in ArchivesWith(parts)
  BY DEF ArchivesWith
<1>4. ASSUME NEW i \in DOMAIN b
      PROVE  /\ [a EXCEPT !.blocks = ReplaceAt(b, i, Flipped(b[i]))] \in ArchivesWith(parts)
             /\ [a EXCEPT !.blocks = ReplaceAt(b, i, Zero)] \in ArchivesWith(parts)
             /\ [a EXCEPT !.blocks = RemoveAt(b, i)] \in ArchivesWith(parts)
             /\ [a EXCEPT !.blocks = InsertAt(b, i, b[i])] \in ArchivesWith(parts)
             /\ [blocks |-> SubSeq(b, 1, i), ragged |-> TRUE] \in ArchivesWith(parts)
             /\ [a EXCEPT !.blocks = SubSeq(b, 1, i)] \in ArchivesWith(parts)
  <2>1. Flipped(b[i]) \in B /\ Zero \in B /\ b[i] \in B
    BY <1>1, FlippedTyped
  <2> HIDE DEF B, b
  <2>2. /\ ReplaceAt(b, i, Flipped(b[i])) \in Seq(B) /\ ReplaceAt(b, i, Zero) \in Seq(B)
        /\ RemoveAt(b, i) \in Seq(B) /\ InsertAt(b, i, b[i]) \in Seq(B)
        /\ SubSeq(b, 1, i) \in Seq(B)
    BY <1>1, <2>1, EditsTyped
  <2> QED
    BY <1>2, <1>3, <2>2
<1>5. ASSUME NEW i \in DOMAIN b \cap DOMAIN old
      PROVE  [a EXCEPT !.blocks = ReplaceAt(b, i, old[i])] \in ArchivesWith(parts)
  <2> HIDE DEF B, b, old
  <2>1. ReplaceAt(b, i, old[i]) \in Seq(B)
    BY <1>1, EditsTyped
  <2> QED
    BY <1>2, <2>1
<1>6. ASSUME NEW i \in 1..Len(b) - 1
      PROVE  [a EXCEPT !.blocks = ReplaceAt(ReplaceAt(b, i, b[i + 1]), i + 1, b[i])]
               \in ArchivesWith(parts)
  <2> HIDE DEF B, b
  <2>1. i \in DOMAIN b /\ i + 1 \in DOMAIN b
    BY <1>1
  <2>2. /\ ReplaceAt(b, i, b[i + 1]) \in Seq(B)
        /\ DOMAIN ReplaceAt(b, i, b[i + 1]) = DOMAIN b
    BY <1>1, <2>1, EditsTyped
  <2>3. ReplaceAt(ReplaceAt(b, i, b[i + 1]), i + 1, b[i]) \in Seq(B)
    BY <1>1, <2>1, <2>2, EditsTyped
  <2> QED
    BY <1>2, <2>3
<1> SUFFICES ASSUME NEW m \in Mishaps(a) PROVE m \in ArchivesWith(parts)
  OBVIOUS
<1> DEFINE Changed(i) ==
             {[a EXCEPT !.blocks = ReplaceAt(b, i, Flipped(b[i]))],
              [a EXCEPT !.blocks = ReplaceAt(b, i, Zero)],
              [a EXCEPT !.blocks = RemoveAt(b, i)],
              [a EXCEPT !.blocks = InsertAt(b, i, b[i])],
              [blocks |-> SubSeq(b, 1, i), ragged |-> TRUE],
              [a EXCEPT !.blocks = SubSeq(b, 1, i)]}
           Mixed(i) == [a EXCEPT !.blocks = ReplaceAt(b, i, old[i])]
           Swapped(i) ==
             [a EXCEPT !.blocks = ReplaceAt(ReplaceAt(b, i, b[i + 1]), i + 1, b[i])]
<1>7. \/ \E i \in DOMAIN b : m \in Changed(i)
      \/ \E i \in DOMAIN b \cap DOMAIN old : m = Mixed(i)
      \/ \E i \in 1..Len(b) - 1 : m = Swapped(i)
  <2>1. Mishaps(a) = (UNION {Changed(i) : i \in DOMAIN b})
                      \cup {Mixed(i) : i \in DOMAIN b \cap DOMAIN old}
                      \cup {Swapped(i) : i \in 1..Len(b) - 1}
    BY Zenon DEF Mishaps
  <2> HIDE DEF Changed, Mixed, Swapped, b, old
  <2>2. \/ m \in UNION {Changed(i) : i \in DOMAIN b}
        \/ m \in {Mixed(i) : i \in DOMAIN b \cap DOMAIN old}
        \/ m \in {Swapped(i) : i \in 1..Len(b) - 1}
    BY <2>1, Zenon
  <2> QED
    BY <2>2, Zenon
<1>8. CASE \E i \in DOMAIN b : m \in Changed(i)
  BY <1>4, <1>8, Zenon
<1>9. CASE \E i \in DOMAIN b \cap DOMAIN old : m = Mixed(i)
  BY <1>5, <1>9, Zenon
<1>10. CASE \E i \in 1..Len(b) - 1 : m = Swapped(i)
  BY <1>6, <1>10, Zenon
<1> QED
  BY <1>7, <1>8, <1>9, <1>10

LEMMA CopyInvariant == Spec => []CopyInv
<1>1. Init => CopyInv
  BY NoneIsSeq DEF Init, CopyInv, NoArchive, ArchivesWith
<1>2. SessionInv /\ WholeInv /\ CopyInv /\ [Next]_vars => CopyInv'
  <2> SUFFICES ASSUME SessionInv, WholeInv, CopyInv, [Next]_vars PROVE CopyInv'
    OBVIOUS
  <2>1. ASSUME copy' = NoArchive PROVE CopyInv'
    BY <2>1, NoneIsSeq DEF CopyInv, NoArchive, ArchivesWith
  <2>2. ASSUME archive' = archive, earlier' = earlier
        PROVE  SourceParts' = SourceParts
    BY <2>2 DEF SourceParts, Sources
  <2>3. CASE Carry
    <3>1. SourceParts' = SourceParts
      BY <2>2, <2>3 DEF Carry, exportVars
    <3>2. copy' \in ArchivesWith(SourceParts)
      BY <2>3, SourceTyped DEF Carry
    <3> QED
      BY <2>3, <3>1, <3>2 DEF CopyInv, Carry, Quiet, exportVars
  <2>4. CASE Damage
    <3>1. SourceParts' = SourceParts
      BY <2>2, <2>4 DEF Damage, exportVars
    <3>2. copy' \in ArchivesWith(SourceParts)
      BY <2>4, SourceTyped, MishapsTyped DEF Damage, CopyInv
    <3> QED
      BY <2>4, <3>1, <3>2 DEF CopyInv, Damage, exportVars
  <2>5. CASE copy' = copy /\ copy # NoArchive /\ UNCHANGED exportVars
    <3>1. SourceParts' = SourceParts
      BY <2>2, <2>5 DEF exportVars
    <3> QED
      BY <2>5, <3>1 DEF CopyInv, exportVars
  <2>6. Carry \/ Damage \/ (copy' = copy /\ UNCHANGED exportVars)
          \/ (copy' = copy /\ (copy = NoArchive \/ xpc # "idle"))
    BY DEF Next, vars, copyVars, Quiet, AddCapture, Annotate, SpoilImage, BeginExport,
           CreateTemp, FillTemp, RenameTemp, SyncExports, ExportBreaksOff, ExportStep,
           BeginExtract, CreateEntry, RenameEntry, FinishExtract, ExtractBreaksOff
  <2> QED
    BY <2>1, <2>3, <2>4, <2>5, <2>6 DEF CopyInv
<1> QED
  BY <1>1, <1>2, SessionInvariant, WholeInvariant, PTL DEF Spec

\* A copy that is verified has the content of one of the archives.
LEMMA VerifiedIsOfSource ==
  ASSUME WholeInv, CopyInv, Verified(copy)
  PROVE  \E files \in Sources : Entries(copy) = Contents(files)
<1>1. Entries(copy) \in EntriesWith(SourceParts)
  BY ParseTyped DEF CopyInv, ArchivesWith
<1>2. Verifies(Entries(copy))
  BY DEF Verified, Entries
<1>3. Sources \subseteq Evidence
  BY DEF Sources
<1> QED
  BY <1>1, <1>2, <1>3, SumsDecide DEF SourceParts

\* Property DamageDetected: a copy that passes the verification has every byte
\* of every file of one export, whatever has happened to it on its way.
THEOREM DamageIsDetected == Spec => []DamageDetected
<1>1. ASSUME WholeInv, CopyInv PROVE DamageDetected
  <2> SUFFICES ASSUME copy # NoArchive, Verified(copy)
               PROVE  \E a \in {archive, earlier} :
                        a # NoArchive /\ Entries(copy) = Entries(a)
    BY DEF DamageDetected
  <2>1. PICK files \in Sources : Entries(copy) = Contents(files)
    BY <1>1, VerifiedIsOfSource
  <2>2. PICK a \in {archive, earlier} : a # NoArchive /\ a = BuildTar(files)
    BY DEF Sources
  <2>3. files \in Evidence /\ Verified(a)
    BY <1>1, <2>2 DEF Sources, WholeInv, Whole
  <2>4. Entries(a) \in EntriesWith(PartsOf(files))
    BY <2>2, <2>3, BuiltTyped, ParseTyped
  <2>5. Verifies(Entries(a))
    BY <2>3 DEF Verified, Entries
  <2>6. Entries(a) = Contents(files)
    <3>1. UNION {PartsOf(f) : f \in {files}} = PartsOf(files)
      OBVIOUS
    <3>2. {files} \in SUBSET Evidence
      BY <2>3
    <3>3. \E f \in {files} : Entries(a) = Contents(f)
      BY <2>4, <2>5, <3>1, <3>2, SumsDecide
    <3> QED
      BY <3>3
  <2> QED
    BY <2>1, <2>2, <2>6
<1> QED
  BY <1>1, WholeInvariant, CopyInvariant, PTL

-----------------------------------------------------------------------------
\* The extraction

\* What is to be written, and has been, is the archive but for its checksums.
Promised == DOMAIN Entries(copy) \ {Sums}

Extracted ==
  /\ DOMAIN target \subseteq Promised
  /\ \A path \in DOMAIN target : target[path] = Entries(copy)[path]
  /\ left \in Seq(ToSet(CapturePath) \cup {Manifest})
  /\ epc \in {"create", "rename"} => DOMAIN target \cup ToSet(left) = Promised
  /\ epc = "done" => DOMAIN target = Promised

ExtractInv ==
  /\ epc \in {"idle", "create", "rename", "done"}
  /\ copy = NoArchive => epc = "idle" /\ target = NoEntries
  /\ epc = "rename" => stray /\ left # <<>>
  /\ epc \in {"create", "done"} => ~stray
  /\ stray \in BOOLEAN
  /\ Extracted

LEMMA NothingExtracted ==
  ASSUME target = NoEntries
  PROVE  DOMAIN target = {}
  BY DEF NoEntries

LEMMA FirstAndRest ==
  ASSUME NEW T, NEW s \in Seq(T), s # <<>>
  PROVE  /\ Head(s) \in T /\ Tail(s) \in Seq(T)
         /\ ToSet(s) = {Head(s)} \cup ToSet(Tail(s))
<1>1. /\ Len(s) \in Nat /\ Len(s) >= 1 /\ DOMAIN s = 1..Len(s)
      /\ Head(s) = s[1] /\ Head(s) \in T
      /\ Tail(s) \in Seq(T) /\ DOMAIN Tail(s) = 1..(Len(s) - 1)
      /\ \A i \in 1..(Len(s) - 1) : Tail(s)[i] = s[i + 1]
  BY HeadTailProperties, LenProperties, EmptySeq
<1> DEFINE t == Tail(s)
<1> HIDE DEF t
<1>2. ASSUME NEW i \in DOMAIN s PROVE s[i] \in {Head(s)} \cup ToSet(t)
  <2>1. CASE i = 1
    BY <1>1, <2>1
  <2>2. CASE i # 1
    <3>1. i - 1 \in DOMAIN t /\ t[i - 1] = s[i]
      <4>1. i - 1 \in 1..(Len(s) - 1) /\ (i - 1) + 1 = i
        BY <1>1, <2>2
      <4> QED
        BY <1>1, <4>1 DEF t
    <3> QED
      BY <3>1 DEF ToSet
  <2> QED
    BY <2>1, <2>2
<1>3. ASSUME NEW i \in DOMAIN t PROVE t[i] \in ToSet(s)
  <2>1. i + 1 \in DOMAIN s /\ t[i] = s[i + 1]
    BY <1>1 DEF t
  <2> QED
    BY <2>1 DEF ToSet
<1>4. Head(s) \in ToSet(s)
  <2>1. 1 \in DOMAIN s
    BY <1>1
  <2> QED
    BY <1>1, <2>1 DEF ToSet
<1>5. ToSet(s) \subseteq {Head(s)} \cup ToSet(t)
  BY <1>2 DEF ToSet
<1>6. ToSet(t) \subseteq ToSet(s)
  BY <1>3 DEF ToSet
<1> QED
  BY <1>1, <1>4, <1>5, <1>6 DEF t

\* The entries that are written are all there are, but for the checksums.
LEMMA EveryEntryIsLeft ==
  ASSUME WholeInv, CopyInv, Verified(copy)
  PROVE  LET order == EntryOrder([path \in Promised |-> {}])
         IN order \in Seq(ToSet(CapturePath) \cup {Manifest}) /\ ToSet(order) = Promised
<1> DEFINE files == [path \in Promised |-> {}]
<1>1. PICK evidence \in Sources : Entries(copy) = Contents(evidence)
  BY VerifiedIsOfSource
<1>2. evidence \in Evidence
  BY DEF Sources
<1>3. Promised = DOMAIN evidence
  <2>1. DOMAIN Entries(copy) = DOMAIN evidence \cup {Sums}
    BY <1>1, <1>2, SummedTyped DEF Contents
  <2>2. Sums \notin DOMAIN evidence
    BY <1>2, EvidenceTyped
  <2> QED
    BY <2>1, <2>2 DEF Promised
<1>4. DOMAIN files = Promised /\ Promised \subseteq ToSet(CapturePath) \cup {Manifest}
  BY <1>2, <1>3, NamesOfEvidence
<1> HIDE DEF files
<1>5. EntryOrder(files) \in Seq(Promised) /\ ToSet(EntryOrder(files)) = Promised
  BY <1>4, OrderTyped
<1>6. EntryOrder(files) \in Seq(ToSet(CapturePath) \cup {Manifest})
  BY <1>4, <1>5, SeqMonotonic
<1> QED
  BY <1>5, <1>6 DEF files

LEMMA ExtractInvariant == Spec => []ExtractInv
<1>1. Init => ExtractInv
  <2> SUFFICES ASSUME Init PROVE ExtractInv
    OBVIOUS
  <2>1. DOMAIN target = {}
    BY NothingExtracted DEF Init
  <2> QED
    BY <2>1, NoneIsSeq DEF Init, ExtractInv, Extracted
<1>2. WholeInv /\ CopyInv /\ ExtractInv /\ [Next]_vars => ExtractInv'
  <2> SUFFICES ASSUME WholeInv, CopyInv, ExtractInv, [Next]_vars PROVE ExtractInv'
    OBVIOUS
  <2>1. ASSUME copy' = copy PROVE Promised' = Promised /\ Entries(copy)' = Entries(copy)
    BY <2>1 DEF Promised, Entries
  <2>2. CASE Carry \/ Damage
    <3>1. /\ epc = "idle" /\ target = NoEntries
          /\ UNCHANGED <<epc, left, target, stray>>
      BY <2>2 DEF Carry, Damage, Quiet, ExtractInv, extractVars
    <3>2. DOMAIN target' = {}
      BY <3>1, NothingExtracted
    <3> QED
      BY <3>1, <3>2 DEF ExtractInv, Extracted
  <2>3. CASE BeginExtract
    <3>1. copy' = copy /\ target' = target /\ stray' = stray /\ epc' = "create"
          /\ left' = EntryOrder([path \in Promised |-> {}])
      BY <2>3 DEF BeginExtract, copyVars, Promised
    <3>2. left' \in Seq(ToSet(CapturePath) \cup {Manifest}) /\ ToSet(left') = Promised
      BY <2>3, <3>1, EveryEntryIsLeft DEF BeginExtract
    <3>3. DOMAIN target = {}
      BY <2>3, NothingExtracted DEF BeginExtract
    <3>4. copy # NoArchive /\ ~stray
      BY <2>3 DEF BeginExtract
    <3> QED
      BY <2>1, <3>1, <3>2, <3>3, <3>4 DEF ExtractInv, Extracted
  <2>4. CASE CreateEntry
    BY <2>1, <2>4 DEF CreateEntry, copyVars, ExtractInv, Extracted
  <2>5. CASE RenameEntry
    <3>1. copy' = copy /\ epc = "rename" /\ epc' = "create" /\ stray' = FALSE
          /\ left' = Tail(left)
          /\ target' = [path \in DOMAIN target \cup {Head(left)} |-> Entries(copy)[path]]
      BY <2>5 DEF RenameEntry, copyVars
    <3>2. left \in Seq(ToSet(CapturePath) \cup {Manifest}) /\ left # <<>>
      BY <3>1 DEF ExtractInv, Extracted
    <3>3. /\ Tail(left) \in Seq(ToSet(CapturePath) \cup {Manifest})
          /\ ToSet(left) = {Head(left)} \cup ToSet(Tail(left))
      BY <3>2, FirstAndRest
    <3>4. DOMAIN target \cup ToSet(left) = Promised
      BY <3>1 DEF ExtractInv, Extracted
    <3>5. DOMAIN target' = DOMAIN target \cup {Head(left)}
          /\ \A path \in DOMAIN target' : target'[path] = Entries(copy)[path]
      BY <3>1
    <3>6. DOMAIN target' \cup ToSet(left') = Promised
      BY <3>1, <3>3, <3>4, <3>5
    <3>7. Extracted'
      BY <2>1, <3>1, <3>3, <3>5, <3>6 DEF Extracted
    <3>8. copy # NoArchive
      BY <3>1 DEF ExtractInv
    <3> QED
      BY <3>1, <3>7, <3>8 DEF ExtractInv
  <2>6. CASE FinishExtract
    <3>1. ToSet(left) = {}
      BY <2>6, ToSetOfNone DEF FinishExtract
    <3> QED
      BY <2>1, <2>6, <3>1 DEF FinishExtract, copyVars, ExtractInv, Extracted
  <2>7. CASE ExtractBreaksOff
    BY <2>1, <2>7, NoneIsSeq DEF ExtractBreaksOff, copyVars, ExtractInv, Extracted
  <2>8. CASE UNCHANGED <<copyVars, extractVars>>
    BY <2>1, <2>8 DEF copyVars, extractVars, ExtractInv, Extracted
  <2> QED
    BY <2>2, <2>3, <2>4, <2>5, <2>6, <2>7, <2>8
    DEF Next, vars, AddCapture, Annotate, SpoilImage, BeginExport, CreateTemp, FillTemp,
        RenameTemp, SyncExports, ExportBreaksOff
<1> QED
  BY <1>1, <1>2, WholeInvariant, CopyInvariant, PTL DEF Spec

\* Property ExtractsWhole: no file is extracted under its name but with its
\* content, and an extraction that ends well has written all of them.
THEOREM WholeIsExtracted == Spec => []ExtractsWhole
<1>1. ExtractInv => ExtractsWhole
  BY DEF ExtractInv, Extracted, ExtractsWhole, Promised
<1> QED
  BY <1>1, ExtractInvariant, PTL

\* Property TypeOK: every variable stays in its range, and the temporary file
\* of the export is open exactly from its creation to its renaming.
THEOREM ArchiveTyped == Spec => []TypeOK
<1> DEFINE DamageInv == damage \in 0..MaxDamage
<1>1. Init => DamageInv
  BY ArchiveAssumption DEF Init
<1>2. DamageInv /\ [Next]_vars => DamageInv'
  <2> SUFFICES ASSUME DamageInv, [Next]_vars PROVE DamageInv'
    OBVIOUS
  <2>1. CASE Damage
    BY <2>1, ArchiveAssumption DEF Damage
  <2>2. CASE UNCHANGED damage
    BY <2>2
  <2> QED
    BY <2>1, <2>2
    DEF Next, vars, copyVars, AddCapture, Annotate, SpoilImage, BeginExport, CreateTemp,
        FillTemp, RenameTemp, SyncExports, ExportBreaksOff, Carry, BeginExtract,
        CreateEntry, RenameEntry, FinishExtract, ExtractBreaksOff
<1>3. ASSUME SessionInv, WholeInv, ExtractInv, DamageInv PROVE TypeOK
  <2>1. \A i \in DOMAIN images : images[i].nr = i /\ images[i].bytes \in ImageBytes
    BY <1>3, PathsAreDistinct DEF SessionInv, Session, Image
  <2>2. ToSet(left) \subseteq ToSet(CapturePath) \cup {Manifest}
    BY <1>3, SeqOfElements DEF ExtractInv, Extracted
  <2> QED
    BY <1>3, <2>1, <2>2 DEF TypeOK, SessionInv, Session, WholeInv, ExtractInv
<1> QED
  BY <1>1, <1>2, <1>3, SessionInvariant, WholeInvariant, ExtractInvariant, PTL DEF Spec

-----------------------------------------------------------------------------
\* What is built can be read back

\* The reader inside an entry, and between two of them.
Inside(e, open, missing) == Reader(e, open, missing, 0, "")
Between(e) == Inside(e, NotOpen, 0)

LEMMA ReaderIs ==
  ASSUME NEW e, NEW open, NEW missing, NEW fault
  PROVE  /\ Reader(e, open, missing, 0, fault).entries = e
         /\ Reader(e, open, missing, 0, fault).open = open
         /\ Reader(e, open, missing, 0, fault).missing = missing
         /\ Reader(e, open, missing, 0, fault).zeros = 0
         /\ Reader(e, open, missing, 0, fault).fault = fault
         /\ [Reader(e, open, missing, 0, fault) EXCEPT !.zeros = 0]
              = Reader(e, open, missing, 0, fault)
  BY DEF Reader

Unrefused(r) == ~(r.fault # "")

LEMMA InsideIs ==
  ASSUME NEW e, NEW open, NEW missing
  PROVE  /\ Inside(e, open, missing).entries = e
         /\ Inside(e, open, missing).open = open
         /\ Inside(e, open, missing).missing = missing
         /\ Inside(e, open, missing).zeros = 0
         /\ Unrefused(Inside(e, open, missing))
         /\ [Inside(e, open, missing) EXCEPT !.zeros = 0] = Inside(e, open, missing)
<1> DEFINE fault == ""
<1> HIDE DEF fault
<1>1. [Reader(e, open, missing, 0, fault) EXCEPT !.zeros = 0]
        = Reader(e, open, missing, 0, fault)
  BY ReaderIs
<1>2. [Inside(e, open, missing) EXCEPT !.zeros = 0] = Inside(e, open, missing)
  BY <1>1 DEF Inside, fault
<1>3. Unrefused(Inside(e, open, missing))
  BY DEF Inside, Reader, Unrefused
<1>4. /\ Inside(e, open, missing).entries = e
      /\ Inside(e, open, missing).open = open
      /\ Inside(e, open, missing).missing = missing
      /\ Inside(e, open, missing).zeros = 0
  BY DEF Inside, Reader
<1> QED
  BY <1>2, <1>3, <1>4

LEMMA BetweenIs ==
  ASSUME NEW e
  PROVE  /\ Between(e).entries = e
         /\ Between(e).missing = 0
         /\ Between(e).zeros = 0
         /\ Unrefused(Between(e))
         /\ [Between(e) EXCEPT !.zeros = 0] = Between(e)
  BY InsideIs DEF Between

\* A block where a header is expected.
LEMMA ReadHeaderNext ==
  ASSUME NEW e, NEW block, block.type # "zero"
  PROVE  ReadBlock(Between(e), block) = ReadHeader(Between(e), block)
<1> DEFINE r == Between(e)
<1>1. /\ ~(r.missing > 0) /\ r.zeros # 2 /\ Unrefused(r)
      /\ [r EXCEPT !.zeros = 0] = r
  BY BetweenIs
<1> HIDE DEF r
<1>2. ReadBlock(r, block) = ReadHeader([r EXCEPT !.zeros = 0], block)
  BY <1>1, Zenon DEF ReadBlock, Unrefused
<1> QED
  BY <1>1, <1>2 DEF r

LEMMA ReadFirstBlock ==
  ASSUME NEW e, NEW path, NEW bytes \in Nat \ {0},
         Cardinality(DOMAIN e) \in Nat, Cardinality(DOMAIN e) < MaxArchiveEntries
  PROVE  ReadBlock(Between(e), Header(path, bytes)) =
           Inside(e, [path |-> path, bytes |-> bytes, parts |-> <<>>], BlocksFor(bytes))
<1> DEFINE r == Between(e)
           block == Header(path, bytes)
           open == [path |-> path, bytes |-> bytes, parts |-> <<>>]
<1>1. ~(Cardinality(DOMAIN e) >= MaxArchiveEntries)
  <2>1. MaxArchiveEntries \in Nat
    BY FormatAssumption DEF MaxArchiveEntries
  <2> QED
    BY <2>1
<1>2. block.bytes = bytes /\ block.path = path /\ bytes # 0
  BY DEF Header
<1>3. /\ ~(block.type = "zero") /\ ~(block.type = "data") /\ ~~block.sound
  BY DEF Header
<1>4. r.entries = e
  BY BetweenIs
<1>5. ReadBlock(r, block) = ReadHeader(r, block)
  BY <1>3, ReadHeaderNext
<1> HIDE DEF r, block
<1>6. ReadHeader(r, block) = Reader(r.entries, open, BlocksFor(bytes), 0, "")
  BY <1>1, <1>2, <1>3, <1>4, Zenon DEF ReadHeader
<1> QED
  BY <1>4, <1>5, <1>6 DEF r, block, Inside

\* The entry with one more part.
Longer(open, part) == [open EXCEPT !.parts = Append(@, part)]

LEMMA ReadPart ==
  ASSUME NEW e, NEW open, NEW missing \in Nat \ {0}, NEW part
  PROVE  ReadBlock(Inside(e, open, missing), Data(part)) =
           IF missing = 1 THEN Close(Inside(e, open, missing), Longer(open, part))
           ELSE Inside(e, Longer(open, part), missing - 1)
<1> DEFINE r == Inside(e, open, missing)
           next == Longer(open, part)
<1>1. r.missing = missing /\ r.entries = e /\ r.open = open /\ Unrefused(r)
  BY InsideIs
<1>2. Data(part).type = "data" /\ Data(part).part = part
  BY DEF Data
<1> HIDE DEF r
<1>3. r.missing > 0
  <2>1. r.missing = missing
    BY <1>1
  <2> QED
    BY <2>1
<1>4. ReadBlock(r, Data(part)) = ReadData(r, Data(part))
  BY <1>1, <1>3, Zenon DEF ReadBlock, Unrefused
<1>5. ReadData(r, Data(part)) = IF missing = 1 THEN Close(r, next)
                                ELSE Reader(e, next, missing - 1, 0, "")
  BY <1>1, <1>2, Zenon DEF ReadData, Longer
<1> QED
  BY <1>4, <1>5 DEF r, Inside

LEMMA OpenGrows ==
  ASSUME NEW path, NEW bytes, NEW got, NEW more
  PROVE  [[path |-> path, bytes |-> bytes, parts |-> got]
            EXCEPT !.parts = more]
           = [path |-> path, bytes |-> bytes, parts |-> more]
  OBVIOUS

\* The entries with one more.
With(e, path, file) ==
  [p \in DOMAIN e \cup {path} |-> IF p = path THEN Content(file) ELSE e[p]]

LEMMA ReadEntry ==
  ASSUME NEW parts, NEW s \in Seq(BlocksWith(parts)), NEW e,
         Reading(s) = Between(e),
         NEW path \in Name, path \notin DOMAIN e,
         Cardinality(DOMAIN e) \in Nat, Cardinality(DOMAIN e) < MaxArchiveEntries,
         NEW file, file.bytes \in Nat \ {0}, \A i \in Nat : Part(file, i) \in parts
  PROVE  /\ s \o Entry(path, file) \in Seq(BlocksWith(parts))
         /\ Reading(s \o Entry(path, file)) =
              Between(With(e, path, file))
<1> DEFINE B == BlocksWith(parts)
           N == BlocksFor(file.bytes)
           header == Header(path, file.bytes)
           block(i) == Data(Part(file, i))
           data(j) == [i \in 1..j |-> block(i)]
           got(j) == [i \in 1..j |-> Part(file, i)]
           open(j) == [path |-> path, bytes |-> file.bytes, parts |-> got(j)]
           inside(j) == Inside(e, open(j), N - j)
           closed == Between(With(e, path, file))
           base == Append(s, header)
<1>1. N \in Nat /\ N # 0
  BY BlocksNeeded
<1>2. header \in B
  BY DEF Header, BlocksWith
<1>3. \A i \in Nat : block(i) \in B
  BY DEF Data, BlocksWith
<1> HIDE DEF B, N, header, block
<1>4. base \in Seq(B) /\ Reading(base) = ReadBlock(Reading(s), header)
  BY <1>2, ReadNext DEF B
<1>5. Reading(base) = inside(0)
  <2>1. got(0) = <<>>
    OBVIOUS
  <2>2. Reading(base) = Inside(e, [path |-> path, bytes |-> file.bytes, parts |-> <<>>], N)
    BY <1>4, ReadFirstBlock DEF header, N
  <2> QED
    BY <1>1, <2>1, <2>2
<1>6. \A j \in Nat : data(j) \in Seq(B)
  BY <1>3
<1>7. ASSUME NEW j \in Nat, j + 1 <= N
      PROVE  ReadBlock(inside(j), block(j + 1)) =
               IF j + 1 = N THEN closed ELSE inside(j + 1)
  <2>1. N - j \in Nat \ {0} /\ (N - j = 1 <=> j + 1 = N) /\ (N - j) - 1 = N - (j + 1)
    BY <1>1, <1>7
  <2>2. Append(got(j), Part(file, j + 1)) = got(j + 1)
    OBVIOUS
  <2>3. [open(j) EXCEPT !.parts = Append(@, Part(file, j + 1))] = open(j + 1)
    <3>1. open(j).parts = got(j)
      OBVIOUS
    <3>2. \A bytes, some, more :
            [[path |-> path, bytes |-> bytes, parts |-> some] EXCEPT !.parts = more]
              = [path |-> path, bytes |-> bytes, parts |-> more]
      BY OpenGrows, Zenon
    <3> HIDE DEF got
    <3>3. Append(open(j).parts, Part(file, j + 1)) = got(j + 1)
      BY <2>2, <3>1, Zenon
    <3>4. [open(j) EXCEPT !.parts = got(j + 1)] = open(j + 1)
      BY <3>2, Zenon
    <3> HIDE DEF open
    <3> QED
      BY <3>3, <3>4, Zenon
  <2>4. ReadBlock(inside(j), block(j + 1)) =
          IF N - j = 1 THEN Close(inside(j), open(j + 1))
          ELSE Inside(e, open(j + 1), (N - j) - 1)
    <3> DEFINE now == open(j)
               missing == N - j
               part == Part(file, j + 1)
    <3>1. missing \in Nat \ {0}
      BY <2>1
    <3>2. Longer(now, part) = open(j + 1)
      BY <2>3 DEF Longer
    <3> HIDE DEF open, now, missing, part
    <3>3. ReadBlock(Inside(e, now, missing), Data(part)) =
            IF missing = 1 THEN Close(Inside(e, now, missing), Longer(now, part))
            ELSE Inside(e, Longer(now, part), missing - 1)
      BY <3>1, ReadPart
    <3> QED
      BY <3>2, <3>3, Zenon DEF block, now, missing, part
  <2>5. j + 1 = N => Close(inside(j), open(j + 1)) = closed
    <3>1. /\ inside(j).entries = e /\ open(j + 1).path = path
          /\ open(j + 1).bytes = file.bytes /\ open(j + 1).parts = got(j + 1)
      <4>1. open(j + 1).path = path /\ open(j + 1).bytes = file.bytes
            /\ open(j + 1).parts = got(j + 1)
        BY Zenon
      <4> HIDE DEF open
      <4>2. inside(j).entries = e
        BY InsideIs
      <4> QED
        BY <4>1, <4>2
    <3> HIDE DEF inside, open
    <3>2. j + 1 = N => [bytes |-> file.bytes, parts |-> got(j + 1)] = Content(file)
      BY DEF Content, Parts, N
    <3> QED
      BY <3>1, <3>2, Zenon DEF Close, With, Between, Inside
  <2> QED
    BY <2>1, <2>4, <2>5
<1> DEFINE S == {j \in Nat : j <= N => Reading(base \o data(j)) =
                                         IF j = N THEN closed ELSE inside(j)}
<1>8. 0 \in S
  <2>1. data(0) = <<>>
    OBVIOUS
  <2>2. base \o data(0) = base
    BY <1>4, <2>1, ConcatEmptySeq
  <2> HIDE DEF base, inside, closed, data
  <2> QED
    BY <1>1, <1>5, <2>2
<1>9. ASSUME NEW j \in Nat, j \in S PROVE j + 1 \in S
  <2> SUFFICES ASSUME j + 1 <= N
               PROVE  Reading(base \o data(j + 1)) =
                        IF j + 1 = N THEN closed ELSE inside(j + 1)
    OBVIOUS
  <2>1. Reading(base \o data(j)) = inside(j)
    BY <1>1, <1>9
  <2>2. data(j + 1) = Append(data(j), block(j + 1))
    OBVIOUS
  <2>3. data(j) \in Seq(B) /\ block(j + 1) \in B
    BY <1>3, <1>6
  <2> HIDE DEF base, inside, closed, data, S
  <2>4. base \o data(j + 1) = Append(base \o data(j), block(j + 1))
        /\ base \o data(j) \in Seq(B)
    <3>1. base \o Append(data(j), block(j + 1)) = Append(base \o data(j), block(j + 1))
          /\ base \o data(j) \in Seq(B)
      BY <1>4, <2>3, ConcatNext
    <3> QED
      BY <2>2, <3>1, Zenon
  <2>5. Reading(base \o data(j + 1)) = ReadBlock(Reading(base \o data(j)), block(j + 1))
    BY <2>3, <2>4, ReadNext DEF B
  <2> QED
    BY <1>7, <2>1, <2>5
<1> HIDE DEF S
<1>10. N \in S
  BY <1>1, <1>8, <1>9, Induct
<1>11. Reading(base \o data(N)) = closed
  BY <1>1, <1>10 DEF S
<1>12. s \o Entry(path, file) = base \o data(N) /\ base \o data(N) \in Seq(B)
  <2>1. Entry(path, file) = <<header>> \o data(N)
    BY DEF Entry, header, block, N
  <2>2. base = s \o <<header>> /\ <<header>> \in Seq(B) /\ s \in Seq(B)
    BY <1>2 DEF B
  <2>3. data(N) \in Seq(B)
    BY <1>1, <1>6
  <2> HIDE DEF base, data
  <2>4. (s \o <<header>>) \o data(N) = s \o (<<header>> \o data(N))
    BY <2>2, <2>3, ConcatAssociative
  <2> QED
    BY <1>4, <2>1, <2>2, <2>3, <2>4, ToSetOfConcat
<1> QED
  BY <1>11, <1>12 DEF B

\* The entries of the files that o names.
EntriesOf(all, o) == [i \in DOMAIN o |-> Entry(o[i], all[o[i]])]
ContentsOf(all, o) == [path \in ToSet(o) |-> Content(all[path])]

LEMMA EntriesOfNext ==
  ASSUME NEW all, NEW T, NEW o \in Seq(T), NEW path \in T
  PROVE  EntriesOf(all, Append(o, path)) = Append(EntriesOf(all, o), Entry(path, all[path]))
<1> DEFINE p == Append(o, path)
           t == EntriesOf(all, o)
<1>1. /\ DOMAIN p = 1..(Len(o) + 1) /\ DOMAIN o = 1..Len(o) /\ Len(o) \in Nat
      /\ \A i \in 1..Len(o) : p[i] = o[i]
      /\ p[Len(o) + 1] = path
  OBVIOUS
<1> HIDE DEF p
<1> DEFINE U == {Entry(o[i], all[o[i]]) : i \in DOMAIN o} \cup {Entry(path, all[path])}
<1>2. t \in Seq(U) /\ Len(t) = Len(o) /\ \A i \in 1..Len(o) : t[i] = Entry(o[i], all[o[i]])
  BY <1>1 DEF EntriesOf
<1> HIDE DEF t
<1>3. Entry(path, all[path]) \in U
  OBVIOUS
<1> HIDE DEF U
<1> DEFINE u == Append(t, Entry(path, all[path]))
<1>4. /\ u \in Seq(U) /\ Len(u) = Len(o) + 1
      /\ \A i \in 1..Len(o) : u[i] = t[i]
      /\ u[Len(o) + 1] = Entry(path, all[path])
  BY <1>1, <1>2, <1>3
<1>5. u = [i \in 1..(Len(o) + 1) |-> u[i]]
  BY <1>4, LenProperties
<1> HIDE DEF u
<1>6. \A i \in 1..(Len(o) + 1) : u[i] = Entry(p[i], all[p[i]])
  BY <1>1, <1>2, <1>4
<1>7. EntriesOf(all, p) = u
  BY <1>1, <1>5, <1>6 DEF EntriesOf
<1> QED
  BY <1>7 DEF p, u, t

LEMMA InjectiveNext ==
  ASSUME NEW T, NEW o \in Seq(T), NEW path \in T, IsInjective(Append(o, path))
  PROVE  IsInjective(o) /\ path \notin ToSet(o)
<1>1. /\ DOMAIN Append(o, path) = 1..(Len(o) + 1)
      /\ DOMAIN o = 1..Len(o) /\ Len(o) \in Nat
      /\ \A i \in 1..Len(o) : Append(o, path)[i] = o[i]
      /\ Append(o, path)[Len(o) + 1] = path
  OBVIOUS
<1>2. IsInjective(o)
  BY <1>1 DEF IsInjective
<1>3. ASSUME NEW i \in DOMAIN o PROVE o[i] # path
  <2>1. /\ i \in DOMAIN Append(o, path) /\ Len(o) + 1 \in DOMAIN Append(o, path)
        /\ i # Len(o) + 1
    BY <1>1
  <2> QED
    BY <1>1, <2>1 DEF IsInjective
<1> QED
  BY <1>2, <1>3 DEF ToSet

LEMMA ReadEntries ==
  ASSUME NEW files \in Evidence, NEW o \in Seq(DOMAIN WithSums(files)),
         IsInjective(o), Len(o) <= MaxArchiveEntries
  PROVE  /\ FlattenSeq(EntriesOf(WithSums(files), o)) \in Seq(BlocksWith(PartsOf(files)))
         /\ Reading(FlattenSeq(EntriesOf(WithSums(files), o)))
              = Between(ContentsOf(WithSums(files), o))
<1> DEFINE all == WithSums(files)
           D == DOMAIN all
           parts == PartsOf(files)
           B == BlocksWith(parts)
           blocks(u) == FlattenSeq(EntriesOf(all, u))
           P == {u \in Seq(D) : IsInjective(u) /\ Len(u) <= MaxArchiveEntries =>
                   blocks(u) \in Seq(B) /\ Reading(blocks(u)) = Between(ContentsOf(all, u))}
<1>1. \A path \in D : path \in Name /\ all[path].bytes \in Nat \ {0}
  BY SummedTyped
<1>2. \A path \in D, i \in Nat : Part(all[path], i) \in parts
  BY DEF PartsOf
<1>3. \A path \in D : Entry(path, all[path]) \in Seq(B)
  BY EntryTyped
<1>4. MaxArchiveEntries \in Nat
  BY FormatAssumption DEF MaxArchiveEntries
<1> HIDE DEF all, D, parts, B
<1>5. \A u \in Seq(D) : EntriesOf(all, u) \in Seq(Seq(B))
  <2> SUFFICES ASSUME NEW u \in Seq(D) PROVE EntriesOf(all, u) \in Seq(Seq(B))
    OBVIOUS
  <2>1. DOMAIN u = 1..Len(u) /\ Len(u) \in Nat /\ \A i \in DOMAIN u : u[i] \in D
    BY LenProperties, ElementOfSeq
  <2> QED
    BY <1>3, <2>1 DEF EntriesOf
<1>6. <<>> \in P
  <2>1. EntriesOf(all, <<>>) = <<>>
    BY DEF EntriesOf
  <2>2. blocks(<<>>) = <<>>
    BY <2>1, FlattenNone
  <2>3. ContentsOf(all, <<>>) = NoEntries
    BY ToSetOfNone DEF ContentsOf, NoEntries
  <2>4. AtStart = Between(NoEntries)
    BY DEF AtStart, Between, Inside
  <2>5. Reading(blocks(<<>>)) = Between(ContentsOf(all, <<>>))
    BY <2>2, <2>3, <2>4, ReadNone
  <2> HIDE DEF blocks
  <2> QED
    BY <2>2, <2>5, NoneIsSeq
<1>7. ASSUME NEW u \in Seq(D), u \in P, NEW x \in D PROVE Append(u, x) \in P
  <2> DEFINE v == Append(u, x)
  <2>1. v \in Seq(D) /\ Len(v) = Len(u) + 1 /\ Len(u) \in Nat
    OBVIOUS
  <2> SUFFICES ASSUME IsInjective(v), Len(v) <= MaxArchiveEntries
               PROVE  /\ blocks(v) \in Seq(B)
                      /\ Reading(blocks(v)) = Between(ContentsOf(all, v))
    BY <2>1
  <2>2. IsInjective(u) /\ x \notin ToSet(u)
    BY InjectiveNext
  <2>3. blocks(u) \in Seq(B) /\ Reading(blocks(u)) = Between(ContentsOf(all, u))
    BY <1>4, <1>7, <2>1, <2>2
  <2>4. EntriesOf(all, v) = Append(EntriesOf(all, u), Entry(x, all[x]))
    BY EntriesOfNext
  <2>5. blocks(v) = blocks(u) \o Entry(x, all[x])
    BY <1>3, <1>5, <2>4, FlattenNext
  <2>6. ToSet(v) = ToSet(u) \cup {x}
    BY ToSetOfNext
  <2> HIDE DEF v, blocks
  <2> DEFINE e == ContentsOf(all, u)
  <2>7. DOMAIN e = ToSet(u)
    BY DEF ContentsOf
  <2>8. /\ Cardinality(DOMAIN e) \in Nat /\ Cardinality(DOMAIN e) < MaxArchiveEntries
    <3>1. /\ Cardinality(ToSet(u)) \in Nat /\ Cardinality(ToSet(u)) <= Len(u)
      BY ToSetIsFinite
    <3> QED
      BY <1>4, <2>1, <2>7, <3>1
  <2>9. With(e, x, all[x]) = ContentsOf(all, v)
    BY <2>2, <2>6, <2>7 DEF With, ContentsOf
  <2> HIDE DEF e
  <2>10. /\ blocks(u) \o Entry(x, all[x]) \in Seq(B)
         /\ Reading(blocks(u) \o Entry(x, all[x])) = Between(With(e, x, all[x]))
    <3>1. /\ x \in Name /\ all[x].bytes \in Nat \ {0} /\ x \notin DOMAIN e
          /\ \A i \in Nat : Part(all[x], i) \in parts
      BY <1>1, <1>2, <2>2, <2>7
    <3>2. blocks(u) \in Seq(BlocksWith(parts)) /\ Reading(blocks(u)) = Between(e)
      BY <2>3 DEF B, e
    <3> QED
      BY <2>8, <3>1, <3>2, ReadEntry DEF B
  <2> QED
    BY <2>5, <2>9, <2>10
<1> HIDE DEF P
<1>8. Seq(D) \subseteq P
  BY <1>6, <1>7, SeqInduct
<1>9. o \in Seq(D)
  BY DEF D, all
<1>10. blocks(o) \in Seq(B) /\ Reading(blocks(o)) = Between(ContentsOf(all, o))
  BY <1>8, <1>9 DEF P
<1> QED
  BY <1>10 DEF B, parts, all

\* The first n captures, and all files of a session with n captures in the order
\* of their names.
FirstCaptures(n) == [i \in 1..n |-> CapturePath[i]]
WithChecksums(n) == <<Sums>> \o FirstCaptures(n)
Ordered(n) == Append(WithChecksums(n), Manifest)

LEMMA OrderedIs ==
  ASSUME NEW n \in 0..Len(CapturePath)
  PROVE  LET T == {CapturePath[i] : i \in 1..n} \cup {Sums, Manifest}
         IN /\ FirstCaptures(n) \in Seq({CapturePath[i] : i \in 1..n})
            /\ WithChecksums(n) \in Seq(T) /\ Len(WithChecksums(n)) = n + 1
            /\ Ordered(n) \in Seq(T) /\ ToSet(Ordered(n)) = T
            /\ Len(Ordered(n)) = n + 2
            /\ IsInjective(Ordered(n))
<1> DEFINE C == {CapturePath[i] : i \in 1..n}
           T == C \cup {Sums, Manifest}
           caps == FirstCaptures(n)
           o == Ordered(n)
<1>1. /\ DOMAIN CapturePath = 1..Len(CapturePath) /\ Len(CapturePath) \in Nat
      /\ \A i \in DOMAIN CapturePath : CapturePath[i] \notin {Manifest, Sums}
      /\ \A i, j \in DOMAIN CapturePath : CapturePath[i] = CapturePath[j] => i = j
  <2>1. CapturePath \in Seq(STRING \ {Manifest, Sums})
    BY FormatAssumption
  <2>2. /\ DOMAIN CapturePath = 1..Len(CapturePath) /\ Len(CapturePath) \in Nat
        /\ \A i \in 1..Len(CapturePath) : CapturePath[i] \in STRING \ {Manifest, Sums}
    BY <2>1, LenProperties, ElementOfSeq
  <2> QED
    BY <2>2, FormatAssumption DEF IsInjective
<1>2. n \in Nat /\ n <= Len(CapturePath) /\ 1..n \subseteq DOMAIN CapturePath
  BY <1>1
<1>3. Sums # Manifest
  BY DEF Sums, Manifest
<1>4. /\ caps \in Seq(C) /\ Len(caps) = n
      /\ \A i \in 1..n : caps[i] = CapturePath[i]
  BY <1>2 DEF FirstCaptures
<1> DEFINE w == WithChecksums(n)
<1>5. /\ w \in Seq(T) /\ Len(w) = n + 1 /\ w[1] = Sums
      /\ \A i \in 1..n : w[i + 1] = CapturePath[i]
  <2>1. /\ <<Sums>> \in Seq(T) /\ Len(<<Sums>>) = 1 /\ <<Sums>>[1] = Sums
    OBVIOUS
  <2>2. caps \in Seq(T)
    BY <1>4
  <2>3. w = <<Sums>> \o caps
    BY DEF WithChecksums
  <2> DEFINE one == <<Sums>>
  <2> HIDE DEF caps, one, T, w
  <2>4. /\ w \in Seq(T) /\ Len(w) = 1 + n
        /\ \A i \in 1..(1 + n) : w[i] = IF i <= 1 THEN one[i] ELSE caps[i - 1]
    BY <1>4, <2>1, <2>2, <2>3, ConcatProperties DEF one
  <2>5. w[1] = Sums
    BY <1>2, <2>1, <2>4 DEF one
  <2>6. ASSUME NEW i \in 1..n PROVE w[i + 1] = CapturePath[i]
    <3>1. i + 1 \in 1..(1 + n) /\ ~(i + 1 <= 1) /\ (i + 1) - 1 = i
      BY <1>2
    <3> QED
      BY <1>4, <2>4, <3>1
  <2> QED
    BY <1>2, <2>4, <2>5, <2>6
<1>6. /\ o \in Seq(T) /\ Len(o) = n + 2 /\ o[1] = Sums /\ o[n + 2] = Manifest
      /\ \A i \in 1..n : o[i + 1] = CapturePath[i]
  <2>1. o = Append(w, Manifest) /\ Manifest \in T
    BY DEF Ordered
  <2> HIDE DEF o, w, T
  <2>2. /\ o \in Seq(T) /\ Len(o) = n + 2 /\ o[n + 2] = Manifest
        /\ \A i \in 1..(n + 1) : o[i] = w[i]
    BY <1>2, <1>5, <2>1, AppendProperties
  <2> QED
    BY <1>2, <1>5, <2>2
<1> HIDE DEF o, w, caps
<1>7. DOMAIN o = 1..(n + 2)
  BY <1>6
<1>8. \A i \in 1..(n + 2) : i = 1 \/ i = n + 2 \/ (i - 1 \in 1..n /\ (i - 1) + 1 = i)
  BY <1>2
<1>9. ToSet(o) = T
  <2>1. Sums \in ToSet(o) /\ Manifest \in ToSet(o)
    <3>1. 1 \in DOMAIN o /\ n + 2 \in DOMAIN o
      BY <1>2, <1>7
    <3> QED
      BY <1>6, <3>1 DEF ToSet
  <2>2. ASSUME NEW i \in 1..n PROVE CapturePath[i] \in ToSet(o)
    <3>1. i + 1 \in DOMAIN o
      BY <1>2, <1>7
    <3> QED
      BY <1>6, <3>1 DEF ToSet
  <2>3. ToSet(o) \subseteq T
    BY <1>6, SeqOfElements
  <2> QED
    BY <2>1, <2>2, <2>3
<1>10. IsInjective(o)
  <2> SUFFICES ASSUME NEW i \in 1..(n + 2), NEW j \in 1..(n + 2), o[i] = o[j]
               PROVE  i = j
    BY <1>7 DEF IsInjective
  <2>1. /\ i = 1 \/ i = n + 2 \/ (i - 1 \in 1..n /\ o[i] = CapturePath[i - 1])
        /\ j = 1 \/ j = n + 2 \/ (j - 1 \in 1..n /\ o[j] = CapturePath[j - 1])
    BY <1>6, <1>8
  <2>2. \A k \in 1..n : CapturePath[k] # Sums /\ CapturePath[k] # Manifest
    BY <1>1, <1>2
  <2>3. i - 1 \in 1..n /\ j - 1 \in 1..n /\ CapturePath[i - 1] = CapturePath[j - 1]
          => i - 1 = j - 1
    BY <1>1, <1>2
  <2> QED
    BY <1>3, <1>6, <2>1, <2>2, <2>3
<1> QED
  BY <1>4, <1>5, <1>6, <1>9, <1>10 DEF o, w, caps

LEMMA OrderOfSession ==
  ASSUME NEW s \in Session, NEW n
  PROVE  LET all == WithSums(EvidenceFiles(s, n))
         IN EntryOrder(all) = Ordered(Len(s))
<1> DEFINE all == WithSums(EvidenceFiles(s, n))
           D == DOMAIN all
           k == Len(s)
           L == Len(CapturePath)
           C == {CapturePath[i] : i \in 1..k}
           rest == [i \in 1..(L - k) |-> CapturePath[i + k]]
           R == {CapturePath[i] : i \in (k + 1)..L}
<1>1. /\ DOMAIN CapturePath = 1..L /\ L \in Nat
      /\ \A i \in 1..L : CapturePath[i] \notin {Manifest, Sums}
      /\ \A i, j \in 1..L : CapturePath[i] = CapturePath[j] => i = j
      /\ MaxCaptureCount \in 1..L
  <2>1. CapturePath \in Seq(STRING \ {Manifest, Sums})
    BY FormatAssumption
  <2>2. /\ DOMAIN CapturePath = 1..Len(CapturePath) /\ Len(CapturePath) \in Nat
        /\ \A i \in 1..Len(CapturePath) : CapturePath[i] \in STRING \ {Manifest, Sums}
    BY <2>1, LenProperties, ElementOfSeq
  <2> QED
    BY <2>2, FormatAssumption DEF IsInjective
<1>2. k \in Nat /\ k <= L /\ DOMAIN s = 1..k
  BY <1>1 DEF Session
<1>3. D = C \cup {Manifest, Sums}
  <2>1. DOMAIN EvidenceFiles(s, n) = C \cup {Manifest}
    BY <1>2, EvidenceIs
  <2>2. D = DOMAIN EvidenceFiles(s, n) \cup {Sums}
    BY DEF WithSums
  <2> QED
    BY <2>1, <2>2
<1>4. FirstCaptures(k) \in Seq(C) /\ Len(FirstCaptures(k)) = k
  BY <1>2 DEF FirstCaptures
<1>5. rest \in Seq(R) /\ Len(rest) = L - k
  BY <1>1, <1>2
<1>6. CapturePath = FirstCaptures(k) \o rest
  <2> DEFINE a == FirstCaptures(k)
             T == C \cup R
             u == a \o rest
  <2>1. a \in Seq(T) /\ rest \in Seq(T) /\ Len(a) = k /\ Len(rest) = L - k
    <3>1. a \in Seq(C) /\ rest \in Seq(R) /\ Len(a) = k /\ Len(rest) = L - k
      BY <1>4, <1>5
    <3> HIDE DEF a, rest, C, R
    <3> QED
      BY <3>1
  <2>2. \A i \in 1..k : a[i] = CapturePath[i]
    BY DEF FirstCaptures
  <2>3. \A i \in 1..(L - k) : rest[i] = CapturePath[i + k]
    OBVIOUS
  <2> HIDE DEF a, rest, T
  <2>4. /\ u \in Seq(T) /\ Len(u) = L
        /\ \A i \in 1..L : u[i] = IF i <= k THEN a[i] ELSE rest[i - k]
    <3>1. /\ u \in Seq(T) /\ Len(u) = Len(a) + Len(rest)
          /\ \A i \in 1..(Len(a) + Len(rest)) :
               u[i] = IF i <= Len(a) THEN a[i] ELSE rest[i - Len(a)]
      BY <2>1, ConcatProperties
    <3>2. k + (L - k) = L
      BY <1>1, <1>2
    <3> HIDE DEF k, L, u
    <3> QED
      BY <2>1, <3>1, <3>2
  <2> HIDE DEF u
  <2>5. ASSUME NEW i \in 1..L PROVE u[i] = CapturePath[i]
    <3>1. CASE i <= k
      <4>1. i \in 1..k
        BY <1>1, <1>2, <3>1
      <4> QED
        BY <2>2, <2>4, <3>1, <4>1
    <3>2. CASE i > k
      <4>1. i - k \in 1..(L - k) /\ (i - k) + k = i /\ ~(i <= k)
        BY <1>1, <1>2, <3>2
      <4> QED
        BY <2>3, <2>4, <4>1
    <3> QED
      BY <1>2, <3>1, <3>2
  <2> HIDE DEF u
  <2>6. u = [i \in 1..L |-> u[i]] /\ CapturePath = [i \in 1..L |-> CapturePath[i]]
    <3>1. u = [i \in 1..L |-> u[i]]
      BY <2>4, LenProperties
    <3>2. CapturePath = [i \in 1..L |-> CapturePath[i]]
      BY FormatAssumption, LenProperties
    <3> QED
      BY <3>1, <3>2
  <2>7. u = CapturePath
    BY <2>5, <2>6
  <2> QED
    BY <2>7 DEF u, a
<1>7. Retain(FirstCaptures(k), D) = FirstCaptures(k)
  BY <1>3, <1>4, RetainAll
<1>8. Retain(rest, D) = <<>>
  <2>1. R \cap D = {}
    <3> SUFFICES ASSUME NEW i \in (k + 1)..L PROVE CapturePath[i] \notin D
      OBVIOUS
    <3>1. i \in 1..L /\ \A j \in 1..k : j # i /\ j \in 1..L
      BY <1>1, <1>2
    <3>2. CapturePath[i] \notin C
      BY <1>1, <3>1
    <3> QED
      BY <1>1, <1>3, <3>1, <3>2
  <2> HIDE DEF R, rest, D
  <2> QED
    BY <1>5, <2>1, RetainNothing
<1> DEFINE one == <<Sums>>
           last == <<Manifest>>
<1>9. Retain(one, D) = one /\ Retain(last, D) = last
  <2>1. one \in Seq({Sums}) /\ last \in Seq({Manifest})
    OBVIOUS
  <2>2. {Sums} \subseteq D /\ {Manifest} \subseteq D
    BY <1>3
  <2> HIDE DEF one, last, D
  <2> QED
    BY <2>1, <2>2, RetainAll
<1> DEFINE P == ToSet(CapturePath) \cup {Sums, Manifest}
<1>10. /\ one \in Seq(P) /\ last \in Seq(P) /\ CapturePath \in Seq(P)
       /\ FirstCaptures(k) \in Seq(P) /\ rest \in Seq(P)
  <2>1. /\ FirstCaptures(k) \in Seq(C) /\ rest \in Seq(R)
        /\ CapturePath \in Seq(ToSet(CapturePath))
    BY <1>4, <1>5, FormatAssumption, SeqOfElements
  <2>2. C \subseteq P /\ R \subseteq P /\ ToSet(CapturePath) \subseteq P
    BY <1>1, <1>2 DEF ToSet
  <2>3. one \in Seq(P) /\ last \in Seq(P)
    OBVIOUS
  <2> HIDE DEF one, last, rest, C, R, P
  <2> QED
    BY <2>1, <2>2, <2>3
<1>11. Retain(CapturePath, D) = FirstCaptures(k)
  <2> HIDE DEF rest, D, P
  <2>1. Retain(FirstCaptures(k) \o rest, D) = Retain(FirstCaptures(k), D) \o Retain(rest, D)
    BY <1>10, RetainConcat
  <2>2. FirstCaptures(k) \o <<>> = FirstCaptures(k)
    BY <1>10, ConcatEmptySeq
  <2> QED
    BY <1>6, <1>7, <1>8, <2>1, <2>2
<1>12. Retain((one \o CapturePath) \o last, D) = (one \o FirstCaptures(k)) \o last
  <2> HIDE DEF one, last, D, P
  <2>1. one \o CapturePath \in Seq(P)
    BY <1>10, ToSetOfConcat
  <2>2. Retain((one \o CapturePath) \o last, D)
          = Retain(one \o CapturePath, D) \o Retain(last, D)
    <3> DEFINE w == one \o CapturePath
    <3>1. w \in Seq(P) /\ last \in Seq(P)
      BY <1>10, <2>1
    <3> HIDE DEF w
    <3>2. Retain(w \o last, D) = Retain(w, D) \o Retain(last, D)
      BY <3>1, RetainConcat
    <3> QED
      BY <3>2 DEF w
  <2>3. Retain(one \o CapturePath, D) = Retain(one, D) \o Retain(CapturePath, D)
    BY <1>10, RetainConcat, SMTT(20)
  <2> QED
    BY <1>9, <1>11, <2>2, <2>3
<1>13. (one \o FirstCaptures(k)) \o last = Ordered(k)
  <2> DEFINE w == one \o FirstCaptures(k)
  <2>1. w \in Seq(P)
    <3> HIDE DEF one, P
    <3> QED
      BY <1>10, ToSetOfConcat
  <2>2. w = WithChecksums(k)
    BY DEF WithChecksums
  <2> HIDE DEF w, P
  <2>3. w \o <<Manifest>> = Append(w, Manifest)
    BY <2>1, AppendIsConcat
  <2> QED
    BY <2>2, <2>3 DEF Ordered, w
<1>14. EntryOrder(all) = Retain((one \o CapturePath) \o last, D)
  BY DEF EntryOrder
<1> QED
  BY <1>12, <1>13, <1>14

\* Two blocks of zeros end an archive, after entries that can be read.
LEMMA ReadTerminator ==
  ASSUME NEW parts, NEW s \in Seq(BlocksWith(parts)), NEW e,
         Reading(s) = Between(e)
  PROVE  LET r == Reading(s \o <<Zero, Zero>>)
         IN r.entries = e /\ r.missing = 0 /\ r.zeros = 2 /\ Unrefused(r)
<1> DEFINE B == BlocksWith(parts)
           once == [Between(e) EXCEPT !.zeros = 1]
           twice == [once EXCEPT !.zeros = 2]
           block == Zero
<1>1. block \in B /\ block.type = "zero"
  BY DEF Zero, BlocksWith
<1>2. s \o <<Zero, Zero>> = Append(Append(s, block), block)
  OBVIOUS
<1>3. Append(s, block) \in Seq(B)
  BY <1>1
<1>4. /\ Reading(Append(s, block)) = ReadBlock(Between(e), block)
      /\ Reading(Append(Append(s, block), block)) = ReadBlock(Reading(Append(s, block)), block)
  <2> DEFINE t == Append(s, block)
  <2>1. t \in Seq(B) /\ block \in B
    BY <1>1, <1>3
  <2>2. Reading(t) = ReadBlock(Reading(s), block)
    BY <1>1, ReadNext
  <2> HIDE DEF t, block
  <2>3. Reading(Append(t, block)) = ReadBlock(Reading(t), block)
    BY <2>1, ReadNext
  <2> QED
    BY <2>2, <2>3 DEF t
<1>5. /\ once.entries = e /\ once.missing = 0 /\ once.zeros = 1 /\ Unrefused(once)
      /\ twice.entries = e /\ twice.missing = 0 /\ twice.zeros = 2 /\ Unrefused(twice)
  BY DEF Between, Inside, Reader, Unrefused
<1>6. ReadBlock(Between(e), block) = once
  <2> DEFINE r == Between(e)
  <2>1. ~(r.missing > 0) /\ r.zeros # 2 /\ Unrefused(r) /\ r.zeros = 0
    BY BetweenIs
  <2> HIDE DEF r, block
  <2>2. ReadBlock(r, block) = ReadHeader(r, block)
    BY <1>1, <2>1, Zenon DEF ReadBlock, Unrefused
  <2>3. ReadHeader(r, block) = [r EXCEPT !.zeros = @ + 1]
    BY <1>1, Zenon DEF ReadHeader
  <2>4. [r EXCEPT !.zeros = @ + 1] = [r EXCEPT !.zeros = 1]
    BY <2>1
  <2> QED
    BY <2>2, <2>3, <2>4 DEF r
<1>7. ReadBlock(once, block) = twice
  <2>1. ~(once.missing > 0) /\ once.zeros # 2 /\ Unrefused(once) /\ once.zeros = 1
    BY <1>5
  <2> HIDE DEF once, block
  <2>2. ReadBlock(once, block) = ReadHeader(once, block)
    BY <1>1, <2>1, Zenon DEF ReadBlock, Unrefused
  <2>3. ReadHeader(once, block) = [once EXCEPT !.zeros = @ + 1]
    BY <1>1, Zenon DEF ReadHeader
  <2>4. [once EXCEPT !.zeros = @ + 1] = [once EXCEPT !.zeros = 2]
    BY <2>1
  <2> QED
    BY <2>2, <2>3, <2>4
<1> HIDE DEF once, twice, block
<1> QED
  BY <1>2, <1>4, <1>5, <1>6, <1>7

\* An archive within the limit is read as what was put in.
LEMMA BuiltIsRead ==
  ASSUME NEW s \in Session, NEW n \in Note,
         ArchiveBytes(BuildTar(EvidenceFiles(s, n))) <= MaxArchiveBytes
  PROVE  LET files == EvidenceFiles(s, n)
             r == ParseArchiveEntries(BuildTar(files))
         IN r.fault = "" /\ r.entries = Contents(files)
<1> DEFINE files == EvidenceFiles(s, n)
           all == WithSums(files)
           k == Len(s)
           o == Ordered(k)
           flat == FlattenSeq(EntriesOf(all, o))
           a == BuildTar(files)
           r == Reading(a.blocks)
<1>1. files \in Evidence
  BY DEF Evidence
<1>2. /\ k \in 0..Len(CapturePath) /\ k <= MaxCaptureCount /\ k \in Nat /\ DOMAIN s = 1..k
      /\ Len(CapturePath) \in Nat /\ MaxCaptureCount \in Nat
  BY FormatAssumption DEF Session
<1>3. DOMAIN all = {CapturePath[i] : i \in 1..k} \cup {Sums, Manifest}
  <2>1. DOMAIN files = {CapturePath[i] : i \in 1..k} \cup {Manifest}
    BY <1>2, EvidenceIs
  <2>2. DOMAIN all = DOMAIN files \cup {Sums}
    BY DEF WithSums
  <2> QED
    BY <2>1, <2>2
<1> DEFINE T == {CapturePath[i] : i \in 1..k} \cup {Sums, Manifest}
<1>4. o \in Seq(T) /\ ToSet(o) = T /\ Len(o) = k + 2 /\ IsInjective(o)
  BY <1>2, OrderedIs
<1>5. Len(o) <= MaxArchiveEntries
  BY <1>2, <1>4 DEF MaxArchiveEntries
<1>6. /\ flat \in Seq(BlocksWith(PartsOf(files)))
      /\ Reading(flat) = Between(ContentsOf(all, o))
  <2>1. o \in Seq(DOMAIN WithSums(files))
    BY <1>3, <1>4
  <2> HIDE DEF files, o
  <2> QED
    BY <1>1, <1>4, <1>5, <2>1, ReadEntries DEF o
<1>7. ContentsOf(all, o) = Contents(files)
  BY <1>3, <1>4 DEF ContentsOf, Contents
<1>8. a.blocks = flat \o <<Zero, Zero>> /\ a.ragged = FALSE
  <2>1. EntryOrder(all) = o
    BY OrderOfSession
  <2> QED
    BY <2>1 DEF BuildTar, Blocks, EntriesOf
<1>9. /\ r.entries = Contents(files) /\ r.missing = 0 /\ r.zeros = 2 /\ Unrefused(r)
  <2> HIDE DEF files, all, o, flat, a
  <2> QED
    BY <1>6, <1>7, <1>8, ReadTerminator
<1>10. ~(ArchiveBytes(a) > MaxArchiveBytes)
  <2>1. ArchiveBytes(a) \in Nat /\ MaxArchiveBytes \in Nat
    <3>1. a.blocks \in Seq(BlocksWith(PartsOf(files)))
      BY <1>1, BuiltTyped
    <3>2. Len(a.blocks) \in Nat /\ TarBlock \in Nat
      BY <3>1, FormatAssumption
    <3> QED
      BY <3>2, FormatAssumption DEF ArchiveBytes
  <2> QED
    BY <2>1
<1>11. r = FoldLeft(ReadBlock, AtStart, a.blocks)
  BY DEF Reading
<1>12. ~(r.missing > 0) /\ ~(r.zeros < 2)
  <2> HIDE DEF r
  <2> QED
    BY <1>9
<1> HIDE DEF r, a
<1>13. ParseArchiveEntries(a) = r
  BY <1>8, <1>9, <1>10, <1>11, <1>12, Zenon DEF ParseArchiveEntries, Unrefused
<1> QED
  BY <1>9, <1>13 DEF Unrefused, a

LEMMA ContentReadsBack ==
  ASSUME NEW file, file.bytes \in Nat \ {0}
  PROVE  /\ ReadsAs(Content(file), file.kind)
         /\ FileIn(Content(file)) = file
<1>1. BlocksFor(file.bytes) \in Nat /\ BlocksFor(file.bytes) # 0
  BY BlocksNeeded
<1> DEFINE parts == Parts(file)
<1>2. DOMAIN parts = 1..BlocksFor(file.bytes) /\ parts[1].file = file
  BY <1>1 DEF Parts, Part
<1>3. parts # <<>>
  <2>1. 1 \in DOMAIN parts
    BY <1>1, <1>2
  <2>2. DOMAIN <<>> = {}
    OBVIOUS
  <2> QED
    BY <2>1, <2>2
<1>4. Content(file).parts = parts
  BY DEF Content
<1> HIDE DEF parts
<1> QED
  BY <1>2, <1>3, <1>4 DEF ReadsAs, FileIn

\* How many files there are for a session.
LEMMA FilesOfSession ==
  ASSUME NEW s \in Session, NEW n
  PROVE  LET files == EvidenceFiles(s, n)
         IN /\ IsFiniteSet(DOMAIN files) /\ Cardinality(DOMAIN files) = Len(s) + 1
            /\ Cardinality(DOMAIN WithSums(files)) = Len(s) + 2
<1> DEFINE k == Len(s)
           caps == FirstCaptures(k)
           C == {CapturePath[i] : i \in 1..k}
<1>1. /\ k \in Nat /\ DOMAIN s = 1..k
      /\ \A i \in 1..k : CapturePath[i] \notin {Manifest, Sums}
      /\ \A i, j \in 1..k : CapturePath[i] = CapturePath[j] => i = j
  BY PathsAreDistinct
<1>2. IsFiniteSet(C) /\ Cardinality(C) = k
  <2>1. caps \in Injection(1..k, C) /\ caps \in Surjection(1..k, C)
    BY <1>1 DEF Injection, IsInjective, Surjection, FirstCaptures
  <2>2. caps \in Bijection(1..k, C)
    BY <2>1 DEF Bijection
  <2>3. ExistsBijection(1..k, C)
    BY <2>2 DEF ExistsBijection
  <2>4. IsFiniteSet(1..k) /\ Cardinality(1..k) = k
    BY <1>1, FS_Interval
  <2> HIDE DEF C, k
  <2> QED
    BY <2>3, <2>4, FS_Bijection
<1>3. DOMAIN EvidenceFiles(s, n) = C \cup {Manifest}
  BY <1>1, EvidenceIs
<1>4. Manifest \notin C /\ Sums \notin C \cup {Manifest}
  BY <1>1 DEF Sums, Manifest
<1>5. IsFiniteSet(C \cup {Manifest}) /\ Cardinality(C \cup {Manifest}) = k + 1
  BY <1>2, <1>4, FS_AddElement
<1>6. Cardinality((C \cup {Manifest}) \cup {Sums}) = k + 2
  <2>1. Cardinality((C \cup {Manifest}) \cup {Sums}) = (k + 1) + 1
    BY <1>4, <1>5, FS_AddElement
  <2> QED
    BY <1>1, <2>1
<1>7. DOMAIN WithSums(EvidenceFiles(s, n)) = (C \cup {Manifest}) \cup {Sums}
  BY <1>3 DEF WithSums
<1> QED
  BY <1>3, <1>5, <1>6, <1>7

LEMMA BuiltVerifies ==
  ASSUME NEW s \in Session, NEW n \in Note
  PROVE  Verifies(Contents(EvidenceFiles(s, n)))
<1> DEFINE files == EvidenceFiles(s, n)
           all == WithSums(files)
           e == Contents(files)
<1>1. files \in Evidence
  BY DEF Evidence
<1>2. /\ DOMAIN all = DOMAIN files \cup {Sums} /\ all[Sums] = SumsFile(files)
      /\ \A path \in DOMAIN files : all[path] = files[path]
      /\ \A path \in DOMAIN all : all[path].bytes \in Nat \ {0}
  <2> HIDE DEF files
  <2> QED
    BY <1>1, SummedTyped
<1>3. Manifest \in DOMAIN files /\ Sums \notin DOMAIN files
  <2> HIDE DEF files
  <2> QED
    BY <1>1, EvidenceTyped
<1>4. DOMAIN e = DOMAIN all /\ \A path \in DOMAIN all : e[path] = Content(all[path])
  BY DEF Contents
<1>5. /\ files[Manifest] = ManifestFile(s, n)
      /\ \A i \in DOMAIN s : CapturePath[i] \in DOMAIN files /\ files[CapturePath[i]] = s[i]
  BY EvidenceIs, ZenonT(30)
<1>6. /\ Cardinality(DOMAIN files) = Len(s) + 1 /\ Cardinality(DOMAIN all) = Len(s) + 2
      /\ Len(s) \in Nat
  BY FilesOfSession DEF Session
<1> HIDE DEF files, all, e
<1>7. ReadsAs(e[Sums], "sums") /\ FileIn(e[Sums]).lines = files
  <2> DEFINE file == SumsFile(files)
  <2>1. file.bytes \in Nat \ {0} /\ e[Sums] = Content(file)
    BY <1>2, <1>4
  <2>2. file.kind = "sums" /\ file.lines = files
    BY DEF SumsFile
  <2> HIDE DEF file
  <2> QED
    BY <2>1, <2>2, ContentReadsBack
<1>8. ReadsAs(e[Manifest], "manifest") /\ FileIn(e[Manifest]).images = s
  <2> DEFINE file == ManifestFile(s, n)
  <2>1. file.bytes \in Nat \ {0} /\ e[Manifest] = Content(file)
    BY <1>2, <1>3, <1>4, <1>5
  <2>2. file.kind = "manifest" /\ file.images = s
    BY DEF ManifestFile
  <2> HIDE DEF file
  <2> QED
    BY <2>1, <2>2, ContentReadsBack
<1>9. SumsMatch(e, files)
  <2>1. DOMAIN files \subseteq DOMAIN e \ {Sums}
    BY <1>2, <1>3, <1>4
  <2>2. Cardinality(DOMAIN files) + 1 = Cardinality(DOMAIN e)
    BY <1>4, <1>6
  <2> QED
    BY <1>2, <1>4, <2>1, <2>2 DEF SumsMatch, SumsNameEntries
<1>10. ImagesMatch(e, s)
  BY <1>2, <1>4, <1>5, <1>6 DEF ImagesMatch
<1> QED
  BY <1>2, <1>3, <1>4, <1>7, <1>8, <1>9, <1>10 DEF Verifies, e, files

-----------------------------------------------------------------------------
\* How large an archive is

\* What a sum is after each of the first n numbers.
SumsAlong(g, s, n) == g[0] = 0 /\ \A i \in 1..n : g[i] = g[i - 1] + s[i]

LEMMA SumRuns ==
  ASSUME NEW s \in Seq(Nat)
  PROVE  \E g : SumsAlong(g, s, Len(s)) /\ Sum(s) = g[Len(s)] /\ Sum(s) \in Nat
<1> DEFINE n == Len(s)
           step == [p \in (1..n) \X Nat |-> p[2] + s[p[1]]]
           body(f) == [u \in SUBSET DOMAIN s |->
                         IF u = {} THEN 0
                         ELSE LET x == Max(u) IN f[u \ {x}] + s[x]]
           fold == CHOOSE f : f = body(f)
<1>1. n \in Nat /\ DOMAIN s = 1..n /\ \A i \in 1..n : s[i] \in Nat
  BY LenProperties, ElementOfSeq
<1>2. step \in [(1..n) \X Nat -> Nat]
  BY <1>1
<1>3. \A i \in 1..n, sum \in Nat : step[<<i, sum>>] = sum + s[i]
  OBVIOUS
<1>4. Sum(s) = fold[DOMAIN s]
  BY DEF Sum, FoldLeft, MapThenFoldSet
<1> HIDE DEF step
<1>5. PICK g \in [SUBSET (1..n) -> Nat] : IsFold(g, n, 0, step)
  BY <1>1, <1>2, FoldExists
<1>6. g = body(g)
  <2>1. ASSUME NEW u \in SUBSET (1..n)
        PROVE  g[u] = IF u = {} THEN 0 ELSE g[u \ {Max(u)}] + s[Max(u)]
    <3>1. CASE u = {}
      BY <1>5, <3>1 DEF IsFold
    <3>2. CASE u # {}
      <4>1. Max(u) \in 1..n /\ u \ {Max(u)} \in SUBSET (1..n)
        BY <1>1, <3>2, MaxIsLargest
      <4>2. g[u] = step[<<Max(u), g[u \ {Max(u)}]>>]
        BY <1>5, <3>2 DEF IsFold
      <4>3. g[u \ {Max(u)}] \in Nat
        BY <4>1
      <4> QED
        BY <1>3, <3>2, <4>1, <4>2, <4>3
    <3> QED
      BY <3>1, <3>2
  <2> QED
    BY <1>1, <2>1
<1>7. fold = body(fold)
  <2> HIDE DEF body
  <2> QED
    BY <1>6, Zenon
<1> HIDE DEF fold
<1>8. \A u \in SUBSET (1..n) :
        fold[u] = IF u = {} THEN 0 ELSE fold[u \ {Max(u)}] + s[Max(u)]
  <2>1. \A u \in SUBSET DOMAIN s :
          body(fold)[u] = IF u = {} THEN 0 ELSE fold[u \ {Max(u)}] + s[Max(u)]
    OBVIOUS
  <2> HIDE DEF body
  <2> QED
    BY <1>1, <1>7, <2>1
<1> DEFINE at == [i \in 0..n |-> fold[1..i]]
<1>9. fold[1..0] = 0
  <2>1. 1..0 = {} /\ 1..0 \in SUBSET (1..n)
    OBVIOUS
  <2> QED
    BY <1>8, <2>1
<1>10. ASSUME NEW i \in 1..n
       PROVE  fold[1..i] = fold[1..(i - 1)] + s[i]
  BY <1>1, <1>8, UpTo, ZenonT(30)
<1>11. /\ at[0] = 0 /\ at[n] = Sum(s)
       /\ \A i \in 1..n : at[i] = at[i - 1] + s[i]
  BY <1>1, <1>4, <1>9, <1>10
<1> HIDE DEF at
<1> DEFINE S == {i \in Nat : i <= n => at[i] \in Nat}
<1>12. 0 \in S
  BY <1>11
<1>13. ASSUME NEW i \in Nat, i \in S PROVE i + 1 \in S
  <2> SUFFICES ASSUME i + 1 <= n PROVE at[i + 1] \in Nat
    OBVIOUS
  <2>1. i + 1 \in 1..n /\ (i + 1) - 1 = i /\ at[i] \in Nat
    BY <1>1, <1>13
  <2>2. at[i + 1] = at[i] + s[i + 1] /\ s[i + 1] \in Nat
    BY <1>1, <1>11, <2>1
  <2> QED
    BY <2>1, <2>2
<1> HIDE DEF S
<1>14. n \in S
  BY <1>1, <1>12, <1>13, Induct
<1>15. at[n] \in Nat
  BY <1>1, <1>14 DEF S
<1>16. SumsAlong(at, s, n)
  BY <1>11 DEF SumsAlong
<1> QED
  BY <1>11, <1>15, <1>16

LEMMA SumOfNone == Sum(<<>>) = 0
<1>1. <<>> \in Seq(Nat) /\ Len(<<>>) = 0
  OBVIOUS
<1>2. PICK g : SumsAlong(g, <<>>, Len(<<>>)) /\ Sum(<<>>) = g[Len(<<>>)]
  BY <1>1, SumRuns
<1> QED
  BY <1>1, <1>2 DEF SumsAlong

LEMMA SumOfNext ==
  ASSUME NEW s \in Seq(Nat), NEW x \in Nat
  PROVE  Sum(Append(s, x)) = Sum(s) + x /\ Sum(s) \in Nat
<1> DEFINE t == Append(s, x)
           n == Len(s)
<1>1. /\ t \in Seq(Nat) /\ n \in Nat /\ Len(t) = n + 1
      /\ t[n + 1] = x /\ \A i \in 1..n : t[i] = s[i]
  OBVIOUS
<1>2. PICK g : SumsAlong(g, s, n) /\ Sum(s) = g[n] /\ Sum(s) \in Nat
  BY SumRuns
<1> HIDE DEF t
<1>3. PICK h : SumsAlong(h, t, n + 1) /\ Sum(t) = h[n + 1]
  BY <1>1, SumRuns
<1> HIDE DEF n
<1> DEFINE S == {i \in Nat : i <= n => h[i] = g[i]}
<1>4. 0 \in S
  BY <1>2, <1>3 DEF SumsAlong
<1>5. ASSUME NEW i \in Nat, i \in S PROVE i + 1 \in S
  <2> SUFFICES ASSUME i + 1 <= n PROVE h[i + 1] = g[i + 1]
    OBVIOUS
  <2>1. /\ i + 1 \in 1..n /\ i + 1 \in 1..(n + 1)
        /\ (i + 1) - 1 = i /\ g[i] = h[i]
    BY <1>1, <1>5
  <2>2. h[i + 1] = h[i] + t[i + 1] /\ g[i + 1] = g[i] + s[i + 1]
    BY <1>2, <1>3, <2>1 DEF SumsAlong
  <2> QED
    BY <1>1, <2>1, <2>2
<1> HIDE DEF S
<1>6. n \in S
  BY <1>1, <1>4, <1>5, Induct
<1>7. h[n] = g[n]
  BY <1>1, <1>6 DEF S
<1>8. h[n + 1] = h[n] + t[n + 1]
  <2>1. n + 1 \in 1..(n + 1) /\ (n + 1) - 1 = n
    BY <1>1
  <2> QED
    BY <1>3, <2>1 DEF SumsAlong
<1> QED
  BY <1>1, <1>2, <1>3, <1>7, <1>8 DEF t

\* What an entry takes: the header, the content and less than a block besides.
LEMMA EntryTakes ==
  ASSUME NEW path, NEW file, file.bytes \in Nat
  PROVE  /\ Len(Entry(path, file)) \in Nat
         /\ TarBlock * Len(Entry(path, file)) <= file.bytes + (2 * TarBlock - 1)
<1> DEFINE N == BlocksFor(file.bytes)
           data == [i \in 1..N |-> Data(Part(file, i))]
           T == {Header(path, file.bytes)} \cup {Data(Part(file, i)) : i \in 1..N}
<1>1. N \in Nat /\ TarBlock \in Nat /\ TarBlock > 0
  <2>1. N \in Nat
    BY BlocksNeeded
  <2> QED
    BY <2>1, FormatAssumption
<1>2. TarBlock * N <= file.bytes + TarBlock - 1
  BY <1>1 DEF BlocksFor
<1> HIDE DEF N
<1>3. data \in Seq(T) /\ Len(data) = N /\ <<Header(path, file.bytes)>> \in Seq(T)
  BY <1>1
<1>4. Len(<<Header(path, file.bytes)>> \o data) = 1 + N
  <2> DEFINE header == Header(path, file.bytes)
  <2>1. data \in Seq(T) /\ <<header>> \in Seq(T) /\ Len(<<header>>) = 1
    BY <1>3
  <2> HIDE DEF data, T, header
  <2>2. Len(<<header>> \o data) = Len(<<header>>) + Len(data)
    BY <2>1, ConcatProperties
  <2> QED
    BY <1>3, <2>1, <2>2 DEF header
<1>5. Len(Entry(path, file)) = 1 + N
  BY <1>4 DEF Entry, N, data
<1>6. TarBlock * (1 + N) = TarBlock + TarBlock * N
  BY <1>1
<1>7. TarBlock + TarBlock * N <= file.bytes + (2 * TarBlock - 1)
  BY <1>1, <1>2
<1> QED
  BY <1>1, <1>5, <1>6, <1>7

\* How long what comes before an entry and the entry are together.
LEMMA SizeNext ==
  ASSUME NEW files \in Evidence, NEW o \in Seq(DOMAIN WithSums(files)),
         NEW path \in DOMAIN WithSums(files),
         NEW bound \in Nat, NEW k \in Nat,
         TarBlock * Len(FlattenSeq(EntriesOf(WithSums(files), o)))
           <= bound + k * (2 * TarBlock - 1)
  PROVE  TarBlock * Len(FlattenSeq(EntriesOf(WithSums(files), Append(o, path))))
           <= (bound + WithSums(files)[path].bytes) + (k + 1) * (2 * TarBlock - 1)
<1> DEFINE all == WithSums(files)
           D == DOMAIN all
           B == BlocksWith(PartsOf(files))
           b == all[path].bytes
           c == 2 * TarBlock - 1
           flat == FlattenSeq(EntriesOf(all, o))
           entry == Entry(path, all[path])
<1>1. b \in Nat
  BY SummedTyped
<1>2. TarBlock \in Nat /\ c \in Nat
  BY FormatAssumption
<1>3. Len(entry) \in Nat /\ TarBlock * Len(entry) <= b + c
  BY <1>1, EntryTakes
<1>4. \A p \in D : Entry(p, all[p]) \in Seq(B)
  BY EntryTyped
<1>5. /\ FlattenSeq(EntriesOf(all, Append(o, path))) = flat \o entry
      /\ flat \in Seq(B) /\ entry \in Seq(B)
  <2>1. o \in Seq(D) /\ path \in D
    OBVIOUS
  <2> HIDE DEF all, D, B
  <2>2. EntriesOf(all, Append(o, path)) = Append(EntriesOf(all, o), entry)
    BY <2>1, EntriesOfNext
  <2>3. DOMAIN o = 1..Len(o) /\ Len(o) \in Nat /\ \A i \in DOMAIN o : o[i] \in D
    BY <2>1, LenProperties, ElementOfSeq
  <2>4. EntriesOf(all, o) \in Seq(Seq(B))
    BY <1>4, <2>3 DEF EntriesOf
  <2>5. entry \in Seq(B)
    BY <1>4, <2>1
  <2>6. FlattenSeq(Append(EntriesOf(all, o), entry)) = flat \o entry
    BY <2>4, <2>5, FlattenNext
  <2>7. flat \in Seq(B)
    BY <2>4, FlattenTyped
  <2> QED
    BY <2>2, <2>5, <2>6, <2>7
<1> HIDE DEF all, D, B, b, flat, entry
<1>6. Len(flat \o entry) = Len(flat) + Len(entry) /\ Len(flat) \in Nat
  BY <1>5
<1>7. TarBlock * Len(flat) <= bound + k * c
  BY DEF flat, all
<1>8. TarBlock * (Len(flat) + Len(entry)) = TarBlock * Len(flat) + TarBlock * Len(entry)
  BY <1>2, <1>3, <1>6
<1>9. (k + 1) * c = k * c + c
  BY <1>2
<1>10. TarBlock * (Len(flat) + Len(entry)) <= (bound + b) + (k + 1) * c
  <2> DEFINE x == TarBlock * Len(flat)
             y == TarBlock * Len(entry)
             z == k * c
  <2>1. x \in Nat /\ y \in Nat /\ z \in Nat
    BY <1>2, <1>3, <1>6
  <2>2. x <= bound + z /\ y <= b + c
    BY <1>3, <1>7
  <2> HIDE DEF x, y, z, c
  <2>3. x + y <= (bound + b) + (z + c)
    BY <1>1, <1>2, <2>1, <2>2
  <2>4. TarBlock * (Len(flat) + Len(entry)) = x + y /\ (k + 1) * c = z + c
    BY <1>8, <1>9 DEF x, y, z
  <2> QED
    BY <2>3, <2>4
<1> QED
  BY <1>5, <1>6, <1>10 DEF b, all

\* The checksums and the first captures.
LEMMA CapturesTake ==
  ASSUME NEW s \in Session, NEW n \in Note, NEW k \in 0..Len(s)
  PROVE  LET files == EvidenceFiles(s, n)
             some == [i \in 1..k |-> s[i].bytes]
         IN /\ Sum(some) \in Nat
            /\ TarBlock * Len(FlattenSeq(EntriesOf(WithSums(files), WithChecksums(k))))
                 <= ((Len(s) + 1) + Sum(some)) + (k + 1) * (2 * TarBlock - 1)
<1> DEFINE files == EvidenceFiles(s, n)
           all == WithSums(files)
           D == DOMAIN all
           c == 2 * TarBlock - 1
           some(i) == [j \in 1..i |-> s[j].bytes]
           takes(i) == TarBlock * Len(FlattenSeq(EntriesOf(all, WithChecksums(i))))
           S == {i \in Nat : i <= Len(s) =>
                  /\ Sum(some(i)) \in Nat
                  /\ takes(i) <= ((Len(s) + 1) + Sum(some(i))) + (i + 1) * c}
<1>1. files \in Evidence
  BY DEF Evidence
<1>2. /\ Len(s) \in Nat /\ DOMAIN s = 1..Len(s) /\ Len(s) <= Len(CapturePath)
      /\ Len(CapturePath) \in Nat
      /\ \A i \in 1..Len(s) : s[i].bytes \in Nat
  <2>1. /\ Len(s) \in Nat /\ DOMAIN s = 1..Len(s) /\ \A i \in 1..Len(s) : s[i] \in Image
    BY PathsAreDistinct
  <2>2. Len(s) <= Len(CapturePath) /\ Len(CapturePath) \in Nat
    BY <2>1, FormatAssumption DEF Session
  <2>3. \A i \in 1..Len(s) : s[i].bytes \in Nat
    BY <2>1, ArchiveAssumption DEF Image
  <2> QED
    BY <2>1, <2>2, <2>3
<1>3. /\ D = {CapturePath[i] : i \in 1..Len(s)} \cup {Manifest, Sums}
      /\ all[Sums] = SumsFile(files)
      /\ \A i \in 1..Len(s) : all[CapturePath[i]].bytes = s[i].bytes
  <2>1. /\ DOMAIN files = {CapturePath[i] : i \in 1..Len(s)} \cup {Manifest}
        /\ \A i \in 1..Len(s) : files[CapturePath[i]] = s[i]
    <3>1. /\ DOMAIN files = {CapturePath[i] : i \in DOMAIN s} \cup {Manifest}
          /\ \A i \in DOMAIN s : files[CapturePath[i]] = s[i]
      BY EvidenceIs
    <3> HIDE DEF files
    <3> QED
      BY <1>2, <3>1
  <2> HIDE DEF files
  <2>2. D = DOMAIN files \cup {Sums} /\ all[Sums] = SumsFile(files)
        /\ \A path \in DOMAIN files : all[path] = files[path]
    BY <1>1, SummedTyped
  <2> QED
    BY <2>1, <2>2
<1>4. all[Sums].bytes = Len(s) + 1
  BY <1>3, FilesOfSession DEF SumsFile
<1>5. TarBlock \in Nat /\ c \in Nat
  BY FormatAssumption
<1>6. \A i \in 0..Len(s) : WithChecksums(i) \in Seq(D)
  <2> SUFFICES ASSUME NEW i \in 0..Len(s) PROVE WithChecksums(i) \in Seq(D)
    OBVIOUS
  <2> DEFINE T == {CapturePath[j] : j \in 1..i} \cup {Sums, Manifest}
  <2>1. WithChecksums(i) \in Seq(T)
    <3>1. i \in 0..Len(CapturePath)
      BY <1>2
    <3> QED
      BY <3>1, OrderedIs
  <2>2. T \subseteq D
    BY <1>2, <1>3
  <2> HIDE DEF T, D
  <2> QED
    BY <2>1, <2>2
<1>7. 0 \in S
  <2>1. some(0) = <<>>
    OBVIOUS
  <2>2. Sum(some(0)) = 0
    BY <2>1, SumOfNone
  <2>3. WithChecksums(0) = Append(<<>>, Sums)
    BY DEF WithChecksums, FirstCaptures
  <2> DEFINE o == <<>>
  <2>4. o \in Seq(D) /\ Sums \in D
    BY <1>3
  <2>5. TarBlock * Len(FlattenSeq(EntriesOf(all, o))) <= 0 + 0 * c
    <3>1. EntriesOf(all, o) = <<>>
      BY DEF EntriesOf
    <3>2. FlattenSeq(EntriesOf(all, o)) = <<>> /\ Len(<<>>) = 0
      BY <3>1, FlattenNone
    <3> QED
      BY <1>5, <3>2
  <2> HIDE DEF files, o
  <2>6. TarBlock * Len(FlattenSeq(EntriesOf(all, Append(o, Sums))))
          <= (0 + all[Sums].bytes) + (0 + 1) * c
    BY <1>1, <2>4, <2>5, SizeNext
  <2>7. takes(0) = TarBlock * Len(FlattenSeq(EntriesOf(all, Append(o, Sums))))
    BY <2>3 DEF o
  <2> HIDE DEF takes, some, c, all
  <2> QED
    BY <1>2, <1>4, <2>2, <2>6, <2>7
<1>8. ASSUME NEW i \in Nat, i \in S PROVE i + 1 \in S
  <2> SUFFICES ASSUME i + 1 <= Len(s)
               PROVE  /\ Sum(some(i + 1)) \in Nat
                      /\ takes(i + 1) <= ((Len(s) + 1) + Sum(some(i + 1))) + ((i + 1) + 1) * c
    OBVIOUS
  <2>1. /\ i \in 0..Len(s) /\ i + 1 \in 1..Len(s)
        /\ Sum(some(i)) \in Nat
        /\ takes(i) <= ((Len(s) + 1) + Sum(some(i))) + (i + 1) * c
    BY <1>2, <1>8
  <2>2. Sum(some(i + 1)) = Sum(some(i)) + s[i + 1].bytes
    <3>1. some(i) \in Seq(Nat) /\ some(i + 1) = Append(some(i), s[i + 1].bytes)
      <4>1. \A j \in 1..(i + 1) : s[j].bytes \in Nat
        BY <1>2, <2>1
      <4>2. i \in Nat
        OBVIOUS
      <4> DEFINE b == [j \in 1..(i + 1) |-> s[j].bytes]
      <4>3. b \in Seq(Nat) /\ Len(b) = i + 1 /\ \A j \in 1..(i + 1) : b[j] = s[j].bytes
        BY <4>1, <4>2
      <4>4. some(i) = [j \in 1..i |-> b[j]] /\ some(i + 1) = b
        BY <4>2
      <4> HIDE DEF b, some
      <4>5. some(i) \in Seq(Nat) /\ b = Append(some(i), b[i + 1])
        <5> DEFINE t == some(i)
                   x == b[i + 1]
        <5>1. t \in Seq(Nat) /\ Len(t) = i /\ \A j \in 1..i : t[j] = b[j]
          <6>1. \A j \in 1..i : b[j] \in Nat
            BY <4>1, <4>2, <4>3
          <6> QED
            BY <4>2, <4>4, <6>1
        <5>2. x \in Nat
          BY <4>1, <4>2, <4>3
        <5> HIDE DEF t, x
        <5>3. /\ Append(t, x) \in Seq(Nat) /\ Len(Append(t, x)) = i + 1
              /\ \A j \in 1..i : Append(t, x)[j] = t[j]
              /\ Append(t, x)[i + 1] = x
          BY <5>1, <5>2, AppendProperties
        <5>4. \A j \in 1..Len(b) : b[j] = Append(t, x)[j]
          BY <4>2, <4>3, <5>1, <5>3 DEF x
        <5>5. b = Append(t, x)
          BY <4>3, <5>3, <5>4, SeqEqual
        <5> QED
          BY <5>1, <5>5 DEF t, x
      <4> QED
        BY <4>2, <4>3, <4>4, <4>5
    <3>2. s[i + 1].bytes \in Nat
      BY <1>2, <2>1
    <3> HIDE DEF some
    <3> QED
      BY <3>1, <3>2, SumOfNext
  <2>3. WithChecksums(i + 1) = Append(WithChecksums(i), CapturePath[i + 1])
    <3> DEFINE T == D \cup ToSet(CapturePath)
               one == <<Sums>>
               caps == FirstCaptures(i)
               x == CapturePath[i + 1]
    <3>1. FirstCaptures(i + 1) = Append(caps, x)
      BY DEF FirstCaptures
    <3>2. one \in Seq(T) /\ x \in T /\ caps \in Seq(T)
      <4>1. /\ \A j \in 1..Len(s) : CapturePath[j] \in T
            /\ Sums \in T
        BY <1>3
      <4>2. x \in T /\ one \in Seq(T)
        BY <2>1, <4>1
      <4>3. caps \in Seq(T)
        <5>1. \A j \in 1..i : CapturePath[j] \in T
          BY <1>2, <2>1, <4>1
        <5> HIDE DEF T
        <5> QED
          BY <5>1 DEF FirstCaptures
      <4> QED
        BY <4>2, <4>3
    <3>3. WithChecksums(i + 1) = one \o FirstCaptures(i + 1) /\ WithChecksums(i) = one \o caps
      BY DEF WithChecksums
    <3> HIDE DEF T, one, caps, x
    <3>4. one \o Append(caps, x) = Append(one \o caps, x)
      BY <3>2, ConcatNext
    <3> QED
      BY <3>1, <3>3, <3>4 DEF x
  <2> DEFINE x == CapturePath[i + 1]
             o == WithChecksums(i)
             bound == (Len(s) + 1) + Sum(some(i))
  <2>4. x \in D /\ o \in Seq(D) /\ all[x].bytes = s[i + 1].bytes /\ s[i + 1].bytes \in Nat
    BY <1>2, <1>3, <1>6, <2>1
  <2>5. bound \in Nat /\ i + 1 \in Nat
    <3> HIDE DEF some
    <3> QED
      BY <1>2, <2>1
  <2>6. TarBlock * Len(FlattenSeq(EntriesOf(all, o))) <= bound + (i + 1) * c
    BY <2>1
  <2> HIDE DEF files, o, x, bound
  <2>7. TarBlock * Len(FlattenSeq(EntriesOf(all, Append(o, x))))
          <= (bound + all[x].bytes) + ((i + 1) + 1) * c
    BY <1>1, <2>4, <2>5, <2>6, SizeNext
  <2>8. takes(i + 1) <= (bound + s[i + 1].bytes) + ((i + 1) + 1) * c
    BY <2>3, <2>4, <2>7 DEF o, x
  <2>9. bound + s[i + 1].bytes = (Len(s) + 1) + Sum(some(i + 1))
    <3> DEFINE y == Sum(some(i))
    <3> HIDE DEF y, some
    <3>1. y \in Nat /\ bound = (Len(s) + 1) + y
      BY <2>1 DEF bound, y
    <3> QED
      BY <1>2, <2>2, <2>4, <3>1, SMTT(20) DEF y
  <2>10. Sum(some(i + 1)) \in Nat
    <3> HIDE DEF some
    <3> QED
      BY <2>1, <2>2, <2>4
  <2> HIDE DEF takes, some, c
  <2> QED
    BY <2>8, <2>9, <2>10
<1> HIDE DEF S
<1>9. Nat \subseteq S
  BY <1>7, <1>8, Induct
<1>10. k \in S /\ k <= Len(s)
  BY <1>2, <1>9
<1> QED
  BY <1>10 DEF S

\* An archive takes the evidence and the overhead at most.
LEMMA BuiltTakes ==
  ASSUME NEW s \in Session, NEW n \in Note
  PROVE  /\ ArchiveBytes(BuildTar(EvidenceFiles(s, n)))
              <= BundleBytes(s, n) + Overhead(Len(s))
         /\ ArchiveBytes(BuildTar(EvidenceFiles(s, n))) \in Nat
         /\ BundleBytes(s, n) + Overhead(Len(s)) \in Nat
<1> DEFINE files == EvidenceFiles(s, n)
           all == WithSums(files)
           D == DOMAIN all
           k == Len(s)
           c == 2 * TarBlock - 1
           o == WithChecksums(k)
           sum == Sum([i \in 1..k |-> s[i].bytes])
           flat == FlattenSeq(EntriesOf(all, Ordered(k)))
           B == BlocksWith(PartsOf(files))
<1>1. files \in Evidence
  BY DEF Evidence
<1>2. k \in Nat /\ DOMAIN s = 1..k /\ k \in 0..Len(CapturePath) /\ k \in 0..Len(s)
  BY FormatAssumption DEF Session
<1>3. TarBlock \in Nat /\ TarBlock > 0 /\ c \in Nat
  BY FormatAssumption
<1>4. sum \in Nat /\ TarBlock * Len(FlattenSeq(EntriesOf(all, o)))
                         <= ((k + 1) + sum) + (k + 1) * c
  BY <1>2, CapturesTake
<1>5. /\ D = {CapturePath[i] : i \in 1..k} \cup {Sums, Manifest}
      /\ all[Manifest].bytes = 1 + k
  <2>1. DOMAIN files = {CapturePath[i] : i \in 1..k} \cup {Manifest}
        /\ files[Manifest] = ManifestFile(s, n)
    BY <1>2, EvidenceIs
  <2> HIDE DEF files
  <2>2. /\ D = DOMAIN files \cup {Sums}
        /\ \A path \in DOMAIN files : all[path] = files[path]
    BY <1>1, SummedTyped
  <2> QED
    BY <2>1, <2>2 DEF ManifestFile
<1>6. o \in Seq(D) /\ Manifest \in D /\ Ordered(k) = Append(o, Manifest)
  <2>1. o \in Seq({CapturePath[i] : i \in 1..k} \cup {Sums, Manifest})
    BY <1>2, OrderedIs
  <2> QED
    BY <1>5, <2>1 DEF Ordered
<1> DEFINE bound == (k + 1) + sum
<1>7. TarBlock * Len(flat) <= (bound + (1 + k)) + ((k + 1) + 1) * c
  <2>1. bound \in Nat /\ k + 1 \in Nat
    BY <1>2, <1>4
  <2>2. TarBlock * Len(FlattenSeq(EntriesOf(all, o))) <= bound + (k + 1) * c
    BY <1>4
  <2> HIDE DEF files, o, bound
  <2>3. TarBlock * Len(FlattenSeq(EntriesOf(all, Append(o, Manifest))))
          <= (bound + all[Manifest].bytes) + ((k + 1) + 1) * c
    BY <1>1, <1>6, <2>1, <2>2, SizeNext
  <2> QED
    BY <1>5, <1>6, <2>3
<1> DEFINE a == BuildTar(files)
<1>8. Len(a.blocks) = Len(flat) + 2 /\ Len(flat) \in Nat
  <2>1. a.blocks = flat \o <<Zero, Zero>>
    BY OrderOfSession DEF BuildTar, Blocks, EntriesOf
  <2>2. \A path \in D : Entry(path, all[path]) \in Seq(B)
    <3> HIDE DEF files
    <3> QED
      BY <1>1, EntryTyped
  <2>3. flat \in Seq(B)
    <3> DEFINE p == Ordered(k)
    <3>1. p \in Seq(D)
      BY <1>2, <1>5, OrderedIs
    <3> HIDE DEF p, D, B, all
    <3>2. DOMAIN p = 1..Len(p) /\ Len(p) \in Nat /\ \A i \in DOMAIN p : p[i] \in D
      BY <3>1, LenProperties, ElementOfSeq
    <3>3. EntriesOf(all, p) \in Seq(Seq(B))
      BY <2>2, <3>2 DEF EntriesOf
    <3> QED
      BY <3>3, FlattenTyped DEF p
  <2> DEFINE end == <<Zero, Zero>>
  <2>4. end \in Seq({Zero}) /\ Len(end) = 2
    OBVIOUS
  <2> HIDE DEF flat, a, B, end
  <2>5. flat \in Seq(B \cup {Zero}) /\ end \in Seq(B \cup {Zero})
    BY <2>3, <2>4
  <2>6. Len(flat \o end) = Len(flat) + Len(end) /\ Len(flat) \in Nat
    BY <2>5, ConcatProperties
  <2> QED
    BY <2>1, <2>4, <2>6 DEF end
<1>9. ArchiveBytes(a) = TarBlock * Len(flat) + 2 * TarBlock
  <2> DEFINE m == Len(flat)
  <2>1. m \in Nat /\ ArchiveBytes(a) = TarBlock * (m + 2)
    BY <1>8 DEF ArchiveBytes
  <2> HIDE DEF m, a
  <2> QED
    BY <1>3, <2>1 DEF m
<1>10. BundleBytes(s, n) = sum + (1 + k)
  BY <1>2 DEF BundleBytes, ManifestFile
<1>11. Overhead(k) = (k + 2) * c + (k + 1) + 2 * TarBlock
  <2> HIDE DEF k
  <2>1. TarBlock * (k + 2) + (TarBlock - 1) * (k + 2) = (k + 2) * c
    BY <1>2, <1>3
  <2> QED
    BY <2>1 DEF Overhead
<1>12. ((k + 1) + 1) * c = (k + 2) * c
  <2> HIDE DEF k, c
  <2>1. (k + 1) + 1 = k + 2
    BY <1>2
  <2> QED
    BY <2>1
<1> DEFINE x == TarBlock * Len(flat)
           z == (k + 2) * c
<1>13. x \in Nat /\ z \in Nat
  <2> DEFINE m == Len(flat)
  <2>1. m \in Nat
    BY <1>8
  <2> HIDE DEF m, k, c
  <2> QED
    BY <1>2, <1>3, <2>1 DEF m
<1>14. x <= (bound + (1 + k)) + z
  BY <1>7, <1>12
<1>15. /\ ArchiveBytes(a) = x + 2 * TarBlock
       /\ BundleBytes(s, n) = sum + (1 + k)
       /\ Overhead(k) = z + (k + 1) + 2 * TarBlock
  BY <1>9, <1>10, <1>11
<1>16. bound = (k + 1) + sum
  OBVIOUS
<1> HIDE DEF x, z, bound, sum, c, a
<1>17. /\ ArchiveBytes(a) <= BundleBytes(s, n) + Overhead(k)
       /\ ArchiveBytes(a) \in Nat /\ BundleBytes(s, n) + Overhead(k) \in Nat
  <2> HIDE DEF k
  <2> QED
    BY <1>2, <1>3, <1>4, <1>13, <1>14, <1>15, <1>16
<1> QED
  BY <1>17 DEF a

\* Whatever session there is with room for the overhead, its archive is within
\* the limit, is read as what was put in, and stands its verification: the
\* export is refused for no other reason than its size.
THEOREM ExportsSucceed == Spec => []ExportSucceeds
<1>1. SessionInv => ExportSucceeds
  <2> SUFFICES ASSUME SessionInv, images # <<>>, spoiled = {},
                      BundleBytes(images, note) + Overhead(Len(images)) <= MaxArchiveBytes
               PROVE  Exportable
    BY DEF ExportSucceeds
  <2>1. images \in Session /\ note \in Note
    BY DEF SessionInv
  <2>2. ArchiveBytes(Exported) <= MaxArchiveBytes
    <3>1. /\ ArchiveBytes(Exported) <= BundleBytes(images, note) + Overhead(Len(images))
          /\ ArchiveBytes(Exported) \in Nat
          /\ BundleBytes(images, note) + Overhead(Len(images)) \in Nat
      BY <2>1, BuiltTakes DEF Exported
    <3>2. MaxArchiveBytes \in Nat
      BY FormatAssumption
    <3> QED
      BY <3>1, <3>2
  <2>3. Verified(Exported)
    <3>1. /\ ParseArchiveEntries(Exported).fault = ""
          /\ ParseArchiveEntries(Exported).entries = Contents(EvidenceFiles(images, note))
      BY <2>1, <2>2, BuiltIsRead DEF Exported
    <3>2. Verifies(Contents(EvidenceFiles(images, note)))
      BY <2>1, BuiltVerifies
    <3> QED
      BY <3>1, <3>2 DEF Verified
  <2> QED
    BY <2>2, <2>3 DEF Exportable
<1> QED
  BY <1>1, SessionInvariant, PTL

=============================================================================
