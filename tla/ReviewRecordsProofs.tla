------------------------ MODULE ReviewRecordsProofs ------------------------
(***************************************************************************)
(* The manifest through captures, reviews and selections, for any images,  *)
(* scales, limits and answers of an agent.  A manifest that is not valid   *)
(* is refused, captures are only added, and the pair keeps naming the two  *)
(* that were measured.  The facts of a capture are what was measured in    *)
(* it, its agent findings the whole of one valid response, and a review    *)
(* whose response is valid is refused for the limits only.                 *)
(***************************************************************************)
EXTENDS ReviewRecords, ListLemmas, FiniteSetTheorems

Records == [image : Image, stale : BOOLEAN, scale : Scale]

\* The fields of a manifest, and the records of its captures.
Formed(m) ==
  /\ DOMAIN m = DOMAIN EmptyManifest
  /\ m.captures \in Seq(Records)
  /\ m.producer \in {"surfacecheckd", "agent"}

\* The pair names two captures that are there.
PairIsListed ==
  manifest.pair # NoPair =>
    {manifest.pair.before, manifest.pair.after} \subseteq DOMAIN manifest.captures

RecordsInv == TypeOK /\ Formed(manifest) /\ PairIsListed /\ PairIsMeasured

-----------------------------------------------------------------------------
\* Each operation: the manifest it makes of the one it has read

LEMMA FieldsOfManifest ==
  DOMAIN EmptyManifest = {"captures", "facts", "findings", "comparison", "pair",
                          "producer"}
  BY DEF EmptyManifest

LEMMA Initially == Init => RecordsInv
<1> SUFFICES ASSUME Init PROVE RecordsInv
  OBVIOUS
<1>1. /\ manifest.captures = <<>> /\ manifest.pair = NoPair
      /\ manifest.producer = "surfacecheckd"
  BY DEF Init, EmptyManifest
<1>2. TypeOK
  BY <1>1, ReviewAssumption DEF Init, TypeOK
<1>3. Formed(manifest)
  BY <1>1 DEF Formed, Init
<1> QED
  BY <1>1, <1>2, <1>3 DEF RecordsInv, PairIsListed, PairIsMeasured

\* What replaces the manifest is valid.
LEMMA ReplacedIsValid ==
  ASSUME NEW m, Replace(m), manifest = EmptyManifest \/ ValidManifest(manifest)
  PROVE  /\ manifest' = EmptyManifest \/ ValidManifest(manifest')
         /\ manifest' = manifest \/ manifest' = m
         /\ Replaced(m) => manifest' = m
         /\ ~Replaced(m) => manifest' = manifest
  BY DEF Replace, Replaced

\* A capture is added at the end: nobody's place changes.
LEMMA CaptureKeeps ==
  ASSUME RecordsInv,
         NEW image \in Image, NEW stale \in BOOLEAN, NEW scale \in Scale,
         Capture(image, stale, scale)
  PROVE  RecordsInv'
<1> DEFINE place == Len(manifest.captures) + 1
           codes == DeterministicCodes(image, stale,
                                       RepeatsEarlier(manifest, place, image))
           record == [image |-> image, stale |-> stale, scale |-> scale]
           facts == manifest.facts \o FactsOf(place, codes)
           m == [manifest EXCEPT !.captures = Append(@, record),
                                 !.facts = facts,
                                 !.producer = "surfacecheckd"]
<1>1. Replace(m) /\ UNCHANGED <<reviews, reviewed, accepted>>
  BY DEF Capture
<1>2. manifest.captures \in Seq(Records) /\ record \in Records
  BY DEF RecordsInv, Formed, Records
<1> HIDE DEF record, facts
<1>3. /\ DOMAIN m = DOMAIN manifest
      /\ m.captures = Append(manifest.captures, record)
      /\ m.pair = manifest.pair /\ m.comparison = manifest.comparison
      /\ m.producer = "surfacecheckd"
  BY FieldsOfManifest DEF RecordsInv, Formed
<1> HIDE DEF m
<1>4. /\ m.captures \in Seq(Records)
      /\ DOMAIN manifest.captures \subseteq DOMAIN m.captures
      /\ \A i \in DOMAIN manifest.captures :
           m.captures[i] = manifest.captures[i]
  BY <1>2, <1>3
<1>5. CASE manifest' = manifest
  BY <1>1, <1>5
  DEF RecordsInv, TypeOK, Formed, PairIsListed, PairIsMeasured, Measure
<1>6. CASE manifest' = m
  <2>1. TypeOK'
    BY <1>1, <1>3, <1>4, <1>6, ReplacedIsValid DEF RecordsInv, TypeOK, Formed
  <2>2. Formed(manifest)' /\ PairIsListed'
    BY <1>3, <1>4, <1>6 DEF RecordsInv, Formed, PairIsListed
  <2>3. PairIsMeasured'
    BY <1>3, <1>4, <1>6 DEF RecordsInv, PairIsListed, PairIsMeasured, Measure
  <2> QED
    BY <2>1, <2>2, <2>3 DEF RecordsInv
<1> QED
  BY <1>1, <1>5, <1>6, ReplacedIsValid DEF RecordsInv, TypeOK

\* A review leaves captures, comparison and pair as they are.
LEMMA ReviewKeeps ==
  ASSUME RecordsInv, NEW place \in DOMAIN manifest.captures,
         NEW answer \in Response \cup {NoResponse},
         Review(place, answer)
  PROVE  RecordsInv'
<1> DEFINE image == manifest.captures[place].image
           r == About(answer, place, image)
           m == WithReviewOf(place, r)
<1>1. /\ Replace(m)
      /\ reviews < MaxReviews /\ reviews' = reviews + 1
      /\ IF Replaced(m)
         THEN /\ reviewed' = reviewed \cup {place}
              /\ accepted' = [accepted EXCEPT ![place] =
                   IF Accepts(r, place, image) THEN r.findings ELSE <<>>]
         ELSE UNCHANGED <<reviewed, accepted>>
  BY DEF Review
<1> HIDE DEF r
<1>2. /\ DOMAIN m = DOMAIN manifest
      /\ m.captures = manifest.captures
      /\ m.pair = manifest.pair /\ m.comparison = manifest.comparison
      /\ m.producer \in {"surfacecheckd", "agent"}
  BY FieldsOfManifest DEF RecordsInv, Formed, WithReviewOf
<1> HIDE DEF m
<1>3. /\ DOMAIN manifest' = DOMAIN EmptyManifest
      /\ manifest'.captures = manifest.captures
      /\ manifest'.pair = manifest.pair
      /\ manifest'.comparison = manifest.comparison
      /\ manifest'.producer \in {"surfacecheckd", "agent"}
      /\ manifest' = EmptyManifest \/ ValidManifest(manifest')
  BY <1>1, <1>2, ReplacedIsValid DEF RecordsInv, TypeOK, Formed
<1>4. TypeOK'
  BY <1>1, <1>3, ReviewAssumption DEF RecordsInv, TypeOK
<1>5. Formed(manifest)' /\ PairIsListed'
  BY <1>3 DEF RecordsInv, Formed, PairIsListed
<1>6. PairIsMeasured'
  BY <1>3 DEF RecordsInv, PairIsMeasured, Measure
<1> QED
  BY <1>4, <1>5, <1>6 DEF RecordsInv

\* A pair is measured when it is selected.
LEMMA SelectKeeps ==
  ASSUME RecordsInv, NEW before \in DOMAIN manifest.captures,
         NEW after \in DOMAIN manifest.captures,
         Select(before, after)
  PROVE  RecordsInv'
<1> DEFINE m == [manifest EXCEPT !.comparison = Measure(before, after),
                                 !.pair = PairOf(before, after)]
           b == manifest.captures[before]
           a == manifest.captures[after]
<1>1. /\ Replace(m) /\ UNCHANGED <<reviews, reviewed, accepted>>
      /\ b.image.width = a.image.width /\ b.scale = a.scale
  BY DEF Select
<1>2. /\ DOMAIN m = DOMAIN manifest
      /\ m.captures = manifest.captures
      /\ m.pair = PairOf(before, after)
      /\ m.comparison = Measure(before, after)
      /\ m.producer = manifest.producer
  BY FieldsOfManifest DEF RecordsInv, Formed
<1>3. /\ PairOf(before, after).before = before
      /\ PairOf(before, after).after = after
      /\ PairOf(before, after).comparison = Measure(before, after)
  BY DEF PairOf
<1> HIDE DEF m
<1>4. CASE manifest' = manifest
  BY <1>1, <1>4
  DEF RecordsInv, TypeOK, Formed, PairIsListed, PairIsMeasured, Measure
<1>5. CASE manifest' = m
  <2>1. TypeOK'
    BY <1>1, <1>2, <1>5, ReplacedIsValid DEF RecordsInv, TypeOK, Formed
  <2>2. Formed(manifest)' /\ PairIsListed'
    BY <1>2, <1>3, <1>5 DEF RecordsInv, Formed, PairIsListed
  <2>3. Measure(before, after)' = Measure(before, after)
    BY <1>2, <1>5 DEF Measure
  <2>4. PairIsMeasured'
    BY <1>1, <1>2, <1>3, <1>5, <2>3 DEF PairIsMeasured, Measure
  <2> QED
    BY <2>1, <2>2, <2>4 DEF RecordsInv
<1> QED
  BY <1>1, <1>4, <1>5, ReplacedIsValid DEF RecordsInv, TypeOK

LEMMA Inductive == RecordsInv /\ [Next]_vars => RecordsInv'
<1> SUFFICES ASSUME RecordsInv, [Next]_vars PROVE RecordsInv'
  OBVIOUS
<1>1. CASE Next
  BY <1>1, CaptureKeeps, ReviewKeeps, SelectKeeps DEF Next
<1>2. CASE UNCHANGED vars
  BY <1>2 DEF vars, RecordsInv, TypeOK, Formed, PairIsListed, PairIsMeasured,
              Measure
<1> QED
  BY <1>1, <1>2

\* What is stored is valid, so that the next operation can read it
\* (replace_manifest, through to_canonical_json).
THEOREM RecordsTyped == Spec => []TypeOK
<1>1. RecordsInv => TypeOK
  BY DEF RecordsInv
<1> QED
  BY Initially, Inductive, <1>1, PTL DEF Spec

\* The pair shown as before and after is the one that was measured, in that
\* order, and comparable (select_before_after_inner).
THEOREM PairStaysMeasured == Spec => []PairIsMeasured
<1>1. RecordsInv => PairIsMeasured
  BY DEF RecordsInv
<1> QED
  BY Initially, Inductive, <1>1, PTL DEF Spec

-----------------------------------------------------------------------------
\* The facts about a capture are those measured in it, in their order

Codes == {"empty_capture", "fully_transparent", "contrast_measurement",
          "boundary_contact", "stale_capture", "duplicate_capture"}

Facts == [capture : Nat, code : Codes]

FactsAt(place) == {f \in Facts : f.capture = place}

CodesNow(place) ==
  LET c == manifest.captures[place]
  IN DeterministicCodes(c.image, c.stale,
       RepeatsEarlier(manifest, place, c.image) /\ place \notin reviewed)

\* Stronger than FactsMeasured: the list itself.
FactsInv ==
  /\ manifest.facts \in Seq(Facts)
  /\ \A place \in DOMAIN manifest.captures :
       Holding(manifest.facts, place) = FactsOf(place, CodesNow(place))

\* The codes of a capture, and that none of them comes twice.
LEMMA CodesOfLook ==
  ASSUME NEW look \in {"blank", "transparent", "plain", "edged"}
  PROVE  LookCodes(look) \in Seq(Codes)
<1>1. CASE look = "blank"
  BY <1>1 DEF LookCodes, Codes
<1>2. CASE look = "transparent"
  BY <1>2 DEF LookCodes, Codes
<1>3. CASE look = "plain"
  BY <1>3 DEF LookCodes, Codes
<1>4. CASE look = "edged"
  BY <1>4 DEF LookCodes, Codes
<1> QED
  BY <1>1, <1>2, <1>3, <1>4

LEMMA CodesAreCodes ==
  ASSUME NEW image \in Image, NEW stale \in BOOLEAN, NEW duplicate \in BOOLEAN
  PROVE  DeterministicCodes(image, stale, duplicate) \in Seq(Codes)
<1>1. LookCodes(image.look) \in Seq(Codes)
  BY CodesOfLook, ReviewAssumption
<1>2. \A flag \in BOOLEAN, code \in Codes :
        (IF flag THEN <<code>> ELSE <<>>) \in Seq(Codes)
  <2> SUFFICES ASSUME NEW flag \in BOOLEAN, NEW code \in Codes
               PROVE  (IF flag THEN <<code>> ELSE <<>>) \in Seq(Codes)
    OBVIOUS
  <2>1. <<code>> \in Seq(Codes) /\ <<>> \in Seq(Codes)
    OBVIOUS
  <2> QED
    BY <2>1
<1>3. "stale_capture" \in Codes /\ "duplicate_capture" \in Codes
  BY DEF Codes
<1> DEFINE look == LookCodes(image.look)
           old == IF stale THEN <<"stale_capture">> ELSE <<>>
           again == IF duplicate THEN <<"duplicate_capture">> ELSE <<>>
<1>4. old \in Seq(Codes) /\ again \in Seq(Codes)
  BY <1>2, <1>3
<1>5. DeterministicCodes(image, stale, duplicate) = look \o old \o again
  BY DEF DeterministicCodes, StaleCodes
<1> HIDE DEF look, old, again
<1>6. look \o old \o again \in Seq(Codes)
  BY <1>1, <1>4 DEF look
<1> QED
  BY <1>5, <1>6

LEMMA FactsOfTyped ==
  ASSUME NEW place \in Nat, NEW codes \in Seq(Codes)
  PROVE  /\ FactsOf(place, codes) \in Seq(FactsAt(place))
         /\ FactsOf(place, codes) \in Seq(Facts)
<1>1. DOMAIN codes = 1..Len(codes) /\ Len(codes) \in Nat
  OBVIOUS
<1>2. \A i \in 1..Len(codes) : codes[i] \in Codes
  BY ElementOfSeq
<1>3. \A i \in 1..Len(codes) : Fact(place, codes[i]) \in FactsAt(place)
  BY <1>2 DEF Fact, FactsAt, Facts
<1>4. FactsOf(place, codes) \in [1..Len(codes) -> FactsAt(place)]
  BY <1>1, <1>3 DEF FactsOf
<1>5. FactsOf(place, codes) \in Seq(FactsAt(place))
  BY <1>1, <1>4
<1>6. FactsAt(place) \subseteq Facts
  BY DEF FactsAt
<1> QED
  BY <1>5, <1>6, SeqMonotonic

\* Picking out the facts of a capture, over the set of all facts.
LEMMA HoldingRetains ==
  ASSUME NEW s \in Seq(Facts), NEW place
  PROVE  /\ Holding(s, place) = Retain(s, FactsAt(place))
         /\ Without(s, place) = Retain(s, Facts \ FactsAt(place))
<1>1. s \in Seq(ToSet(s)) /\ ToSet(s) \subseteq Facts
  BY SeqOfElements
<1>2. ToSet(s) \cap {f \in ToSet(s) : f.capture = place}
        = ToSet(s) \cap FactsAt(place)
  BY <1>1 DEF FactsAt
<1>3. ToSet(s) \cap {f \in ToSet(s) : f.capture # place}
        = ToSet(s) \cap (Facts \ FactsAt(place))
  BY <1>1 DEF FactsAt
<1>4. Holding(s, place) = Retain(s, FactsAt(place))
  BY <1>1, <1>2, RetainSame DEF Holding
<1>5. Without(s, place) = Retain(s, Facts \ FactsAt(place))
  BY <1>1, <1>3, RetainSame DEF Without
<1> QED
  BY <1>4, <1>5

\* The facts of one capture, added to others.
LEMMA HoldingAdded ==
  ASSUME NEW s \in Seq(Facts), NEW place \in Nat, NEW codes \in Seq(Codes)
  PROVE  /\ Holding(s \o FactsOf(place, codes), place)
               = Holding(s, place) \o FactsOf(place, codes)
         /\ \A other : other # place =>
               Holding(s \o FactsOf(place, codes), other) = Holding(s, other)
<1> DEFINE t == FactsOf(place, codes)
<1>1. t \in Seq(FactsAt(place)) /\ t \in Seq(Facts)
  BY FactsOfTyped
<1> HIDE DEF t
<1>2. s \o t \in Seq(Facts)
  BY <1>1
<1>3. ASSUME NEW q
      PROVE  Holding(s \o t, q) = Holding(s, q) \o Retain(t, FactsAt(q))
  <2>1. /\ Holding(s \o t, q) = Retain(s \o t, FactsAt(q))
        /\ Holding(s, q) = Retain(s, FactsAt(q))
    BY <1>2, HoldingRetains
  <2>2. Retain(s \o t, FactsAt(q))
          = Retain(s, FactsAt(q)) \o Retain(t, FactsAt(q))
    BY <1>1, RetainConcat
  <2> QED
    BY <2>1, <2>2
<1>4. Retain(t, FactsAt(place)) = t
  BY <1>1, RetainAll
<1>5. ASSUME NEW other, other # place
      PROVE  Holding(s \o t, other) = Holding(s, other)
  <2>1. FactsAt(place) \cap FactsAt(other) = {}
    BY <1>5 DEF FactsAt
  <2>2. Retain(t, FactsAt(other)) = <<>>
    BY <1>1, <2>1, RetainNothing
  <2>3. Holding(s, other) \in Seq(Facts \cap FactsAt(other))
    <3>1. Retain(s, FactsAt(other)) \in Seq(Facts \cap FactsAt(other))
      BY RetainKeeps
    <3>2. Holding(s, other) = Retain(s, FactsAt(other))
      BY HoldingRetains
    <3> QED
      BY <3>1, <3>2
  <2>4. Holding(s, other) \o <<>> = Holding(s, other)
    BY <2>3, ConcatEmptySeq
  <2> QED
    BY <1>3, <2>2, <2>4
<1>6. Holding(s \o t, place) = Holding(s, place) \o t
  BY <1>3, <1>4
<1> QED
  BY <1>5, <1>6 DEF t

\* The facts of one capture, taken from the others.
LEMMA HoldingWithout ==
  ASSUME NEW s \in Seq(Facts), NEW place
  PROVE  /\ Without(s, place) \in Seq(Facts)
         /\ Holding(Without(s, place), place) = <<>>
         /\ \A other : other # place =>
               Holding(Without(s, place), other) = Holding(s, other)
<1> DEFINE w == Without(s, place)
<1>1. w = Retain(s, Facts \ FactsAt(place))
  BY HoldingRetains
<1>2. w \in Seq(Facts \cap (Facts \ FactsAt(place)))
  BY <1>1, RetainKeeps
<1>3. w \in Seq(Facts)
  BY <1>2, SeqMonotonic
<1> HIDE DEF w
<1>4. Holding(w, place) = <<>>
  <2>1. (Facts \cap (Facts \ FactsAt(place))) \cap FactsAt(place) = {}
    OBVIOUS
  <2>2. Retain(w, FactsAt(place)) = <<>>
    BY <1>2, <2>1, RetainNothing
  <2>3. Holding(w, place) = Retain(w, FactsAt(place))
    BY <1>3, HoldingRetains
  <2> QED
    BY <2>2, <2>3
<1>5. ASSUME NEW other, other # place
      PROVE  Holding(w, other) = Holding(s, other)
  <2>1. Holding(w, other) = Retain(s, (Facts \ FactsAt(place)) \cap FactsAt(other))
    <3>1. Holding(w, other) = Retain(w, FactsAt(other))
      BY <1>3, HoldingRetains
    <3>2. Retain(Retain(s, Facts \ FactsAt(place)), FactsAt(other))
            = Retain(s, (Facts \ FactsAt(place)) \cap FactsAt(other))
      BY RetainTwice
    <3> QED
      BY <1>1, <3>1, <3>2
  <2>2. (Facts \ FactsAt(place)) \cap FactsAt(other) = FactsAt(other)
    BY <1>5 DEF FactsAt
  <2> QED
    BY <2>1, <2>2, HoldingRetains
<1> QED
  BY <1>3, <1>4, <1>5 DEF w

\* The manifests that a capture and a selection make.
Captured(image, stale, scale) ==
  LET place == Len(manifest.captures) + 1
      codes == DeterministicCodes(image, stale,
                                  RepeatsEarlier(manifest, place, image))
  IN [manifest EXCEPT
        !.captures = Append(@, [image |-> image, stale |-> stale,
                                scale |-> scale]),
        !.facts = @ \o FactsOf(place, codes),
        !.producer = "surfacecheckd"]

Selected(before, after) ==
  [manifest EXCEPT !.comparison = Measure(before, after),
                   !.pair = PairOf(before, after)]

LEMMA CapturedFields ==
  ASSUME RecordsInv, NEW image, NEW stale, NEW scale
  PROVE  LET m == Captured(image, stale, scale)
             place == Len(manifest.captures) + 1
             codes == DeterministicCodes(image, stale,
                                         RepeatsEarlier(manifest, place, image))
         IN /\ m.captures = Append(manifest.captures,
                              [image |-> image, stale |-> stale, scale |-> scale])
            /\ m.facts = manifest.facts \o FactsOf(place, codes)
            /\ m.findings = manifest.findings
            /\ m.pair = manifest.pair /\ m.comparison = manifest.comparison
  BY FieldsOfManifest DEF RecordsInv, Formed, Captured

LEMMA ReviewedFields ==
  ASSUME RecordsInv, NEW place, NEW r
  PROVE  LET m == WithReviewOf(place, r)
             c == manifest.captures[place]
         IN /\ m.captures = manifest.captures
            /\ m.facts = Without(manifest.facts, place)
                 \o FactsOf(place, DeterministicCodes(c.image, c.stale, FALSE))
            /\ m.findings = Uncited(manifest.findings, place)
                 \o Kept(r, place, c.image)
            /\ m.pair = manifest.pair /\ m.comparison = manifest.comparison
  BY FieldsOfManifest DEF RecordsInv, Formed, WithReviewOf

LEMMA SelectedFields ==
  ASSUME RecordsInv, NEW before, NEW after
  PROVE  LET m == Selected(before, after)
         IN /\ m.captures = manifest.captures /\ m.facts = manifest.facts
            /\ m.findings = manifest.findings
            /\ m.pair = PairOf(before, after)
            /\ m.comparison = Measure(before, after)
  BY FieldsOfManifest DEF RecordsInv, Formed, Selected

\* What each operation replaces the manifest by, if it is valid.
LEMMA Replacements ==
  /\ \A image, stale, scale :
       Capture(image, stale, scale) =>
         /\ Len(manifest.captures) < MaxCaptureCount
         /\ Replace(Captured(image, stale, scale))
         /\ UNCHANGED <<reviews, reviewed, accepted>>
  /\ \A before, after :
       Select(before, after) =>
         /\ Replace(Selected(before, after))
         /\ UNCHANGED <<reviews, reviewed, accepted>>
  BY DEF Capture, Select, Captured, Selected

\* Every fact is about a capture that is there.
LEMMA FactsAreListed ==
  ASSUME RecordsInv, FactsInv
  PROVE  \A place : place \notin DOMAIN manifest.captures =>
            Holding(manifest.facts, place) = <<>>
<1> SUFFICES ASSUME NEW place, place \notin DOMAIN manifest.captures
             PROVE  Holding(manifest.facts, place) = <<>>
  OBVIOUS
<1> DEFINE s == manifest.facts
<1>1. s \in Seq(Facts) /\ Holding(s, place) = Retain(s, FactsAt(place))
  BY HoldingRetains DEF FactsInv
<1>2. \A i \in DOMAIN s : s[i].capture \in DOMAIN manifest.captures
  <2>1. CASE manifest = EmptyManifest
    BY <2>1 DEF EmptyManifest
  <2>2. CASE ValidManifest(manifest)
    BY <2>2 DEF ValidManifest
  <2> QED
    BY <2>1, <2>2 DEF RecordsInv, TypeOK
<1> HIDE DEF s
<1>3. ToSet(s) \cap FactsAt(place) = {}
  BY <1>2 DEF ToSet, FactsAt
<1>4. s \in Seq(ToSet(s))
  BY <1>1, SeqOfElements
<1> QED
  BY <1>1, <1>3, <1>4, RetainNothing DEF s

LEMMA FactsInitially == Init => FactsInv
<1> SUFFICES ASSUME Init PROVE FactsInv
  OBVIOUS
<1>1. manifest.facts = <<>> /\ DOMAIN manifest.captures = {}
  BY DEF Init, EmptyManifest
<1> QED
  BY <1>1 DEF FactsInv

\* The facts do not depend on what else is in the manifest.
LEMMA FactsStay ==
  ASSUME FactsInv, UNCHANGED reviewed,
         manifest'.facts = manifest.facts, manifest'.captures = manifest.captures
  PROVE  FactsInv'
<1>1. \A place : CodesNow(place)' = CodesNow(place)
  BY DEF CodesNow, RepeatsEarlier
<1> QED
  BY <1>1 DEF FactsInv

LEMMA CaptureMeasures ==
  ASSUME RecordsInv, FactsInv,
         NEW image \in Image, NEW stale \in BOOLEAN, NEW scale \in Scale,
         Capture(image, stale, scale)
  PROVE  FactsInv'
<1>3. manifest.captures \in Seq(Records)
  BY DEF RecordsInv, Formed
<1>0. PICK place \in Nat \ {0} : place = Len(manifest.captures) + 1
  BY <1>3
<1> DEFINE m == Captured(image, stale, scale)
           repeats == RepeatsEarlier(manifest, place, image)
           codes == DeterministicCodes(image, stale, repeats)
           record == [image |-> image, stale |-> stale, scale |-> scale]
<1>1. Replace(m) /\ UNCHANGED reviewed
  BY Replacements
<1>2. /\ m.captures = Append(manifest.captures, record)
      /\ m.facts = manifest.facts \o FactsOf(place, codes)
  BY <1>0, CapturedFields
<1>9. record \in Records
  BY DEF Records
<1>4. repeats \in BOOLEAN
  BY DEF RepeatsEarlier
<1>5. codes \in Seq(Codes)
  BY <1>4, CodesAreCodes
<1>6. /\ record.image = image /\ record.stale = stale
      /\ place \notin DOMAIN manifest.captures
      /\ DOMAIN m.captures = DOMAIN manifest.captures \cup {place}
      /\ m.captures[place] = record
      /\ \A i \in DOMAIN manifest.captures : m.captures[i] = manifest.captures[i]
      /\ DOMAIN manifest.captures = 1..(place - 1)
  BY <1>0, <1>2, <1>3, <1>9
<1>7. CASE manifest' = manifest
  BY <1>1, <1>7, FactsStay
<1>8. CASE manifest' = m
  <2> HIDE DEF m, record, codes
  <2>1. place \notin reviewed
    BY <1>6 DEF RecordsInv, TypeOK
  <2>2. manifest.facts \in Seq(Facts) /\ FactsOf(place, codes) \in Seq(Facts)
    BY <1>5, FactsOfTyped DEF FactsInv
  <2>3. ASSUME NEW i \in DOMAIN manifest.captures
        PROVE  Holding(m.facts, i) = FactsOf(i, CodesNow(i)')
    <3>1. Holding(m.facts, i) = Holding(manifest.facts, i)
      <4>1. i # place
        BY <1>6
      <4>2. \A other : other # place =>
              Holding(manifest.facts \o FactsOf(place, codes), other)
                = Holding(manifest.facts, other)
        <5> DEFINE old == manifest.facts
        <5>1. old \in Seq(Facts) /\ place \in Nat /\ codes \in Seq(Codes)
          BY <1>5, <2>2
        <5> HIDE DEF old
        <5>2. \A other : other # place =>
                Holding(old \o FactsOf(place, codes), other) = Holding(old, other)
          BY <5>1, HoldingAdded
        <5> QED
          BY <5>2 DEF old
      <4> QED
        BY <1>2, <4>1, <4>2
    <3>2. RepeatsEarlier(manifest, i, manifest.captures[i].image)'
            <=> RepeatsEarlier(manifest, i, manifest.captures[i].image)
      BY <1>5, <1>6, <1>8 DEF RepeatsEarlier
    <3>3. CodesNow(i)' = CodesNow(i)
      BY <1>1, <1>6, <1>8, <3>2 DEF CodesNow
    <3> QED
      BY <3>1, <3>3 DEF FactsInv
  <2>4. Holding(m.facts, place) = FactsOf(place, CodesNow(place)')
    <3>1. Holding(manifest.facts, place) = <<>>
      BY <1>6, FactsAreListed
    <3>2. Holding(m.facts, place) = FactsOf(place, codes)
      <4>1. Holding(m.facts, place) = <<>> \o FactsOf(place, codes)
        <5>1. Holding(manifest.facts \o FactsOf(place, codes), place)
                = Holding(manifest.facts, place) \o FactsOf(place, codes)
          BY <1>5, <2>2, HoldingAdded
        <5> QED
          BY <1>2, <3>1, <5>1
      <4> QED
        BY <2>2, <4>1, ConcatEmptySeq
    <3>3. RepeatsEarlier(manifest', place, image) = repeats
      <4>1. \A i \in DOMAIN m.captures :
              i < place <=> i \in DOMAIN manifest.captures
        BY <1>5, <1>6
      <4> QED
        BY <1>6, <1>8, <4>1 DEF RepeatsEarlier
    <3>4. CodesNow(place)' = codes
      <4>1. /\ manifest'.captures[place].image = image
            /\ manifest'.captures[place].stale = stale
        BY <1>6, <1>8
      <4>2. place \notin reviewed'
        BY <1>1, <2>1
      <4>3. CodesNow(place)'
              = DeterministicCodes(image, stale, repeats /\ place \notin reviewed')
        BY <3>3, <4>1 DEF CodesNow
      <4>4. (repeats /\ place \notin reviewed') = repeats
        BY <1>4, <4>2
      <4> HIDE DEF repeats
      <4> QED
        BY <4>3, <4>4 DEF codes
    <3> QED
      BY <3>2, <3>4
  <2>5. m.facts \in Seq(Facts)
    BY <1>2, <2>2
  <2>6. ASSUME NEW i \in DOMAIN manifest'.captures
        PROVE  Holding(manifest'.facts, i) = FactsOf(i, CodesNow(i)')
    <3>1. i \in DOMAIN manifest.captures \/ i = place
      BY <1>6, <1>8
    <3> QED
      BY <1>8, <2>3, <2>4, <3>1
  <2> QED
    BY <1>8, <2>5, <2>6 DEF FactsInv
<1> QED
  BY <1>1, <1>7, <1>8, ReplacedIsValid DEF RecordsInv, TypeOK

LEMMA ReviewMeasures ==
  ASSUME RecordsInv, FactsInv, NEW place \in DOMAIN manifest.captures,
         NEW answer \in Response \cup {NoResponse},
         Review(place, answer)
  PROVE  FactsInv'
<1> DEFINE c == manifest.captures[place]
           r == About(answer, place, c.image)
           m == WithReviewOf(place, r)
           codes == DeterministicCodes(c.image, c.stale, FALSE)
<1>1. /\ Replace(m)
      /\ Replaced(m) => reviewed' = reviewed \cup {place}
      /\ ~Replaced(m) => reviewed' = reviewed
  BY DEF Review
<1> HIDE DEF r
<1>2. /\ m.captures = manifest.captures
      /\ m.facts = Without(manifest.facts, place) \o FactsOf(place, codes)
  BY ReviewedFields
<1>3. place \in Nat /\ c.image \in Image /\ c.stale \in BOOLEAN
  <2>1. manifest.captures \in Seq(Records)
    BY DEF RecordsInv, Formed
  <2>2. place \in Nat /\ c \in Records
    BY <2>1
  <2> QED
    BY <2>2 DEF Records
<1>4. codes \in Seq(Codes)
  BY <1>3, CodesAreCodes
<1> HIDE DEF m
<1>5. CASE ~Replaced(m)
  <2>1. manifest' = manifest /\ reviewed' = reviewed
    BY <1>1, <1>5 DEF Replace, Replaced
  <2> QED
    BY <2>1, FactsStay
<1>6. CASE Replaced(m)
  <2>1. manifest' = m /\ reviewed' = reviewed \cup {place}
    BY <1>1, <1>6 DEF Replace, Replaced
  <2> DEFINE w == Without(manifest.facts, place)
  <2>2. /\ w \in Seq(Facts) /\ Holding(w, place) = <<>>
        /\ \A other : other # place =>
              Holding(w, other) = Holding(manifest.facts, other)
    BY HoldingWithout DEF FactsInv
  <2>3. FactsOf(place, codes) \in Seq(Facts)
    BY <1>3, <1>4, FactsOfTyped
  <2> HIDE DEF w
  <2>4. /\ Holding(w \o FactsOf(place, codes), place)
             = Holding(w, place) \o FactsOf(place, codes)
        /\ \A other : other # place =>
              Holding(w \o FactsOf(place, codes), other) = Holding(w, other)
    <3> HIDE DEF codes
    <3> QED
      BY <1>3, <1>4, <2>2, HoldingAdded
  <2>5. m.facts \in Seq(Facts) /\ m.facts = w \o FactsOf(place, codes)
    <3> HIDE DEF codes
    <3>1. w \o FactsOf(place, codes) \in Seq(Facts)
      BY <2>2, <2>3
    <3>2. m.facts = w \o FactsOf(place, codes)
      BY <1>2 DEF w
    <3> QED
      BY <3>1, <3>2
  <2>6. ASSUME NEW i \in DOMAIN manifest.captures, i # place
        PROVE  Holding(m.facts, i) = FactsOf(i, CodesNow(i)')
    <3>1. Holding(m.facts, i) = Holding(manifest.facts, i)
      BY <2>2, <2>4, <2>5, <2>6
    <3>2. CodesNow(i)' = CodesNow(i)
      <4>1. i \in reviewed' <=> i \in reviewed
        BY <2>1, <2>6
      <4> QED
        BY <1>2, <2>1, <4>1 DEF CodesNow, RepeatsEarlier
    <3> QED
      BY <3>1, <3>2 DEF FactsInv
  <2>7. Holding(m.facts, place) = FactsOf(place, CodesNow(place)')
    <3>1. Holding(m.facts, place) = <<>> \o FactsOf(place, codes)
      BY <2>2, <2>4, <2>5
    <3>2. Holding(m.facts, place) = FactsOf(place, codes)
      BY <2>3, <3>1, ConcatEmptySeq
    <3>3. CodesNow(place)' = codes
      <4>1. manifest'.captures = manifest.captures /\ place \in reviewed'
        BY <1>2, <2>1
      <4> QED
        BY <4>1 DEF CodesNow
    <3> QED
      BY <3>2, <3>3
  <2> QED
    BY <1>2, <2>1, <2>5, <2>6, <2>7 DEF FactsInv
<1> QED
  BY <1>5, <1>6

LEMMA FactsInductive == RecordsInv /\ FactsInv /\ [Next]_vars => FactsInv'
<1> SUFFICES ASSUME RecordsInv, FactsInv, [Next]_vars PROVE FactsInv'
  OBVIOUS
<1>1. ASSUME NEW before, NEW after, Select(before, after) PROVE FactsInv'
  <2>1. Replace(Selected(before, after)) /\ UNCHANGED reviewed
    BY <1>1, Replacements
  <2>2. /\ manifest'.facts = manifest.facts
        /\ manifest'.captures = manifest.captures
    BY <2>1, SelectedFields DEF Replace
  <2> QED
    BY <2>1, <2>2, FactsStay
<1>2. CASE UNCHANGED vars
  BY <1>2, FactsStay DEF vars
<1> QED
  BY <1>1, <1>2, CaptureMeasures, ReviewMeasures DEF Next

Distinct(s) == \A i, j \in DOMAIN s : s[i] = s[j] => i = j

\* A list without repetitions is as long as it has elements.
LEMMA DistinctLength ==
  ASSUME NEW T, NEW s \in Seq(T),
         Distinct(s)
  PROVE  Cardinality(ToSet(s)) = Len(s)
<1> DEFINE n == Len(s)
<1>1. n \in Nat /\ DOMAIN s = 1..n
  OBVIOUS
<1>2. s \in [1..n -> ToSet(s)]
  BY <1>1, SeqOfElements
<1>3. s \in Bijection(1..n, ToSet(s))
  BY <1>1, <1>2 DEF Distinct, Bijection, Injection, Surjection, IsInjective,
                      ToSet
<1>4. IsFiniteSet(1..n) /\ Cardinality(1..n) = n
  BY <1>1, FS_Interval
<1> QED
  BY <1>3, <1>4, FS_Bijection DEF ExistsBijection

LEMMA DistinctConcat ==
  ASSUME NEW T, NEW s \in Seq(T), NEW t \in Seq(T), Distinct(s), Distinct(t),
         ToSet(s) \cap ToSet(t) = {}
  PROVE  Distinct(s \o t) /\ ToSet(s \o t) = ToSet(s) \cup ToSet(t)
<1>1. /\ DOMAIN s = 1..Len(s) /\ Len(s) \in Nat
      /\ DOMAIN t = 1..Len(t) /\ Len(t) \in Nat
      /\ DOMAIN (s \o t) = 1..(Len(s) + Len(t))
      /\ \A i \in 1..Len(s) : (s \o t)[i] = s[i]
      /\ \A i \in 1..Len(t) : (s \o t)[Len(s) + i] = t[i]
  OBVIOUS
<1>2. \A i \in DOMAIN (s \o t) :
        i \in 1..Len(s) \/ \E k \in 1..Len(t) : i = Len(s) + k
  <2> SUFFICES ASSUME NEW i \in DOMAIN (s \o t), i \notin 1..Len(s)
               PROVE  \E k \in 1..Len(t) : i = Len(s) + k
    OBVIOUS
  <2>1. i - Len(s) \in 1..Len(t) /\ i = Len(s) + (i - Len(s))
    BY <1>1
  <2> QED
    BY <2>1
<1> DEFINE u == s \o t
<1> HIDE DEF u
<1>3. /\ \A i \in 1..Len(s) : u[i] = s[i] /\ s[i] \in ToSet(s)
      /\ \A i \in 1..Len(t) : u[Len(s) + i] = t[i] /\ t[i] \in ToSet(t)
      /\ \A i \in DOMAIN u : i \in 1..Len(s) \/ \E k \in 1..Len(t) : i = Len(s) + k
      /\ DOMAIN u = 1..(Len(s) + Len(t))
  BY <1>1, <1>2, SeqOfElements DEF u
<1>4. ASSUME NEW i \in DOMAIN u, NEW j \in DOMAIN u, u[i] = u[j]
      PROVE  i = j
  <2>1. CASE i \in 1..Len(s) /\ j \in 1..Len(s)
    BY <1>1, <1>3, <1>4, <2>1 DEF Distinct
  <2>2. CASE \E k \in 1..Len(t) : i = Len(s) + k
    <3>1. PICK k \in 1..Len(t) : i = Len(s) + k
      BY <2>2
    <3>2. u[i] = t[k] /\ t[k] \in ToSet(t)
      BY <1>3, <3>1
    <3>3. PICK l \in 1..Len(t) : j = Len(s) + l
      BY <1>3, <1>4, <3>2
    <3>4. k = l
      BY <1>1, <1>3, <1>4, <3>2, <3>3 DEF Distinct
    <3> QED
      BY <3>1, <3>3, <3>4
  <2>3. CASE i \in 1..Len(s) /\ \E l \in 1..Len(t) : j = Len(s) + l
    <3>1. PICK l \in 1..Len(t) : j = Len(s) + l
      BY <2>3
    <3>2. u[j] \in ToSet(t) /\ u[i] \in ToSet(s)
      BY <1>3, <2>3, <3>1
    <3> QED
      BY <1>4, <3>2
  <2> QED
    BY <1>3, <2>1, <2>2, <2>3
<1>5. ToSet(u) \subseteq ToSet(s) \cup ToSet(t)
  BY <1>3 DEF ToSet
<1>6. ToSet(s) \subseteq ToSet(u)
  <2>1. \A i \in 1..Len(s) : i \in DOMAIN u
    BY <1>1, <1>3
  <2> QED
    BY <1>1, <1>3, <2>1 DEF ToSet
<1>7. ToSet(t) \subseteq ToSet(u)
  <2>1. \A i \in 1..Len(t) : Len(s) + i \in DOMAIN u
    BY <1>1, <1>3
  <2> QED
    BY <1>1, <1>3, <2>1 DEF ToSet
<1> QED
  BY <1>4, <1>5, <1>6, <1>7 DEF Distinct, u

LEMMA CodesOfLookDistinct ==
  ASSUME NEW look \in {"blank", "transparent", "plain", "edged"}
  PROVE  /\ Distinct(LookCodes(look))
         /\ "stale_capture" \notin ToSet(LookCodes(look))
         /\ "duplicate_capture" \notin ToSet(LookCodes(look))
<1>1. CASE look = "blank"
  BY <1>1 DEF LookCodes, Distinct, ToSet
<1>2. CASE look = "transparent"
  BY <1>2 DEF LookCodes, Distinct, ToSet
<1>3. CASE look = "plain"
  BY <1>3 DEF LookCodes, Distinct, ToSet
<1>4. CASE look = "edged"
  BY <1>4 DEF LookCodes, Distinct, ToSet
<1> QED
  BY <1>1, <1>2, <1>3, <1>4

LEMMA CodesDistinct ==
  ASSUME NEW image \in Image, NEW stale \in BOOLEAN, NEW duplicate \in BOOLEAN
  PROVE  LET codes == DeterministicCodes(image, stale, duplicate)
         IN /\ Distinct(codes)
            /\ ToSet(codes) = ToSet(LookCodes(image.look))
                 \cup (IF stale THEN {"stale_capture"} ELSE {})
                 \cup (IF duplicate THEN {"duplicate_capture"} ELSE {})
<1> DEFINE look == LookCodes(image.look)
           flagged(flag, code) == IF flag THEN <<code>> ELSE <<>>
           old == flagged(stale, "stale_capture")
           again == flagged(duplicate, "duplicate_capture")
<1>1. /\ look \in Seq(Codes) /\ Distinct(look)
      /\ "stale_capture" \notin ToSet(look)
      /\ "duplicate_capture" \notin ToSet(look)
  BY CodesOfLook, CodesOfLookDistinct, ReviewAssumption
<1>2. ASSUME NEW flag \in BOOLEAN, NEW code \in Codes
      PROVE  /\ flagged(flag, code) \in Seq(Codes)
             /\ Distinct(flagged(flag, code))
             /\ ToSet(flagged(flag, code)) = IF flag THEN {code} ELSE {}
  <2>1. CASE flag
    BY <2>1 DEF Distinct, ToSet
  <2>2. CASE ~flag
    BY <2>2 DEF Distinct, ToSet
  <2> QED
    BY <2>1, <2>2
<1>3. "stale_capture" \in Codes /\ "duplicate_capture" \in Codes
  BY DEF Codes
<1>4. /\ old \in Seq(Codes) /\ Distinct(old)
      /\ ToSet(old) = IF stale THEN {"stale_capture"} ELSE {}
      /\ again \in Seq(Codes) /\ Distinct(again)
      /\ ToSet(again) = IF duplicate THEN {"duplicate_capture"} ELSE {}
  <2> HIDE DEF flagged
  <2> QED
    BY <1>2, <1>3
<1>5. DeterministicCodes(image, stale, duplicate) = look \o old \o again
  BY DEF DeterministicCodes, StaleCodes
<1> HIDE DEF look, old, again
<1>6. Distinct(look \o old) /\ ToSet(look \o old) = ToSet(look) \cup ToSet(old)
  BY <1>1, <1>4, DistinctConcat
<1>7. look \o old \in Seq(Codes)
  BY <1>1, <1>4
<1> DEFINE first == look \o old
<1> HIDE DEF first
<1>8. /\ Distinct(first \o again)
      /\ ToSet(first \o again) = ToSet(first) \cup ToSet(again)
  <2>1. ToSet(first) \cap ToSet(again) = {}
    BY <1>1, <1>4, <1>6 DEF first
  <2>2. /\ first \in Seq(Codes) /\ again \in Seq(Codes)
        /\ Distinct(first) /\ Distinct(again)
    BY <1>4, <1>6, <1>7 DEF first
  <2> QED
    BY <2>1, <2>2, DistinctConcat
<1> QED
  BY <1>4, <1>5, <1>6, <1>8 DEF first, look

LEMMA MeasuredFromFacts == RecordsInv /\ FactsInv => FactsMeasured
<1> SUFFICES ASSUME RecordsInv, FactsInv, NEW place \in DOMAIN manifest.captures
             PROVE  LET c == manifest.captures[place]
                        repeats == /\ RepeatsEarlier(manifest, place, c.image)
                                   /\ place \notin reviewed
                        facts == Holding(manifest.facts, place)
                        look == LookCodes(c.image.look)
                    IN /\ Len(facts) = Cardinality({facts[i].code : i \in DOMAIN facts})
                       /\ {facts[i].code : i \in DOMAIN facts} =
                            {look[i] : i \in DOMAIN look}
                              \cup (IF c.stale THEN {"stale_capture"} ELSE {})
                              \cup (IF repeats THEN {"duplicate_capture"} ELSE {})
  BY DEF FactsMeasured
<1> DEFINE c == manifest.captures[place]
           repeats == RepeatsEarlier(manifest, place, c.image)
                        /\ place \notin reviewed
           codes == DeterministicCodes(c.image, c.stale, repeats)
           facts == Holding(manifest.facts, place)
<1>1. c.image \in Image /\ c.stale \in BOOLEAN /\ repeats \in BOOLEAN
  <2>1. manifest.captures \in Seq(Records)
    BY DEF RecordsInv, Formed
  <2>2. c \in Records
    BY <2>1
  <2> QED
    BY <2>2 DEF Records
<1>2. facts = FactsOf(place, codes)
  BY DEF FactsInv, CodesNow
<1>3. /\ codes \in Seq(Codes) /\ Distinct(codes)
      /\ ToSet(codes) = ToSet(LookCodes(c.image.look))
           \cup (IF c.stale THEN {"stale_capture"} ELSE {})
           \cup (IF repeats THEN {"duplicate_capture"} ELSE {})
  <2> HIDE DEF c, repeats
  <2> QED
    BY <1>1, CodesAreCodes, CodesDistinct
<1> HIDE DEF codes, facts
<1>4. /\ DOMAIN facts = DOMAIN codes /\ Len(facts) = Len(codes)
      /\ \A i \in DOMAIN facts : facts[i].code = codes[i]
  BY <1>2, <1>3 DEF FactsOf, Fact
<1>5. {facts[i].code : i \in DOMAIN facts} = ToSet(codes)
  BY <1>4 DEF ToSet
<1>6. Cardinality(ToSet(codes)) = Len(codes)
  BY <1>3, DistinctLength
<1>7. ToSet(LookCodes(c.image.look))
        = {LookCodes(c.image.look)[i] : i \in DOMAIN LookCodes(c.image.look)}
  BY DEF ToSet
<1> QED
  BY <1>3, <1>4, <1>5, <1>6, <1>7 DEF facts

\* Whatever is captured and reviewed, the facts about a capture are those that
\* can be measured in it, each once, and a stale one has its mark
\* (deterministic_findings, publish_capture, review_capture).
THEOREM FactsStayMeasured == Spec => []FactsMeasured
  BY Initially, Inductive, FactsInitially, FactsInductive, MeasuredFromFacts,
     PTL DEF Spec

-----------------------------------------------------------------------------
\* The findings about a capture are those of its last answer

\* Every finding is about one capture, and each capture has its answer; what
\* is not captured has none.
FindingsInv ==
  /\ manifest.findings \in Seq(ToSet(manifest.findings))
  /\ \A f \in ToSet(manifest.findings) :
       \E place \in DOMAIN manifest.captures :
         f.refs # {} /\ \A ref \in f.refs : ref.capture = place
  /\ \A place \in DOMAIN manifest.captures :
       Citing(manifest.findings, place) = accepted[place]
  /\ \A place \in Places : DistinctIds(accepted[place])
  /\ \A place \in Places \ DOMAIN manifest.captures : accepted[place] = <<>>

LEMMA NoIds == DistinctIds(<<>>)
  BY DEF DistinctIds

LEMMA FindingsInitially == Init => FindingsInv
<1> SUFFICES ASSUME Init PROVE FindingsInv
  OBVIOUS
<1>1. /\ manifest.findings = <<>> /\ DOMAIN manifest.captures = {}
      /\ \A place \in Places : accepted[place] = <<>>
  BY DEF Init, EmptyManifest
<1>2. ToSet(manifest.findings) = {}
  BY <1>1, ToSetOfNone
<1>3. <<>> \in Seq({})
  OBVIOUS
<1> QED
  BY <1>1, <1>2, <1>3, NoIds DEF FindingsInv

\* The captures that are there are within the places there are.
LEMMA CapturesInPlaces ==
  ASSUME RecordsInv
  PROVE  DOMAIN manifest.captures \subseteq Places
<1>1. manifest.captures \in Seq(Records) /\ MaxCaptureCount \in Nat
  BY ContractAssumption DEF RecordsInv, Formed
<1>2. Len(manifest.captures) <= MaxCaptureCount
  <2>1. CASE manifest = EmptyManifest
    BY <1>1, <2>1 DEF EmptyManifest
  <2>2. CASE ValidManifest(manifest)
    BY <2>2 DEF ValidManifest, WithinLimits
  <2> QED
    BY <2>1, <2>2 DEF RecordsInv, TypeOK
<1> QED
  BY <1>1, <1>2 DEF Places

LEMMA FindingsStay ==
  ASSUME RecordsInv, FindingsInv, UNCHANGED accepted,
         manifest'.findings = manifest.findings,
         manifest'.captures = manifest.captures
  PROVE  FindingsInv'
  BY DEF FindingsInv, Places

\* A capture that is added has no findings yet.
LEMMA CaptureFindsNothing ==
  ASSUME RecordsInv, FindingsInv,
         NEW image \in Image, NEW stale \in BOOLEAN, NEW scale \in Scale,
         Capture(image, stale, scale)
  PROVE  FindingsInv'
<1> DEFINE m == Captured(image, stale, scale)
           record == [image |-> image, stale |-> stale, scale |-> scale]
           F == manifest.findings
<1>1. manifest.captures \in Seq(Records) /\ record \in Records
  BY DEF RecordsInv, Formed, Records
<1>2. PICK place \in Nat \ {0} : place = Len(manifest.captures) + 1
  BY <1>1
<1>3. Replace(m) /\ UNCHANGED accepted /\ place \in Places
  BY <1>1, <1>2, Replacements, ContractAssumption DEF Places
<1>4. m.captures = Append(manifest.captures, record) /\ m.findings = F
  BY CapturedFields
<1>5. /\ place \notin DOMAIN manifest.captures
      /\ DOMAIN m.captures = DOMAIN manifest.captures \cup {place}
  BY <1>1, <1>2, <1>4
<1>6. CASE manifest' = manifest
  BY <1>3, <1>6, FindingsStay
<1>7. CASE manifest' = m
  <2> HIDE DEF m
  <2>1. Citing(F, place) = <<>>
    <3>1. ToSet(F) \cap {f \in ToSet(F) : Cites(f, place)} = {}
      BY <1>5 DEF FindingsInv, Cites
    <3>2. F \in Seq(ToSet(F))
      BY DEF FindingsInv
    <3> QED
      BY <3>1, <3>2, RetainNothing DEF Citing
  <2>2. accepted[place] = <<>>
    BY <1>3, <1>5 DEF FindingsInv
  <2> QED
    BY <1>3, <1>4, <1>5, <1>7, <2>1, <2>2 DEF FindingsInv, Places
<1> QED
  BY <1>3, <1>6, <1>7, ReplacedIsValid DEF RecordsInv, TypeOK

\* What is kept of an answer: all of it or nothing, and each finding is about
\* the capture and within it.
LEMMA KeptWhole ==
  ASSUME NEW place, NEW image, NEW answer \in Response \cup {NoResponse}
  PROVE  LET r == About(answer, place, image)
             kept == Kept(r, place, image)
         IN /\ kept = IF Accepts(r, place, image) THEN r.findings ELSE <<>>
            /\ kept \in Seq(ToSet(kept)) /\ DistinctIds(kept)
            /\ \A f \in ToSet(kept) :
                 /\ ValidFinding(f)
                 /\ \A ref \in f.refs :
                      /\ ref.capture = place /\ ref.hash = image.hash
                      /\ LiesWithin(ref, image.width)
<1> DEFINE r == About(answer, place, image)
           kept == Kept(r, place, image)
<1>1. "findings" \in DOMAIN answer /\ answer.findings \in Seq(ToSet(answer.findings))
  <2>1. CASE answer \in Response
    BY <2>1, ReviewAssumption
  <2>2. CASE answer = NoResponse
    <3>1. "findings" \in DOMAIN answer /\ answer.findings = <<>>
      BY <2>2 DEF NoResponse
    <3>2. <<>> \in Seq(ToSet(<<>>))
      BY SeqOfElements, EmptySeq
    <3> QED
      BY <3>1, <3>2
  <2> QED
    BY <2>1, <2>2
<1>2. r.findings \in Seq(ToSet(r.findings))
  <2> DEFINE given == answer.findings
             about == [i \in DOMAIN given |->
                        [id |-> given[i].id, sound |-> given[i].sound,
                         bytes |-> given[i].bytes,
                         refs |-> {Cited(given[i].cites, place, image)}]]
  <2>1. r.findings = about
    BY <1>1 DEF About
  <2>2. DOMAIN given = 1..Len(given) /\ Len(given) \in Nat
    BY <1>1
  <2> HIDE DEF given
  <2>3. DOMAIN about = 1..Len(given)
    BY <2>2
  <2> HIDE DEF about
  <2>4. \A i \in DOMAIN about : about[i] \in ToSet(about)
    BY DEF ToSet
  <2>5. about = [i \in 1..Len(given) |-> about[i]]
    BY <2>3 DEF about
  <2>6. about \in [1..Len(given) -> ToSet(about)]
    BY <2>3, <2>4, <2>5
  <2>7. about \in Seq(ToSet(about))
    BY <2>2, <2>6
  <2> QED
    BY <2>1, <2>7
<1> HIDE DEF r
<1>3. kept = IF Accepts(r, place, image) THEN r.findings ELSE <<>>
  BY DEF Kept, Accepts, ValidResponse
<1>4. CASE Accepts(r, place, image) /\ r.status = "success"
  <2>1. kept = r.findings
    BY <1>4 DEF Kept
  <2>2. \A i \in DOMAIN kept : /\ ValidFinding(kept[i])
                               /\ WithinContext(kept[i], place, image)
    BY <1>4, <2>1 DEF Accepts, ValidResponse
  <2>3. DistinctIds(kept)
    BY <1>4, <2>1 DEF Accepts
  <2> HIDE DEF kept
  <2>4. \A f \in ToSet(kept) : ValidFinding(f) /\ WithinContext(f, place, image)
    BY <2>2 DEF ToSet
  <2> QED
    BY <1>2, <1>3, <2>1, <2>3, <2>4 DEF r, kept, WithinContext
<1>5. CASE ~(Accepts(r, place, image) /\ r.status = "success")
  <2>1. kept = <<>>
    BY <1>5 DEF Kept
  <2>2. kept \in Seq(ToSet(kept)) /\ ToSet(kept) = {} /\ DistinctIds(kept)
    <3>1. <<>> \in Seq({})
      OBVIOUS
    <3> QED
      BY <2>1, <3>1, ToSetOfNone, NoIds
  <2> HIDE DEF kept
  <2> QED
    BY <1>3, <2>2 DEF r, kept
<1> QED
  BY <1>4, <1>5

\* The findings about a place, over any set they are in.
LEMMA CitingRetains ==
  ASSUME NEW T, NEW s \in Seq(T), NEW place
  PROVE  /\ Citing(s, place) = Retain(s, {f \in T : Cites(f, place)})
         /\ Uncited(s, place) = Retain(s, {f \in T : ~Cites(f, place)})
<1>1. s \in Seq(ToSet(s)) /\ ToSet(s) \subseteq T
  BY SeqOfElements
<1>2. ToSet(s) \cap {f \in ToSet(s) : Cites(f, place)}
        = ToSet(s) \cap {f \in T : Cites(f, place)}
  BY <1>1
<1>3. ToSet(s) \cap {f \in ToSet(s) : ~Cites(f, place)}
        = ToSet(s) \cap {f \in T : ~Cites(f, place)}
  BY <1>1
<1>4. Citing(s, place) = Retain(s, {f \in T : Cites(f, place)})
  BY <1>1, <1>2, RetainSame DEF Citing
<1>5. Uncited(s, place) = Retain(s, {f \in T : ~Cites(f, place)})
  BY <1>1, <1>3, RetainSame DEF Uncited
<1> QED
  BY <1>4, <1>5

\* Every finding is about one capture, and about this one.
EachAboutOne(s) ==
  \A f \in ToSet(s) : \E q : f.refs # {} /\ \A ref \in f.refs : ref.capture = q

EachAbout(s, place) ==
  \A f \in ToSet(s) : f.refs # {} /\ \A ref \in f.refs : ref.capture = place

\* Findings about one capture, in the place of the old ones about it.
LEMMA CitingReplaced ==
  ASSUME NEW s, s \in Seq(ToSet(s)), NEW kept, kept \in Seq(ToSet(kept)),
         NEW place, EachAboutOne(s), EachAbout(kept, place)
  PROVE  LET t == Uncited(s, place) \o kept
         IN /\ t \in Seq(ToSet(t)) /\ ToSet(t) \subseteq ToSet(s) \cup ToSet(kept)
            /\ Citing(t, place) = kept
            /\ \A other : other # place => Citing(t, other) = Citing(s, other)
<1> DEFINE T == ToSet(s) \cup ToSet(kept)
           About1(p) == {f \in T : Cites(f, p)}
           Others == {f \in T : ~Cites(f, place)}
           w == Uncited(s, place)
           t == w \o kept
<1>1. s \in Seq(T) /\ kept \in Seq(T)
  BY SeqMonotonic
<1>2. w = Retain(s, Others)
  BY <1>1, CitingRetains
<1>3. w \in Seq(T \cap Others)
  BY <1>1, <1>2, RetainKeeps
<1>4. w \in Seq(T)
  <2>1. T \cap Others \subseteq T
    OBVIOUS
  <2> QED
    BY <1>3, <2>1, SeqMonotonic
<1>5. \A f \in ToSet(kept) : Cites(f, place) /\ \A q : q # place => ~Cites(f, q)
  BY DEF Cites, EachAbout
<1>6. \A f \in ToSet(s) : \A q : q # place /\ Cites(f, q) => ~Cites(f, place)
  BY DEF Cites, EachAboutOne
<1> HIDE DEF w, T
<1>7. t \in Seq(T)
  BY <1>1, <1>4
<1>8. ASSUME NEW q
      PROVE  Citing(t, q) = Retain(w, About1(q)) \o Retain(kept, About1(q))
  <2>1. Citing(t, q) = Retain(t, About1(q))
    <3> HIDE DEF t
    <3> QED
      BY <1>7, CitingRetains
  <2>2. Retain(w \o kept, About1(q)) = Retain(w, About1(q)) \o Retain(kept, About1(q))
    <3> DEFINE about == About1(q)
    <3> HIDE DEF about
    <3>1. Retain(w \o kept, about) = Retain(w, about) \o Retain(kept, about)
      BY <1>1, <1>4, RetainConcat
    <3> QED
      BY <3>1 DEF about
  <2> QED
    BY <2>1, <2>2
<1>9. Citing(t, place) = kept
  <2>1. Retain(w, About1(place)) = <<>>
    <3>1. (T \cap Others) \cap About1(place) = {}
      OBVIOUS
    <3> QED
      BY <1>3, <3>1, RetainNothing
  <2>2. Retain(kept, About1(place)) = kept
    <3>1. ToSet(kept) \subseteq About1(place)
      BY <1>5 DEF T
    <3> QED
      BY <3>1, RetainAll
  <2>3. <<>> \o kept = kept
    BY <1>1, ConcatEmptySeq
  <2> QED
    BY <1>8, <2>1, <2>2, <2>3
<1>10. ASSUME NEW other, other # place
       PROVE  Citing(t, other) = Citing(s, other)
  <2>1. Retain(kept, About1(other)) = <<>>
    <3>1. ToSet(kept) \cap About1(other) = {}
      BY <1>5, <1>10
    <3> QED
      BY <3>1, RetainNothing
  <2>2. Retain(w, About1(other)) = Retain(s, Others \cap About1(other))
    BY <1>1, <1>2, RetainTwice
  <2>3. Retain(s, Others \cap About1(other)) = Retain(s, About1(other))
    <3>1. ToSet(s) \cap (Others \cap About1(other)) = ToSet(s) \cap About1(other)
      BY <1>6, <1>10
    <3> QED
      BY <3>1, RetainSame
  <2>4. Citing(s, other) = Retain(s, About1(other))
    BY <1>1, CitingRetains
  <2>5. Citing(s, other) \o <<>> = Citing(s, other)
    <3>1. Retain(s, About1(other)) \in Seq(T \cap About1(other))
      BY <1>1, RetainKeeps
    <3> QED
      BY <2>4, <3>1, ConcatEmptySeq
  <2> QED
    BY <1>8, <2>1, <2>2, <2>3, <2>4, <2>5
<1>11. t \in Seq(ToSet(t)) /\ ToSet(t) \subseteq T
  <2> HIDE DEF t
  <2> QED
    BY <1>7, SeqOfElements
<1> QED
  BY <1>9, <1>10, <1>11 DEF T, w

\* A review puts what is kept of the answer in the place of what was there.
LEMMA ReviewFindsWhole ==
  ASSUME RecordsInv, FindingsInv, NEW place \in DOMAIN manifest.captures,
         NEW answer \in Response \cup {NoResponse},
         Review(place, answer)
  PROVE  FindingsInv'
<1> DEFINE image == manifest.captures[place].image
           r == About(answer, place, image)
           m == WithReviewOf(place, r)
           F == manifest.findings
           kept == Kept(r, place, image)
           answered == IF Accepts(r, place, image) THEN r.findings ELSE <<>>
<1>1. /\ Replace(m)
      /\ Replaced(m) => accepted' = [accepted EXCEPT ![place] = answered]
      /\ ~Replaced(m) => accepted' = accepted
  BY DEF Review
<1>2. /\ kept = answered /\ kept \in Seq(ToSet(kept)) /\ DistinctIds(kept)
      /\ \A f \in ToSet(kept) :
           ValidFinding(f) /\ \A ref \in f.refs : ref.capture = place
  BY KeptWhole
<1>3. m.captures = manifest.captures /\ m.findings = Uncited(F, place) \o kept
  <2> HIDE DEF r
  <2> QED
    BY ReviewedFields
<1> HIDE DEF m, kept, answered, r
<1>4. CASE ~Replaced(m)
  <2>1. manifest' = manifest /\ accepted' = accepted
    BY <1>1, <1>4 DEF Replace, Replaced
  <2> QED
    BY <2>1, FindingsStay
<1>5. CASE Replaced(m)
  <2>1. manifest' = m /\ accepted' = [accepted EXCEPT ![place] = kept]
    BY <1>1, <1>2, <1>5 DEF Replace, Replaced
  <2>2. F \in Seq(ToSet(F)) /\ EachAboutOne(F)
    BY DEF FindingsInv, EachAboutOne
  <2>3. EachAbout(kept, place)
    BY <1>2 DEF ValidFinding, EachAbout
  <2> DEFINE t == Uncited(F, place) \o kept
  <2>4. /\ t \in Seq(ToSet(t)) /\ ToSet(t) \subseteq ToSet(F) \cup ToSet(kept)
        /\ Citing(t, place) = kept
        /\ \A other : other # place => Citing(t, other) = Citing(F, other)
    <3> HIDE DEF F
    <3> QED
      BY <1>2, <2>2, <2>3, CitingReplaced
  <2>5. m.findings = t
    BY <1>3
  <2> HIDE DEF t
  <2>6. \A f \in ToSet(t) :
          \E q \in DOMAIN manifest.captures :
            f.refs # {} /\ \A ref \in f.refs : ref.capture = q
    BY <2>3, <2>4 DEF FindingsInv, EachAbout
  <2>7. /\ place \in Places /\ DOMAIN accepted = Places
        /\ accepted'[place] = kept
        /\ \A q \in Places \ {place} : accepted'[q] = accepted[q]
    <3>1. place \in Places /\ DOMAIN accepted = Places
      BY CapturesInPlaces DEF RecordsInv, TypeOK
    <3> QED
      BY <2>1, <3>1
  <2>8. \A q \in DOMAIN manifest.captures : Citing(t, q) = accepted'[q]
    <3> SUFFICES ASSUME NEW q \in DOMAIN manifest.captures
                 PROVE  Citing(t, q) = accepted'[q]
      OBVIOUS
    <3>1. CASE q = place
      BY <2>4, <2>7, <3>1
    <3>2. CASE q # place
      <4>1. q \in Places
        BY CapturesInPlaces
      <4> QED
        BY <2>4, <2>7, <3>2, <4>1 DEF FindingsInv
    <3> QED
      BY <3>1, <3>2
  <2>9. \A q \in Places : DistinctIds(accepted'[q])
    <3> SUFFICES ASSUME NEW q \in Places PROVE DistinctIds(accepted'[q])
      OBVIOUS
    <3>1. CASE q = place
      BY <1>2, <2>7, <3>1
    <3>2. CASE q # place
      BY <2>7, <3>2 DEF FindingsInv
    <3> QED
      BY <3>1, <3>2
  <2>10. \A q \in Places \ DOMAIN manifest.captures : accepted'[q] = <<>>
    BY <2>7 DEF FindingsInv
  <2>11. manifest'.findings = t /\ manifest'.captures = manifest.captures
    BY <1>3, <2>1, <2>5
  <2>12. /\ manifest'.findings \in Seq(ToSet(manifest'.findings))
         /\ \A f \in ToSet(manifest'.findings) :
               \E q \in DOMAIN manifest'.captures :
                 f.refs # {} /\ \A ref \in f.refs : ref.capture = q
         /\ \A q \in DOMAIN manifest'.captures :
               Citing(manifest'.findings, q) = accepted'[q]
         /\ \A q \in Places \ DOMAIN manifest'.captures : accepted'[q] = <<>>
    BY <2>4, <2>6, <2>8, <2>10, <2>11
  <2> QED
    BY <2>9, <2>12 DEF FindingsInv, Places
<1> QED
  BY <1>4, <1>5

LEMMA FindingsInductive == RecordsInv /\ FindingsInv /\ [Next]_vars => FindingsInv'
<1> SUFFICES ASSUME RecordsInv, FindingsInv, [Next]_vars PROVE FindingsInv'
  OBVIOUS
<1>1. ASSUME NEW before, NEW after, Select(before, after) PROVE FindingsInv'
  <2>1. Replace(Selected(before, after)) /\ UNCHANGED accepted
    BY <1>1, Replacements
  <2>2. /\ manifest'.findings = manifest.findings
        /\ manifest'.captures = manifest.captures
    BY <2>1, SelectedFields DEF Replace
  <2> QED
    BY <2>1, <2>2, FindingsStay
<1>2. CASE UNCHANGED vars
  BY <1>2, FindingsStay DEF vars
<1> QED
  BY <1>1, <1>2, CaptureFindsNothing, ReviewFindsWhole DEF Next

LEMMA WholeFromFindings == RecordsInv /\ FindingsInv => WholeResponse
<1> SUFFICES ASSUME RecordsInv, FindingsInv, NEW place \in DOMAIN manifest.captures
             PROVE  LET findings == Citing(manifest.findings, place)
                    IN /\ findings = accepted[place]
                       /\ DistinctIds(findings)
                       /\ \A i \in DOMAIN findings :
                            \A ref \in findings[i].refs : ref.capture = place
  BY DEF WholeResponse
<1> DEFINE F == manifest.findings
           findings == Citing(F, place)
<1>1. place \in Places
  BY CapturesInPlaces
<1>2. findings = accepted[place] /\ DistinctIds(findings)
  BY <1>1 DEF FindingsInv
<1>3. /\ F \in Seq(ToSet(F))
      /\ \A f \in ToSet(F) :
           \E q \in DOMAIN manifest.captures :
             f.refs # {} /\ \A ref \in f.refs : ref.capture = q
  BY DEF FindingsInv
<1> HIDE DEF F
<1>4. ToSet(findings) = ToSet(F) \cap {f \in ToSet(F) : Cites(f, place)}
  BY <1>3, RetainKeeps DEF Citing
<1>5. \A f \in ToSet(findings) : \A ref \in f.refs : ref.capture = place
  BY <1>3, <1>4 DEF Cites
<1>6. \A i \in DOMAIN findings : findings[i] \in ToSet(findings)
  BY DEF ToSet
<1> QED
  BY <1>2, <1>5, <1>6 DEF F

\* The findings stored about a capture are all those of the answer to its last
\* review, or there are none (ReviewCoordinator::review, review_capture).
THEOREM ResponsesStayWhole == Spec => []WholeResponse
  BY Initially, Inductive, FindingsInitially, FindingsInductive,
     WholeFromFindings, PTL DEF Spec

-----------------------------------------------------------------------------
\* Only the limits can make an operation fail

\* The manifest of a capture is valid but for the limits.
LEMMA CapturedIsSound ==
  ASSUME RecordsInv, NEW image \in Image, NEW stale \in BOOLEAN, NEW scale \in Scale,
         WithinLimits(Captured(image, stale, scale)), FactsInv
  PROVE  ValidManifest(Captured(image, stale, scale))
<1> DEFINE m == Captured(image, stale, scale)
           record == [image |-> image, stale |-> stale, scale |-> scale]
<1>1. manifest.captures \in Seq(Records) /\ record \in Records
  BY DEF RecordsInv, Formed, Records
<1>2. PICK place \in Nat \ {0} : place = Len(manifest.captures) + 1
  BY <1>1
<1> DEFINE codes == DeterministicCodes(image, stale,
                                       RepeatsEarlier(manifest, place, image))
<1>3. /\ m.captures = Append(manifest.captures, record)
      /\ m.facts = manifest.facts \o FactsOf(place, codes)
      /\ m.findings = manifest.findings
      /\ m.pair = manifest.pair /\ m.comparison = manifest.comparison
  BY <1>2, CapturedFields
<1>4. /\ m.captures # <<>> /\ place \in DOMAIN m.captures
      /\ DOMAIN manifest.captures \subseteq DOMAIN m.captures
      /\ \A i \in DOMAIN m.captures :
           \/ i \in DOMAIN manifest.captures
                /\ m.captures[i] = manifest.captures[i]
           \/ m.captures[i] = record
      /\ \A i \in DOMAIN manifest.captures : m.captures[i] = manifest.captures[i]
  BY <1>1, <1>2, <1>3
<1>5. ValidCapture(record)
  BY ReviewAssumption DEF ValidCapture
<1>6. codes \in Seq(Codes)
  <2>1. RepeatsEarlier(manifest, place, image) \in BOOLEAN
    BY DEF RepeatsEarlier
  <2> QED
    BY <2>1, CodesAreCodes
<1>7. FactsOf(place, codes) \in Seq(FactsAt(place)) /\ manifest.facts \in Seq(Facts)
  <2> HIDE DEF codes
  <2> QED
    BY <1>6, FactsOfTyped DEF FactsInv
<1>8. WithinLimits(m)
  OBVIOUS
<1> HIDE DEF m, codes, record
<1> DEFINE added == FactsOf(place, codes)
<1>9. \A i \in DOMAIN added : added[i].capture = place
  BY <1>7 DEF FactsAt
<1> HIDE DEF added
<1>10. ASSUME \A i \in DOMAIN manifest.facts :
                manifest.facts[i].capture \in DOMAIN manifest.captures
       PROVE  \A i \in DOMAIN m.facts : m.facts[i].capture \in DOMAIN m.captures
  <2>1. added \in Seq(FactsAt(place)) /\ m.facts = manifest.facts \o added
    BY <1>3, <1>7 DEF added
  <2>2. \A i \in DOMAIN m.facts :
          \/ i \in DOMAIN manifest.facts /\ m.facts[i] = manifest.facts[i]
          \/ \E k \in DOMAIN added : m.facts[i] = added[k]
    BY <1>7, <2>1
  <2> QED
    BY <1>4, <1>9, <1>10, <2>2
<1>11. CASE manifest = EmptyManifest
  <2>1. /\ manifest.captures = <<>> /\ manifest.facts = <<>>
        /\ manifest.findings = <<>>
        /\ manifest.comparison = NoComparison /\ manifest.pair = NoPair
    BY <1>11 DEF EmptyManifest
  <2>2. \A i \in DOMAIN m.facts : m.facts[i].capture \in DOMAIN m.captures
    BY <1>10, <2>1
  <2>3. \A i \in DOMAIN m.captures : ValidCapture(m.captures[i])
    BY <1>4, <1>5, <2>1
  <2>4. ValidComparison(m.comparison, m.captures) /\ ValidPair(m)
    BY <1>3, <2>1 DEF ValidComparison, ValidPair
  <2>5. DOMAIN m.findings = {}
    BY <1>3, <2>1
  <2> QED
    BY <1>4, <1>8, <2>2, <2>3, <2>4, <2>5 DEF ValidManifest, m
<1>12. CASE ValidManifest(manifest)
  <2>1. \A i \in DOMAIN m.facts : m.facts[i].capture \in DOMAIN m.captures
    BY <1>10, <1>12 DEF ValidManifest
  <2>2. \A i \in DOMAIN m.captures : ValidCapture(m.captures[i])
    BY <1>4, <1>5, <1>12 DEF ValidManifest
  <2>3. \A i \in DOMAIN m.findings :
          /\ ValidFinding(m.findings[i])
          /\ \A ref \in m.findings[i].refs : RefersTo(ref, m.captures)
    BY <1>3, <1>4, <1>12 DEF ValidManifest, RefersTo
  <2>4. ValidComparison(m.comparison, m.captures) /\ ValidPair(m)
    BY <1>3, <1>4, <1>12 DEF ValidManifest, ValidComparison, ValidPair
  <2> QED
    BY <1>4, <1>8, <2>1, <2>2, <2>3, <2>4 DEF ValidManifest, m
<1> QED
  BY <1>11, <1>12 DEF RecordsInv, TypeOK

LEMMA ReviewedIsSound ==
  ASSUME RecordsInv, FactsInv, FindingsInv, NEW place \in DOMAIN manifest.captures,
         NEW answer \in Response \cup {NoResponse},
         WithinLimits(WithReviewOf(place,
                        About(answer, place, manifest.captures[place].image)))
  PROVE  ValidManifest(WithReviewOf(place,
                         About(answer, place, manifest.captures[place].image)))
<1> DEFINE c == manifest.captures[place]
           r == About(answer, place, c.image)
           m == WithReviewOf(place, r)
           kept == Kept(r, place, c.image)
           codes == DeterministicCodes(c.image, c.stale, FALSE)
<1>1. /\ kept \in Seq(ToSet(kept))
      /\ \A f \in ToSet(kept) :
           /\ ValidFinding(f)
           /\ \A ref \in f.refs :
                /\ ref.capture = place /\ ref.hash = c.image.hash
                /\ LiesWithin(ref, c.image.width)
  BY KeptWhole
<1>2. WithinLimits(m)
  OBVIOUS
<1> HIDE DEF r
<1>3. /\ m.captures = manifest.captures
      /\ m.facts = Without(manifest.facts, place) \o FactsOf(place, codes)
      /\ m.findings = Uncited(manifest.findings, place) \o kept
      /\ m.pair = manifest.pair /\ m.comparison = manifest.comparison
  BY ReviewedFields
<1>4. ValidManifest(manifest)
  <2>1. DOMAIN manifest.captures # {}
    OBVIOUS
  <2> QED
    BY <2>1 DEF RecordsInv, TypeOK, EmptyManifest
<1>5. codes \in Seq(Codes) /\ place \in Nat
  <2>1. manifest.captures \in Seq(Records)
    BY DEF RecordsInv, Formed
  <2>2. place \in Nat /\ c \in Records
    BY <2>1
  <2>3. c.image \in Image /\ c.stale \in BOOLEAN
    BY <2>2 DEF Records
  <2> QED
    BY <2>2, <2>3, CodesAreCodes
<1>6. FactsOf(place, codes) \in Seq(FactsAt(place))
  <2> HIDE DEF codes
  <2> QED
    BY <1>5, FactsOfTyped
<1> HIDE DEF m, kept, codes
<1>7. \A i \in DOMAIN m.facts : m.facts[i].capture \in DOMAIN m.captures
  <2> DEFINE w == Without(manifest.facts, place)
             s == manifest.facts
             added == FactsOf(place, codes)
  <2>1. s \in Seq(ToSet(s)) /\ ToSet(s) \subseteq Facts
    BY SeqOfElements DEF FactsInv
  <2>2. \A f \in ToSet(s) : f.capture \in DOMAIN manifest.captures
    BY <1>4 DEF ValidManifest, ToSet
  <2> HIDE DEF s
  <2>3. w \in Seq(ToSet(s) \cap {f \in ToSet(s) : f.capture # place})
    BY <2>1, RetainKeeps DEF Without, s
  <2> HIDE DEF w, added
  <2>4. /\ \A i \in DOMAIN w : w[i].capture \in DOMAIN manifest.captures
        /\ w \in Seq(ToSet(s))
    BY <2>2, <2>3
  <2>5. /\ \A i \in DOMAIN added : added[i].capture = place
        /\ added \in Seq(FactsAt(place))
    BY <1>6 DEF FactsAt, added
  <2>6. m.facts = w \o added
    BY <1>3 DEF w, added
  <2>7. \A i \in DOMAIN m.facts :
          \/ i \in DOMAIN w /\ m.facts[i] = w[i]
          \/ \E k \in DOMAIN added : m.facts[i] = added[k]
    BY <2>4, <2>5, <2>6
  <2> QED
    BY <1>3, <2>4, <2>5, <2>7
<1>8. \A i \in DOMAIN m.findings :
        /\ ValidFinding(m.findings[i])
        /\ \A ref \in m.findings[i].refs : RefersTo(ref, m.captures)
  <2> DEFINE s == manifest.findings
             w == Uncited(manifest.findings, place)
             good(f) == ValidFinding(f)
                          /\ \A ref \in f.refs : RefersTo(ref, manifest.captures)
  <2>1. s \in Seq(ToSet(s)) /\ \A f \in ToSet(s) : good(f)
    BY <1>4 DEF FindingsInv, ValidManifest, ToSet
  <2>2. \A f \in ToSet(kept) : good(f)
    BY <1>1 DEF RefersTo
  <2> HIDE DEF s
  <2>3. w \in Seq(ToSet(s) \cap {f \in ToSet(s) : ~Cites(f, place)})
    BY <2>1, RetainKeeps DEF Uncited, s
  <2>4. w \in Seq(ToSet(s))
    <3>1. ToSet(s) \cap {f \in ToSet(s) : ~Cites(f, place)} \subseteq ToSet(s)
      OBVIOUS
    <3> QED
      BY <2>3, <3>1, SeqMonotonic
  <2> HIDE DEF w
  <2>5. m.findings = w \o kept
    BY <1>3 DEF w
  <2>6. \A i \in DOMAIN m.findings : m.findings[i] \in ToSet(s) \cup ToSet(kept)
    <3>1. m.findings \in Seq(ToSet(s) \cup ToSet(kept))
      <4>1. w \in Seq(ToSet(s) \cup ToSet(kept))
        BY <2>4, SeqMonotonic
      <4>2. kept \in Seq(ToSet(s) \cup ToSet(kept))
        BY <1>1, SeqMonotonic
      <4> QED
        BY <2>5, <4>1, <4>2
    <3> QED
      BY <3>1
  <2>7. \A i \in DOMAIN m.findings : good(m.findings[i])
    <3> HIDE DEF good
    <3> QED
      BY <2>1, <2>2, <2>6
  <2> QED
    BY <1>3, <2>7
<1> QED
  BY <1>2, <1>3, <1>4, <1>7, <1>8
  DEF ValidManifest, ValidPair, m, r

LEMMA SelectedIsSound ==
  ASSUME RecordsInv, NEW before \in DOMAIN manifest.captures,
         NEW after \in DOMAIN manifest.captures, Select(before, after),
         WithinLimits(Selected(before, after))
  PROVE  ValidManifest(Selected(before, after))
<1> DEFINE m == Selected(before, after)
           b == manifest.captures[before]
           a == manifest.captures[after]
<1>1. /\ before # after
      /\ b.image.width = a.image.width /\ b.scale = a.scale
  BY DEF Select
<1>2. /\ m.captures = manifest.captures /\ m.facts = manifest.facts
      /\ m.findings = manifest.findings
      /\ m.pair = PairOf(before, after) /\ m.comparison = Measure(before, after)
      /\ WithinLimits(m)
  BY SelectedFields
<1> HIDE DEF m
<1>3. ValidManifest(manifest)
  <2>1. DOMAIN manifest.captures # {}
    OBVIOUS
  <2> QED
    BY <2>1 DEF RecordsInv, TypeOK, EmptyManifest
<1>4. ValidComparison(m.comparison, m.captures)
  BY <1>1, <1>2 DEF ValidComparison, Measure
<1>5. ValidPair(m)
  BY <1>1, <1>2 DEF ValidPair, PairOf
<1> QED
  BY <1>2, <1>3, <1>4, <1>5 DEF ValidManifest, m

\* A manifest that replaces and is refused only for its limits.
LEMMA RefusedWhenUnsound ==
  ASSUME RefusedForLimitsOnly, NEW m, Replace(m), WithinLimits(m) => ValidManifest(m)
  PROVE  RefusedForLimitsOnly'
  BY DEF Replace, RefusedForLimitsOnly

LEMMA RefusalsInductive ==
  RecordsInv /\ FactsInv /\ FindingsInv /\ RefusedForLimitsOnly /\ [Next]_vars
    => RefusedForLimitsOnly'
<1> SUFFICES ASSUME RecordsInv, FactsInv, FindingsInv, RefusedForLimitsOnly,
                    [Next]_vars
             PROVE  RefusedForLimitsOnly'
  OBVIOUS
<1>1. ASSUME NEW image \in Image, NEW stale \in BOOLEAN, NEW scale \in Scale,
             Capture(image, stale, scale)
      PROVE  RefusedForLimitsOnly'
  BY <1>1, Replacements, CapturedIsSound, RefusedWhenUnsound
<1>2. ASSUME NEW place \in DOMAIN manifest.captures,
             NEW answer \in Response \cup {NoResponse}, Review(place, answer)
      PROVE  RefusedForLimitsOnly'
  <2> DEFINE m == WithReviewOf(place,
                    About(answer, place, manifest.captures[place].image))
  <2>1. Replace(m)
    BY <1>2 DEF Review
  <2>2. WithinLimits(m) => ValidManifest(m)
    BY ReviewedIsSound
  <2> HIDE DEF m
  <2> QED
    BY <2>1, <2>2, RefusedWhenUnsound
<1>3. ASSUME NEW before \in DOMAIN manifest.captures,
             NEW after \in DOMAIN manifest.captures, Select(before, after)
      PROVE  RefusedForLimitsOnly'
  BY <1>3, Replacements, SelectedIsSound, RefusedWhenUnsound
<1>4. CASE UNCHANGED vars
  BY <1>4 DEF vars, RefusedForLimitsOnly
<1> QED
  BY <1>1, <1>2, <1>3, <1>4 DEF Next

\* Whatever an agent answers and whatever is captured, an operation fails by
\* the limits of the session alone: everything else that the manifest would be
\* refused for has been ruled out before (ReviewCoordinator::review,
\* select_before_after_inner, replace_manifest).
THEOREM OnlyLimitsRefuse == Spec => []RefusedForLimitsOnly
<1>1. Init => RefusedForLimitsOnly
  BY DEF Init, RefusedForLimitsOnly
<1> QED
  BY <1>1, Initially, Inductive, FactsInitially, FactsInductive,
     FindingsInitially, FindingsInductive, RefusalsInductive, PTL DEF Spec

============================================================================
