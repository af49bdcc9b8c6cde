--------------------------- MODULE ReviewRecords ---------------------------
(***************************************************************************)
(* What captures, reviews and comparisons write into the manifest: facts   *)
(* measured in the images, the findings of an agent, and the pair that was *)
(* selected.  Each operation reads the manifest, makes another one of it,  *)
(* validates that, and replaces it.  Operations do not overlap, which is   *)
(* module SurfaceRuntime's concern; here is what they write.               *)
(***************************************************************************)
EXTENDS EvidenceContract, Lists

CONSTANTS
  Image,          \* [hash, width, look]
  Scale,
  Response,       \* what an agent may answer: [answers, kind, status, error,
                  \* findings], where a finding cites one of Citations
  MaxReviews      \* bound: the reviews of a session

ASSUME ReviewAssumption ==
  /\ \A i \in Image : /\ i.look \in {"blank", "transparent", "plain", "edged"}
                       /\ i.width \in 1..MaxImageDimension
  /\ \A r \in Response : /\ "findings" \in DOMAIN r
                          /\ r.findings \in Seq(ToSet(r.findings))
  /\ MaxReviews \in Nat

VARIABLES
  manifest,
  reviews,        \* how many reviews there have been
  refused,        \* the manifest that was refused last, by its validation
  reviewed,       \* history: the captures reviewed since they were taken
  accepted        \* history: what the agent answered about each capture when
                  \* it was last reviewed, if that was accepted

vars == <<manifest, reviews, refused, reviewed, accepted>>

Places == 1..MaxCaptureCount

Init ==
  /\ manifest = EmptyManifest
  /\ reviews = 0
  /\ refused = EmptyManifest
  /\ reviewed = {}
  /\ accepted = [i \in Places |-> <<>>]

ReplaceUnchecked(m) == manifest' = m /\ refused' = EmptyManifest

\* The manifest is replaced, or nothing happens and the operation fails.
Replace(m) ==
  IF ValidManifest(m)
  THEN manifest' = m /\ refused' = EmptyManifest
  ELSE manifest' = manifest /\ refused' = m

Replaced(m) == ValidManifest(m)

-----------------------------------------------------------------------------
\* deterministic_findings

\* The facts that can be seen in the image, in the order of the code.
LookCodes(look) ==
  CASE look = "blank" ->
         <<"empty_capture", "fully_transparent", "contrast_measurement">>
    [] look = "transparent" -> <<"fully_transparent", "contrast_measurement">>
    [] look = "plain" -> <<"contrast_measurement">>
    [] look = "edged" -> <<"contrast_measurement", "boundary_contact">>

StaleUnmarked(stale) == <<>>
StaleCodes(stale) == IF stale THEN <<"stale_capture">> ELSE <<>>

\* The dimensions are those expected: the image is that of the record.
DeterministicCodes(image, stale, duplicate) ==
  LookCodes(image.look) \o StaleCodes(stale)
    \o (IF duplicate THEN <<"duplicate_capture">> ELSE <<>>)

FactsOf(place, codes) == [i \in DOMAIN codes |-> Fact(place, codes[i])]

RepeatsEarlier(m, place, image) ==
  \E i \in DOMAIN m.captures : i < place /\ m.captures[i].image = image

-----------------------------------------------------------------------------
\* RuntimeService::publish_capture

Capture(image, stale, scale) ==
  LET place == Len(manifest.captures) + 1
      codes == DeterministicCodes(image, stale,
                                  RepeatsEarlier(manifest, place, image))
      record == [image |-> image, stale |-> stale, scale |-> scale]
      facts == manifest.facts \o FactsOf(place, codes)
  IN /\ Len(manifest.captures) < MaxCaptureCount
     /\ Len(facts) <= MaxFindings
     /\ Replace([manifest EXCEPT !.captures = Append(@, record),
                                 !.facts = facts,
                                 !.producer = "surfacecheckd"])
     /\ UNCHANGED <<reviews, reviewed, accepted>>

-----------------------------------------------------------------------------
\* review_capture

\* What a finding may point at: the capture, a part that is not all in it,
\* nothing, another capture, or other contents.
Citations == {"whole", "beyond", "nothing", "other", "changed"}

Cited(citation, place, image) ==
  CASE citation = "whole" -> Ref(place, image.hash, 0, image.width)
    [] citation = "beyond" -> Ref(place, image.hash, 1, image.width)
    [] citation = "nothing" -> Ref(place, image.hash, 0, 0)
    [] citation = "other" -> Ref(IF place = 1 THEN 2 ELSE 1, image.hash, 0, 1)
    [] citation = "changed" -> Ref(place, "changed", 0, image.width)

\* The response with its citations resolved, as the adapter gives it.
About(r, place, image) ==
  [r EXCEPT !.findings =
     [i \in DOMAIN r.findings |->
        [id |-> r.findings[i].id, sound |-> r.findings[i].sound,
         bytes |-> r.findings[i].bytes,
         refs |-> {Cited(r.findings[i].cites, place, image)}]]]

\* Every way in which the coordinator has no response: none was asked for, no
\* adapter or one of another version, its failure, or a cancellation.
NoResponse == [answers |-> FALSE, kind |-> "none", status |-> "error",
               error |-> TRUE, findings |-> <<>>]

\* The findings that are kept: all of an accepted response that succeeded.
KeptValid(r, place, image) ==
  Retain(r.findings, {f \in ToSet(r.findings) :
                        ValidFinding(f) /\ WithinContext(f, place, image)})

Kept(r, place, image) ==
  IF Accepts(r, place, image) /\ r.status = "success" THEN r.findings ELSE <<>>

Without(s, place) == Retain(s, {f \in ToSet(s) : f.capture # place})
Uncited(s, place) == Retain(s, {f \in ToSet(s) : ~Cites(f, place)})

\* What was measured in the capture is measured again, what the agent said of
\* it is dropped, and its new answer takes the place.  Whether the capture
\* repeats an earlier one is not looked at again.
WithReviewOf(place, r) ==
  LET c == manifest.captures[place]
      kept == Kept(r, place, c.image)
      facts == FactsOf(place, DeterministicCodes(c.image, c.stale, FALSE))
  IN [manifest EXCEPT
        !.facts = Without(@, place) \o facts,
        !.findings = Uncited(@, place) \o kept,
        !.producer = IF Accepts(r, place, c.image) /\ r.status = "success"
                     THEN "agent" ELSE @]

Review(place, answer) ==
  LET image == manifest.captures[place].image
      r == About(answer, place, image)
      m == WithReviewOf(place, r)
  IN /\ reviews < MaxReviews
     /\ reviews' = reviews + 1
     /\ Len(m.facts) <= MaxFindings
     /\ Replace(m)
     /\ IF Replaced(m)
        THEN /\ reviewed' = reviewed \cup {place}
             /\ accepted' = [accepted EXCEPT ![place] =
                  IF Accepts(r, place, image) THEN r.findings ELSE <<>>]
        ELSE UNCHANGED <<reviewed, accepted>>

-----------------------------------------------------------------------------
\* select_before_after_inner

\* compare: the order of the two is part of the comparison's identity.
Measure(before, after) ==
  [before |-> before, after |-> after,
   width |-> manifest.captures[before].image.width,
   changed |-> manifest.captures[before].image # manifest.captures[after].image]

PairReversed(before, after) ==
  [before |-> after, after |-> before, comparison |-> Measure(before, after)]

PairOf(before, after) ==
  [before |-> before, after |-> after, comparison |-> Measure(before, after)]

\* Captures of different sizes or scales are not compared.
Select(before, after) ==
  LET b == manifest.captures[before]
      a == manifest.captures[after]
  IN /\ before # after
     /\ b.image.width = a.image.width
     /\ b.scale = a.scale
     /\ Replace([manifest EXCEPT !.comparison = Measure(before, after),
                                 !.pair = PairOf(before, after)])
     /\ UNCHANGED <<reviews, reviewed, accepted>>

Next ==
  \/ \E image \in Image, stale \in BOOLEAN, scale \in Scale :
       Capture(image, stale, scale)
  \/ \E place \in DOMAIN manifest.captures :
       \E answer \in Response \cup {NoResponse} : Review(place, answer)
  \/ \E before, after \in DOMAIN manifest.captures : Select(before, after)

Spec == Init /\ [][Next]_vars

-----------------------------------------------------------------------------
\* Properties

\* Every variable stays in its range, and what is stored reads back: it is
\* valid, as the next operation that reads it demands.
TypeOK ==
  /\ manifest = EmptyManifest \/ ValidManifest(manifest)
  /\ DOMAIN manifest = DOMAIN EmptyManifest
  /\ manifest.producer \in {"surfacecheckd", "agent"}
  /\ reviews \in 0..MaxReviews
  /\ reviewed \subseteq DOMAIN manifest.captures
  /\ DOMAIN accepted = Places

Holding(s, place) == Retain(s, {f \in ToSet(s) : f.capture = place})
Citing(s, place) == Retain(s, {f \in ToSet(s) : Cites(f, place)})

\* After any sequence of captures and reviews the facts about a capture are
\* those that can be measured in it, each once; above all a stale capture is
\* never without its mark.  That it repeats an earlier one is said until it is
\* reviewed, and not again.
FactsMeasured ==
  \A place \in DOMAIN manifest.captures :
    LET c == manifest.captures[place]
        repeats == /\ RepeatsEarlier(manifest, place, c.image)
                   /\ place \notin reviewed
        facts == Holding(manifest.facts, place)
    IN /\ Len(facts) = Cardinality({facts[i].code : i \in DOMAIN facts})
       /\ {facts[i].code : i \in DOMAIN facts} =
            {LookCodes(c.image.look)[i] : i \in DOMAIN LookCodes(c.image.look)}
              \cup (IF c.stale THEN {"stale_capture"} ELSE {})
              \cup (IF repeats THEN {"duplicate_capture"} ELSE {})

\* An agent's response counts as a whole or not at all: the findings stored
\* about a capture are all those of the answer to its last review, in their
\* order, under different names and about that capture alone, or there are none.
WholeResponse ==
  \A place \in DOMAIN manifest.captures :
    LET findings == Citing(manifest.findings, place)
    IN /\ findings = accepted[place]
       /\ DistinctIds(findings)
       /\ \A i \in DOMAIN findings :
            \A ref \in findings[i].refs : ref.capture = place

\* An agent cannot make a review fail: whatever it answers, the coordinator
\* has refused before the manifest would be, unless it is the limits that the
\* findings about all captures together exceed.
RefusedForLimitsOnly == refused # EmptyManifest => ~WithinLimits(refused)

\* The pair that is shown as before and after is the one that was measured, in
\* that order, and the two were comparable; later captures and reviews leave
\* that so.
PairIsMeasured ==
  manifest.pair # NoPair =>
    LET before == manifest.captures[manifest.pair.before]
        after == manifest.captures[manifest.pair.after]
    IN /\ manifest.comparison = Measure(manifest.pair.before,
                                        manifest.pair.after)
       /\ manifest.pair.comparison = manifest.comparison
       /\ before.image.width = after.image.width
       /\ before.scale = after.scale

============================================================================
