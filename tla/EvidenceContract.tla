-------------------------- MODULE EvidenceContract --------------------------
(***************************************************************************)
(* The records of a session's manifest and of an agent's response, and     *)
(* what their validation demands.  A capture is known by its place; an     *)
(* image by its hash, its width and what can be measured in it.  Heights   *)
(* are treated like widths, and left out.  Texts, identifiers, versions    *)
(* and numbers that are valid or not are one flag of their record.         *)
(***************************************************************************)
EXTENDS Naturals, Sequences, FiniteSets

CONSTANTS
  MaxCaptureCount,     \* MAX_CAPTURE_COUNT
  MaxFindings,         \* MAX_FINDINGS
  MaxAgentFindings,    \* MAX_AGENT_FINDINGS: of a response, and of a manifest
  MaxImageDimension,   \* MAX_IMAGE_DIMENSION
  MaxFrameBytes,       \* MAX_JSON_FRAME_BYTES
  RecordBytes          \* of one capture, fact, comparison or pair in JSON

ASSUME ContractAssumption ==
  {MaxCaptureCount, MaxFindings, MaxAgentFindings, MaxImageDimension,
   MaxFrameBytes, RecordBytes} \subseteq Nat

-----------------------------------------------------------------------------
\* Records

Ref(capture, hash, x, width) ==
  [capture |-> capture, hash |-> hash, x |-> x, width |-> width]

\* A fact that was measured, with the whole capture as its evidence.
Fact(capture, code) == [capture |-> capture, code |-> code]

NoComparison == [before |-> 0, after |-> 0, width |-> 0, changed |-> FALSE]
NoPair == [before |-> 0, after |-> 0, comparison |-> NoComparison]

EmptyManifest ==
  [captures |-> <<>>, facts |-> <<>>, findings |-> <<>>,
   comparison |-> NoComparison, pair |-> NoPair, producer |-> "surfacecheckd"]

\* How long the findings are together.
Length(findings) ==
  LET upTo[n \in 0..Len(findings)] ==
        IF n = 0 THEN 0 ELSE upTo[n - 1] + findings[n].bytes
  IN upTo[Len(findings)]

Cites(finding, capture) == \E ref \in finding.refs : ref.capture = capture

-----------------------------------------------------------------------------
\* Validate

ValidRegion(ref) == ref.width \in 1..MaxImageDimension

\* EvidenceRegion::validate_against, in u64: nothing overflows.
LiesWithin(ref, width) == ref.x + ref.width <= width

ValidFinding(f) ==
  /\ f.sound
  /\ f.refs # {}
  /\ \A ref \in f.refs : ValidRegion(ref)

ValidCapture(c) == c.image.width \in 1..MaxImageDimension

\* EvidenceManifest::validate_evidence_ref
RefersTo(ref, captures) ==
  /\ ref.capture \in DOMAIN captures
  /\ captures[ref.capture].image.hash = ref.hash
  /\ LiesWithin(ref, captures[ref.capture].image.width)

ValidComparison(k, captures) ==
  k # NoComparison =>
    /\ k.before # k.after
    /\ {k.before, k.after} \subseteq DOMAIN captures
    /\ \A i \in {k.before, k.after} : captures[i].image.width = k.width
    /\ captures[k.before].scale = captures[k.after].scale

ValidPair(m) ==
  m.pair # NoPair =>
    /\ m.pair.before # m.pair.after
    /\ {m.pair.before, m.pair.after} \subseteq DOMAIN m.captures
    /\ m.pair.comparison = m.comparison

\* How long a manifest is as JSON.
FrameBytes(m) ==
  RecordBytes * (Len(m.captures) + Len(m.facts)
                   + Cardinality({m.comparison} \ {NoComparison})
                   + Cardinality({m.pair} \ {NoPair}))
    + Length(m.findings)

\* The limits a manifest as a whole is kept to.
WithinLimits(m) ==
  /\ Len(m.captures) <= MaxCaptureCount
  /\ Len(m.facts) <= MaxFindings
  /\ Len(m.findings) <= MaxAgentFindings
  /\ FrameBytes(m) <= MaxFrameBytes

\* to_canonical_json of a manifest succeeds.
ValidManifest(m) ==
  /\ m.captures # <<>>
  /\ WithinLimits(m)
  /\ \A i \in DOMAIN m.captures : ValidCapture(m.captures[i])
  /\ \A i \in DOMAIN m.facts : m.facts[i].capture \in DOMAIN m.captures
  /\ \A i \in DOMAIN m.findings :
       /\ ValidFinding(m.findings[i])
       /\ \A ref \in m.findings[i].refs : RefersTo(ref, m.captures)
  /\ ValidComparison(m.comparison, m.captures)
  /\ ValidPair(m)

\* AgentReviewResponse::validate
ValidResponse(r) ==
  /\ Len(r.findings) <= MaxAgentFindings
  /\ \A i \in DOMAIN r.findings : ValidFinding(r.findings[i])
  /\ r.kind = "agent_review"
  /\ IF r.status = "success" THEN ~r.error ELSE r.error /\ r.findings = <<>>

-----------------------------------------------------------------------------
\* The coordinator's own checks of a response

DistinctIds(findings) ==
  \A i, j \in DOMAIN findings : findings[i].id = findings[j].id => i = j

\* The context is the one capture that is reviewed.
WithinContext(f, capture, image) ==
  \A ref \in f.refs :
    ref.capture = capture /\ ref.hash = image.hash
      /\ LiesWithin(ref, image.width)

\* validate_agent_response
AcceptsUnseen(r, capture, image) ==
  /\ ValidResponse(r) /\ r.answers
  /\ Length(r.findings) <= MaxFrameBytes
  /\ r.status = "success" => DistinctIds(r.findings)

Accepts(r, capture, image) ==
  /\ ValidResponse(r) /\ r.answers
  /\ Length(r.findings) <= MaxFrameBytes
  /\ r.status = "success" =>
       /\ DistinctIds(r.findings)
       /\ \A i \in DOMAIN r.findings :
            WithinContext(r.findings[i], capture, image)

============================================================================
