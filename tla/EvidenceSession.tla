-------------------------- MODULE EvidenceSession --------------------------
(***************************************************************************)
(* The evidence manifest of a session as its clients may think of it: one  *)
(* value, and operations that change it one after the other, each applied  *)
(* to what the one before left.  The detailed daemon, whose handlers read, *)
(* compute and write in steps among other threads, is shown to implement   *)
(* this (SurfaceRuntime).                                                  *)
(***************************************************************************)
EXTENDS Naturals, Sequences

CONSTANTS
  Image,          \* what can be captured
  Note,           \* the notes users write,
  NoNote,         \* and the absence of one
  MaxCaptures     \* config.max_captures

VARIABLE evidence \* the manifest

\* Captures are named by their place, which capture ids begin with: 1, 2...
Index == 1..MaxCaptures
Pair == {p \in Index \X Index : p[1] # p[2]}

\* found: the captures with agent findings; pair: the before/after selection.
Evidence ==
  [captures : Seq(Image), note : Note, found : SUBSET Index, pair : SUBSET Pair]

NoEvidence == [captures |-> <<>>, note |-> NoNote, found |-> {}, pair |-> {}]

\* One capture more; a note given with it replaces the one of the session.
WithCapture(m, image, note) ==
  [m EXCEPT !.captures = Append(@, image),
            !.note = IF note = NoNote THEN @ ELSE note]

\* A review drops the agent findings on its capture, and adds those it got.
WithReview(m, i, agreed) ==
  [m EXCEPT !.found = (@ \ {i}) \cup (IF agreed THEN {i} ELSE {})]

WithNote(m, note) == [m EXCEPT !.note = note]

WithPair(m, before, after) == [m EXCEPT !.pair = {<<before, after>>}]

SessionInit == evidence = NoEvidence

Captured ==
  \E image \in Image, note \in Note :
    /\ Len(evidence.captures) < MaxCaptures
    /\ evidence' = WithCapture(evidence, image, note)

Reviewed ==
  \E i \in DOMAIN evidence.captures, agreed \in BOOLEAN :
    evidence' = WithReview(evidence, i, agreed)

Annotated ==
  \E note \in Note \ {NoNote} : evidence' = WithNote(evidence, note)

Selected ==
  \E before, after \in DOMAIN evidence.captures :
    /\ before # after
    /\ evidence' = WithPair(evidence, before, after)

SessionNext == Captured \/ Reviewed \/ Annotated \/ Selected

SessionSpec == SessionInit /\ [][SessionNext]_evidence

============================================================================
