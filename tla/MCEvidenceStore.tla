-------------------------- MODULE MCEvidenceStore --------------------------
(***************************************************************************)
(* The store with two images, two notes and room for two captures.  The    *)
(* journal bound lets two captures and a revision through and bites in the *)
(* middle of what follows; the bundle bound leaves room for two captures   *)
(* and a manifest that a failure leaves behind, but not for an image.      *)
(***************************************************************************)
EXTENDS EvidenceStore

Symmetry == Permutations(Image)

============================================================================
