------------------------- MODULE MCRequestPatchLoop -------------------------
(***************************************************************************)
(* All bodies of at most MaxOps operations, over two values.               *)
(***************************************************************************)
EXTENDS RequestPatchLoop, SequencesExt

CONSTANT MaxOps

MCBodies == BoundedSeq(PatchOps, MaxOps)

=============================================================================
