--------------------------- MODULE MCObjectStore ---------------------------
(***************************************************************************)
(* Instances of ObjectStore for TLC.                                       *)
(***************************************************************************)
EXTENDS ObjectStore, TLC

CONSTANTS b1, b2

\* Two chunks are the smallest number for which a stale append can cut off a
\* chunk it does not write again.
TwoChunks == [b \in Blobs |-> 2]
OneChunk == [b \in Blobs |-> 1]

\* A ciphertext of two chunks and one of one.
TwoAndOne == b1 :> 2 @@ b2 :> 1

\* Identifiers, tasks and devices are only compared.
StoreSymmetry ==
  Permutations(Uploads) \cup Permutations(Tasks) \cup Permutations(Devices)
=============================================================================
