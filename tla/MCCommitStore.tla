---------------------------- MODULE MCCommitStore ----------------------------
(***************************************************************************)
(* Instances of CommitStore for TLC.                                       *)
(***************************************************************************)
EXTENDS CommitIndex, TLC

CONSTANTS a, b, ka, kb

WorkerSymmetry == Permutations(Workers)

MCDevices == {a, b}
MCKeys == {ka, kb}
MCIdentities == {<<a, ka>>, <<a, kb>>, <<b, kb>>}
KeyOf == (a :> ka) @@ (b :> kb)

Commit(id, d, n, ps) ==
  [id |-> id, device |-> d, sequence |-> n, parents |-> ps, key |-> KeyOf[d]]

\* Two devices race for the root (9 and 8), fork below each root and merge.
\* Identifiers do not follow the order of creation, since they are hashes.
\* Record 7 exists with two signatures: a was registered again with key kb.
RaceRecords ==
  {Commit(9, a, 1, {}), Commit(8, b, 1, {}),
   Commit(7, a, 2, {9}), [Commit(7, a, 2, {9}) EXCEPT !.key = kb],
   Commit(6, b, 1, {9}), Commit(5, b, 2, {6, 7})}

\* A wider universe for a single worker: both roots, forks of forks, gaps in
\* a device's sequence, a commit before its parent and merges of three heads.
GraphRecords ==
  {Commit(9, a, 1, {}), Commit(8, b, 1, {}),
   Commit(4, a, 2, {9}), Commit(7, a, 2, {8}), Commit(5, b, 1, {9}),
   Commit(3, b, 2, {9}), Commit(6, a, 3, {4}), Commit(2, a, 3, {4, 5}),
   Commit(1, b, 3, {3, 4, 5}), Commit(10, a, 4, {2, 3})}
=============================================================================
