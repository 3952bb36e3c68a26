---------------------------- MODULE MCCommitFeed ----------------------------
(***************************************************************************)
(* Instances of CommitFeed for TLC.                                        *)
(***************************************************************************)
EXTENDS CommitFeed, TLC

CONSTANTS a, b, ka, kb

MCDevices == {a, b}
MCKeys == {ka, kb}
MCIdentities == {<<a, ka>>, <<b, kb>>}
KeyOf == (a :> ka) @@ (b :> kb)

Commit(id, d, n, ps) ==
  [id |-> id, device |-> d, sequence |-> n, parents |-> ps, key |-> KeyOf[d]]

\* A fork and a merge, in which the children have the smaller identifiers.
ForkRecords ==
  {Commit(9, a, 1, {}), Commit(4, a, 2, {9}), Commit(5, b, 1, {9}),
   Commit(3, a, 3, {4, 5})}
=============================================================================
