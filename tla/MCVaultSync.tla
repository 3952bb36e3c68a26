---------------------------- MODULE MCVaultSync ----------------------------
(***************************************************************************)
(* Instances of VaultSync for TLC.                                         *)
(***************************************************************************)
EXTENDS VaultSync, TLC

CONSTANTS p, q, c1, c2, c3, c4, c5, c6, c7, c8, c9, c10

AllEdits == {"create", "modify", "move", "delete"}

\* Every device has the note p, with content 0.
OneNote == 1 :> [path |-> p, hash |-> 0]
FromOneNote == {OneNote}
FromNoneOrOne == {Empty, OneNote}

\* Copies enough: TLC stops with an error when a device has no unused one.
TwoDevices == 1 :> {c1, c2, c3, c4, c5} @@ 2 :> {c6, c7, c8, c9, c10}

\* Two equal users, who do everything.
SharedPaths == 1 :> {p, q} @@ 2 :> {p, q}
EveryEdit == 1 :> AllEdits @@ 2 :> AllEdits

\* An author, who names the notes, and a reader, who corrects them.
AuthorPaths == 1 :> {p, q} @@ 2 :> {}
AuthorEdits == 1 :> {"create", "modify", "move"} @@ 2 :> {"modify"}
=============================================================================
