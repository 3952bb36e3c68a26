----------------------------- MODULE PullMerge -----------------------------
(***************************************************************************)
(* The first half of a synchronization (plugin/src/sync/pull.ts): the      *)
(* heads of the server are merged into one snapshot, the snapshot is       *)
(* applied to the vault one object after the other, and then it becomes    *)
(* the device's records.                                                   *)
(*                                                                         *)
(* How the commits are downloaded and verified is the subject of           *)
(* CommitFeed.  The Markdown record that is written beside each conflict   *)
(* copy is left out.                                                       *)
(***************************************************************************)
EXTENDS SyncState, FiniteSetsExt

----------------------------------------------------------------------------
\* The snapshot the heads select.

\* loadSnapshot: the path is the one that was encrypted.
Snapshot(id) ==
  LET manifest == commits[id].manifest IN
  [o \in DOMAIN manifest |-> [manifest[o] EXCEPT !.path = manifest[o].name]]

\* compareCommitPriority: the Lamport time, then the identifier.
Below(left, right) ==
  \/ commits[left].lamport < commits[right].lamport
  \/ /\ commits[left].lamport = commits[right].lamport
     /\ \/ left[1] < right[1]
        \/ left[1] = right[1] /\ left[2] < right[2]

Highest(ids) == CHOOSE id \in ids : \A other \in ids \ {id} : Below(other, id)

\* nearestCommonAncestor, as a snapshot; empty without a common ancestor.
BaseOf(heads) ==
  LET common == {id \in DOMAIN commits : \A head \in heads : id \in commits[head].past} IN
  IF common = {} THEN Empty ELSE Snapshot(Highest(common))

\* selectEntries, for one object: the entries of the heads that bear it, and
\* those of them that differ from the base.
Bearers(heads, o) == {head \in heads : o \in DOMAIN commits[head].manifest}
Variants(heads, o) == {Snapshot(head)[o] : head \in Bearers(heads, o)}
Changed(base, variants, o) ==
  IF o \in DOMAIN base THEN variants \ {base[o]} ELSE variants

\* An entry that several heads share counts for the last of them.
LastBearer(heads, o, entry) ==
  LET same == {head \in Bearers(heads, o) : Snapshot(head)[o] = entry} IN
  CHOOSE head \in same :
    \A other \in same \ {head} :
      other[1] < head[1] \/ (other[1] = head[1] /\ other[2] < head[2])

\* Among the changed entries, or else all, the one from the highest head.
Winner(heads, o, candidates) ==
  CHOOSE entry \in candidates :
    \A other \in candidates \ {entry} :
      Below(LastBearer(heads, o, other), LastBearer(heads, o, entry))

\* The choice for an object: its winner and the changed entries that lost.
Choice(heads, base, o) ==
  LET variants == Variants(heads, o)
      changed == Changed(base, variants, o)
      winner == IF variants = {} THEN base[o]
                ELSE Winner(heads, o, IF changed = {} THEN variants ELSE changed)
  IN [selected |-> winner, conflicts |-> changed \ {winner}]

\* Mutant of SelectEntries: an object that only one side knows is skipped.
SelectEntriesShared(heads) ==
  LET base == BaseOf(heads) IN
  [o \in {x \in Objects : Bearers(heads, x) = heads} |-> Choice(heads, base, o)]

\* Every object of the base or of a head.
SelectEntries(heads) ==
  LET base == BaseOf(heads) IN
  [o \in DOMAIN base \cup UNION {DOMAIN commits[head].manifest : head \in heads} |->
     Choice(heads, base, o)]

Selected(heads) ==
  LET choices == SelectEntries(heads) IN
  [o \in DOMAIN choices |-> choices[o].selected]

----------------------------------------------------------------------------
\* What applying an entry makes of the files.  Every operator takes what is
\* there now, files, and what the scan saw, local, which is not kept up to
\* date while the entries are applied.

\* The time in its name makes the path of a copy a new one, which the scan did not see.
UnusedCopies(d, files) ==
  {copy \in Copies[d] :
     /\ files[copy] = None
     /\ run[d].local[copy] = None
     /\ \A o \in DOMAIN run[d].selected : run[d].selected[o].path # copy
     /\ \A o \in DOMAIN state[d].records : state[d].records[o].path # copy}

\* preserveBytes.
WithCopy(d, files, content) ==
  [files EXCEPT ![CHOOSE copy \in UnusedCopies(d, files) : TRUE] = content]

\* preserveRemoteConflict for entries, each in a copy of its own: a tombstone has nothing
\* to preserve.
WithCopies(d, files, entries) ==
  LET kept == {entry \in entries : ~entry.tombstone}
      copy == CHOOSE c \in [kept -> UnusedCopies(d, files)] : IsInjective(c)
  IN [f \in Files |->
        IF \E entry \in kept : copy[entry] = f
        THEN (CHOOSE entry \in kept : copy[entry] = f).hash
        ELSE files[f]]

Without(files, f) == [files EXCEPT ![f] = None]

\* A local version that gives way: preserveLocalConflict and remove.
Moved(d, files, local, f) == Without(WithCopy(d, files, local[f]), f)

\* locateLocal: the file at the recorded path, or else the only file with the
\* recorded content.
Located(local, record) ==
  LET matches == {f \in Files : local[f] = record.hash} IN
  IF local[record.path] # None THEN record.path
  ELSE IF Cardinality(matches) = 1 THEN CHOOSE f \in matches : TRUE
  ELSE None

Unchanged(local, record, f) == f = record.path /\ local[f] = record.hash

Done(files) == [files |-> files, thrown |-> FALSE]

\* applyRemoteWinner to the local file f.
WinnerApplied(d, files, local, f, remote) ==
  LET target == remote.path
      cleared == IF local[target] # None THEN Moved(d, files, local, target) ELSE files
  IN
  IF target = f THEN Done([files EXCEPT ![f] = remote.hash])
  ELSE IF local[target] = None /\ files[target] # None
       THEN Done(WithCopy(d, files, remote.hash))
  ELSE IF cleared[f] = None THEN [files |-> cleared, thrown |-> TRUE]
  ELSE Done([Without(cleared, f) EXCEPT ![target] = remote.hash])

\* Mutant of TombstoneApplied: an unchanged file is kept as a copy as well.
TombstoneAppliedKept(d, files, local, record, f) ==
  IF f = None THEN files ELSE Moved(d, files, local, f)

TombstoneApplied(d, files, local, record, f) ==
  IF f = None THEN files
  ELSE IF Unchanged(local, record, f) THEN Without(files, f)
  ELSE Moved(d, files, local, f)

\* An object without a record.
CreationApplied(d, files, local, remote) ==
  IF local[remote.path] # None
  THEN [Moved(d, files, local, remote.path) EXCEPT ![remote.path] = remote.hash]
  ELSE IF files[remote.path] # None THEN WithCopy(d, files, remote.hash)
  ELSE [files EXCEPT ![remote.path] = remote.hash]

\* sameAsBase: blobs that differ do not count.
SameAsRecord(remote, record) ==
  /\ remote.path = record.path
  /\ remote.revision = record.revision
  /\ remote.hash = record.hash
  /\ remote.tombstone = record.tombstone

\* Both sides changed a note that has stayed where it is.  Contents are notes of one line,
\* on which mergeText has no more to offer than the choice between equal or unchanged sides.
MergesInPlace(local, record, f, remote) ==
  /\ f = record.path
  /\ remote.path = record.path
  /\ ~record.tombstone
  /\ remote.hash \in {local[f], record.hash}

\* An object whose file was changed here and elsewhere.
ChangesApplied(d, files, local, record, f, remote) ==
  IF MergesInPlace(local, record, f, remote)
  THEN Done([files EXCEPT ![f] = local[f]])
  ELSE WinnerApplied(d, WithCopy(d, files, local[f]), local, f, remote)

\* applyEntry for an object with a record.
EntryApplied(d, files, local, record, remote) ==
  LET f == Located(local, record) IN
  IF remote.tombstone THEN Done(TombstoneApplied(d, files, local, record, f))
  ELSE IF f = None
  THEN Done(IF SameAsRecord(remote, record) THEN files ELSE WithCopy(d, files, remote.hash))
  ELSE IF Unchanged(local, record, f) THEN WinnerApplied(d, files, local, f, remote)
  ELSE IF SameAsRecord(remote, record) THEN Done(files)
  ELSE ChangesApplied(d, files, local, record, f, remote)

Applied(d, files, local, o, remote) ==
  LET records == state[d].records IN
  IF o \in DOMAIN records THEN EntryApplied(d, files, local, records[o], remote)
  ELSE Done(IF remote.tombstone THEN files ELSE CreationApplied(d, files, local, remote))

----------------------------------------------------------------------------
\* The files between two of the writes of one entry, which applyEntry awaits one by one: a
\* file that gives way is copied, then removed, then another is renamed, then written.

\* A path without a file leaves nothing to copy, to remove or to rename: then these are the
\* files before.
WinnerHalfway(d, files, local, f, remote) ==
  LET target == remote.path
      cleared == IF local[target] # None THEN Moved(d, files, local, target) ELSE files
  IN
  IF target = f \/ (local[target] = None /\ files[target] # None) THEN {}
  ELSE {WithCopy(d, files, local[target]), cleared,
        [Without(cleared, f) EXCEPT ![target] = cleared[f]]}

EntryHalfway(d, files, local, record, remote) ==
  LET f == Located(local, record)
      copied == WithCopy(d, files, local[f])
  IN
  IF f = None \/ (remote.tombstone /\ Unchanged(local, record, f)) THEN {}
  ELSE IF remote.tombstone THEN {copied}
  ELSE IF Unchanged(local, record, f) THEN WinnerHalfway(d, files, local, f, remote)
  ELSE IF SameAsRecord(remote, record) \/ MergesInPlace(local, record, f, remote) THEN {}
  ELSE {copied} \cup WinnerHalfway(d, copied, local, f, remote)

\* Mutant of CreationHalfway: the file is removed before its copy is made.
CreationHalfwaySwapped(d, files, local, remote) ==
  IF remote.tombstone \/ local[remote.path] = None THEN {}
  ELSE {Without(files, remote.path), Moved(d, files, local, remote.path)}

CreationHalfway(d, files, local, remote) ==
  IF remote.tombstone \/ local[remote.path] = None THEN {}
  ELSE {WithCopy(d, files, local[remote.path]), Moved(d, files, local, remote.path)}

\* The entry of the object o, and then the copies of the entries that lost, of which some
\* are made.
BetweenWrites(d, files, o) ==
  LET local == run[d].local
      records == state[d].records
      remote == run[d].selected[o]
      applied == Applied(d, files, local, o, remote)
  IN
  (IF o \in DOMAIN records THEN EntryHalfway(d, files, local, records[o], remote)
   ELSE CreationHalfway(d, files, local, remote))
  \cup
  (IF applied.thrown THEN {}
   ELSE {WithCopies(d, applied.files, some) : some \in SUBSET run[d].conflicts[o]})

----------------------------------------------------------------------------
\* PullEngine.pullVerified.

\* Everything up to scanLocal, against an unchanging server.  A snapshot that
\* gives one path to two objects is refused.
PullStart(d) ==
  LET heads == ServerHeads(commits)
      choices == SelectEntries(heads)
      selected == Selected(heads)
  IN
  /\ run[d].phase = "idle"
  /\ IF heads = {}
     THEN /\ state' = [state EXCEPT ![d] = [@ EXCEPT !.initialized = TRUE, !.heads = {}]]
          /\ Advance(d, [Idle EXCEPT !.phase = "pulled"])
     ELSE /\ PathsUnique(selected)
          /\ Advance(d, [Idle EXCEPT !.phase = "applying", !.local = vault[d],
                                     !.selected = selected,
                                     !.conflicts = [o \in DOMAIN choices |-> choices[o].conflicts],
                                     !.todo = DOMAIN choices,
                                     !.heads = heads])
          /\ UNCHANGED state
  /\ UNCHANGED <<commits, drawn, vault>>

\* applyEntry of the next object in the order of the identifiers, and the
\* copies of the entries that lost.
ApplyEntry(d) ==
  LET o == Min(run[d].todo)
      applied == Applied(d, vault[d], run[d].local, o, run[d].selected[o])
  IN
  /\ run[d].phase = "applying"
  /\ run[d].todo # {}
  /\ IF applied.thrown
     THEN /\ vault' = [vault EXCEPT ![d] = applied.files]
          /\ Advance(d, Idle)
     ELSE /\ vault' = [vault EXCEPT ![d] = WithCopies(d, applied.files, run[d].conflicts[o])]
          /\ Advance(d, [run[d] EXCEPT !.todo = @ \ {o}])
  /\ UNCHANGED <<commits, drawn, state>>

\* Mutant of PullSave: the Lamport time of the commits is not taken over.
PullSaveStill(d) ==
  LET s == state[d]
      known == UNION {commits[id].past : id \in run[d].heads}
  IN
  /\ run[d].phase = "applying"
  /\ run[d].todo = {}
  /\ state' = [state EXCEPT ![d] =
       [s EXCEPT !.initialized = TRUE, !.known = known, !.heads = run[d].heads,
                 !.records = run[d].selected]]
  /\ Advance(d, [Idle EXCEPT !.phase = "pulled"])
  /\ UNCHANGED <<commits, drawn, vault>>

\* The new state.  Pending operations and a prepared commit stay.
PullSave(d) ==
  LET s == state[d]
      known == UNION {commits[id].past : id \in run[d].heads}
  IN
  /\ run[d].phase = "applying"
  /\ run[d].todo = {}
  /\ state' = [state EXCEPT ![d] =
       [s EXCEPT !.initialized = TRUE, !.known = known, !.heads = run[d].heads,
                 !.lamport = Max({@} \cup {commits[id].lamport : id \in known}),
                 !.records = run[d].selected]]
  /\ Advance(d, [Idle EXCEPT !.phase = "pulled"])
  /\ UNCHANGED <<commits, drawn, vault>>

PullStep(d) ==
  \/ PullStart(d)
  \/ ApplyEntry(d)
  \/ PullSave(d)
=============================================================================
