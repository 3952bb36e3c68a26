-------------------------- MODULE VaultContentsProofs --------------------------
(***************************************************************************)
(* No synchronization takes a content out of a vault that is not kept in   *)
(* another file or in the history, proved for every set of devices, files  *)
(* and objects.  A conflict copy must find an unused name: in the code it  *)
(* is made of the time and of a number that goes up until the name is free *)
(* (preserveBytes, uniquePath), so names never run out, which is to say    *)
(* that the copies of a device are infinitely many.                        *)
(***************************************************************************)
EXTENDS VaultSyncProofs

\* The contents that the records of objects have are published.
Known(records, objects, published) ==
  \A o \in DOMAIN records \cap objects : records[o].hash \in published

Buried(records) == {o \in DOMAIN records : records[o].tombstone}

\* In the files that the scan saw there is what it saw, nothing, or what is published.
Follows(files, local, published) ==
  \A f \in Files : local[f] # None => files[f] \in {local[f], None} \cup published

\* What a device with state s and synchronization r may drop from its files is published: its
\* records, what it has selected, and what it is going to delete; the files that it scanned
\* have been changed to published contents only.
Kept(s, r, files, published) ==
  /\ IsFiniteSet(Existing(files))
  /\ Known(s.records, Objects, published)
  /\ s.prepared # None =>
       Known(s.prepared.commit.manifest, Buried(s.prepared.commit.manifest), published)
  /\ r.phase = "applying" =>
       /\ IsFiniteSet(Existing(r.local))
       /\ Known(r.selected, Objects, published)
       /\ \A o \in DOMAIN r.conflicts : IsFiniteSet(r.conflicts[o])
       /\ Follows(files, r.local, published)
  /\ r.phase = "preparing" => Known(r.records, Buried(r.records) \cup r.todo, published)

\* The inductive invariant, together with SyncInv and HistoryInv.
ContentInv ==
  /\ IsFiniteSet(DOMAIN commits)
  /\ IsFiniteSet(drawn)
  /\ \A id \in DOMAIN commits : Known(commits[id].manifest, Objects, Published)
  /\ \A d \in Devices : Kept(state[d], run[d], vault[d], Published)

----------------------------------------------------------------------------
\* Finite and infinite sets.

\* The values of a function on a finite set are finitely many.
LEMMA FiniteImage ==
  ASSUME NEW S, IsFiniteSet(S), NEW f, S = DOMAIN f, f = [x \in S |-> f[x]]
  PROVE  IsFiniteSet({f[x] : x \in S})
<1> DEFINE T == {f[x] : x \in S}
<1>1. f \in Surjection(S, T)
  BY DEF Surjection
<1>2. QED
  BY <1>1, FS_Surjection

\* There are names for finitely many things among infinitely many.
LEMMA NamesForAll ==
  ASSUME NEW S, IsFiniteSet(S), NEW T, ~IsFiniteSet(T)
  PROVE  \E c \in [S -> T] : IsInjective(c)
<1> DEFINE Named(U) == \E c \in [U -> T] : IsInjective(c)
           sizes == {n \in Nat : \E U \in SUBSET S : Cardinality(U) = n /\ ~Named(U)}
<1>1. \A U \in SUBSET S : IsFiniteSet(U) /\ Cardinality(U) \in Nat
  BY FS_Subset, FS_CardinalityType
<1>2. ASSUME ~Named(S)
      PROVE  FALSE
  <2>1. Cardinality(S) \in sizes
    BY <1>1, <1>2
  <2> DEFINE n == Min(sizes)
  <2>2. n \in sizes /\ \A m \in sizes : n <= m
    BY <2>1, Least
  <2>3. PICK U \in SUBSET S : Cardinality(U) = n /\ ~Named(U)
    BY <2>2
  <2> HIDE DEF n
  <2>4. U # {}
    <3>1. ASSUME U = {}
          PROVE  Named(U)
      <4>1. [x \in {} |-> x] \in [{} -> T] /\ IsInjective([x \in {} |-> x])
        BY DEF IsInjective
      <4>2. QED
        BY <3>1, <4>1
    <3>2. QED
      BY <2>3, <3>1
  <2>5. PICK x \in U : TRUE
    BY <2>4
  <2> DEFINE V == U \ {x}
  <2>6. V \in SUBSET S /\ Cardinality(V) = n - 1 /\ n - 1 \in Nat /\ n \in Nat
    <3>1. Cardinality(V) = Cardinality(U) - 1
      BY <1>1, <2>5, FS_RemoveElement
    <3>2. V \in SUBSET S /\ Cardinality(V) \in Nat
      BY <1>1
    <3>3. QED
      BY <2>2, <2>3, <3>1, <3>2
  <2>7. Named(V)
    <3>1. n - 1 \notin sizes
      BY <2>2, <2>6
    <3>2. QED
      BY <2>6, <3>1
  <2>8. PICK c \in [V -> T] : IsInjective(c)
    BY <2>7
  <2>9. IsFiniteSet({c[y] : y \in V})
    BY <1>1, <2>6, FiniteImage
  <2>10. PICK t \in T : t \notin {c[y] : y \in V}
    <3>1. ~ (T \subseteq {c[y] : y \in V})
      BY <2>9, FS_Subset
    <3>2. QED
      BY <3>1
  <2> DEFINE more == [y \in U |-> IF y = x THEN t ELSE c[y]]
  <2>11. more \in [U -> T]
    BY <2>8, <2>10
  <2>12. IsInjective(more)
    <3>1. ASSUME NEW a \in U, NEW b \in U, more[a] = more[b]
          PROVE  a = b
      <4>1. CASE a = x /\ b = x
        BY <4>1
      <4>2. CASE a = x /\ b # x
        BY <2>10, <3>1, <4>2
      <4>3. CASE a # x /\ b = x
        BY <2>10, <3>1, <4>3
      <4>4. CASE a # x /\ b # x
        BY <2>8, <3>1, <4>4 DEF IsInjective
      <4>5. QED
        BY <4>1, <4>2, <4>3, <4>4
    <3>2. DOMAIN more = U
      OBVIOUS
    <3> HIDE DEF more
    <3>3. QED
      BY <3>1, <3>2 DEF IsInjective
  <2>13. QED
    BY <2>3, <2>11, <2>12
<1>3. QED
  BY <1>2

\* Files that change in finitely many places stay finitely many.
LEMMA FewMore ==
  ASSUME NEW files \in FileMaps, IsFiniteSet(Existing(files)), NEW more \in FileMaps,
         NEW places, IsFiniteSet(places), \A f \in Files \ places : more[f] = files[f]
  PROVE  IsFiniteSet(Existing(more))
<1>1. Existing(more) \subseteq Existing(files) \cup places
  BY DEF Existing, FileMaps
<1>2. IsFiniteSet(Existing(files) \cup places)
  BY FS_Union
<1>3. QED
  BY <1>1, <1>2, FS_Subset
----------------------------------------------------------------------------
\* The files while entries are applied.

\* What unused names for copies rest on: endless names, of which few are taken.
Copying(d) ==
  /\ ~IsFiniteSet(Copies[d])
  /\ run[d].local \in FileMaps
  /\ IsFiniteSet(Existing(run[d].local))
  /\ run[d].selected \in MapsTo(Records) /\ IsFiniteSet(DOMAIN run[d].selected)
  /\ state[d].records \in MapsTo(Records) /\ IsFiniteSet(DOMAIN state[d].records)

\* A name that nothing has, and nothing had when the files were scanned.
Fresh(d, files, copy) ==
  /\ copy \in Files
  /\ files[copy] = None
  /\ run[d].local[copy] = None
  /\ \A o \in DOMAIN run[d].selected : run[d].selected[o].path # copy

\* Files that a pull works on.
Sound(d, files, published) ==
  /\ files \in FileMaps
  /\ IsFiniteSet(Existing(files))
  /\ Follows(files, run[d].local, published)

\* More is what files become: a content is still in a file, or it is published.
Saves(files, more, published) ==
  \A f \in Files : files[f] # None =>
    files[f] \in published \/ \E g \in Files : more[g] = files[f]

\* What saves the contents one step after the other saves them.
LEMMA SavesOn ==
  ASSUME NEW files, NEW more, NEW most, NEW published,
         Saves(files, more, published), Saves(more, most, published)
  PROVE  Saves(files, most, published)
BY DEF Saves

\* The paths of finitely many records are finitely many.
LEMMA FewPaths ==
  ASSUME NEW records \in MapsTo(Records), IsFiniteSet(DOMAIN records)
  PROVE  IsFiniteSet({records[o].path : o \in DOMAIN records})
<1> DEFINE path == [o \in DOMAIN records |-> records[o].path]
<1>1. IsFiniteSet({path[o] : o \in DOMAIN records})
  <2>1. DOMAIN path = DOMAIN records /\ path = [o \in DOMAIN records |-> path[o]]
    OBVIOUS
  <2> HIDE DEF path
  <2>2. QED
    BY <2>1, FiniteImage
<1>2. {path[o] : o \in DOMAIN records} = {records[o].path : o \in DOMAIN records}
  OBVIOUS
<1>3. QED
  BY <1>1, <1>2

\* Names for copies do not run out.
LEMMA CopiesAreFresh ==
  ASSUME NEW d \in Devices, Copying(d), NEW files \in FileMaps, IsFiniteSet(Existing(files))
  PROVE  /\ ~IsFiniteSet(UnusedCopies(d, files))
         /\ \A copy \in UnusedCopies(d, files) : Fresh(d, files, copy)
<1> DEFINE local == run[d].local
           chosen == {run[d].selected[o].path : o \in DOMAIN run[d].selected}
           recorded == {state[d].records[o].path : o \in DOMAIN state[d].records}
           taken == Existing(files) \cup Existing(local) \cup chosen \cup recorded
<1>1. Copies[d] \subseteq Files
  BY DEF Files
<1>2. IsFiniteSet(chosen) /\ IsFiniteSet(recorded)
  BY FewPaths DEF Copying
<1>3. IsFiniteSet(taken)
  <2>1. IsFiniteSet(Existing(files)) /\ IsFiniteSet(Existing(local))
    BY DEF Copying
  <2> HIDE DEF chosen, recorded, local
  <2>2. QED
    BY <1>2, <2>1, FS_Union
<1>4. DOMAIN files = Files /\ DOMAIN local = Files
  BY DEF FileMaps, Copying
<1>5. Copies[d] \subseteq UnusedCopies(d, files) \cup taken
  BY <1>1, <1>4 DEF UnusedCopies, Existing
<1>6. ~IsFiniteSet(UnusedCopies(d, files))
  <2> HIDE DEF taken
  <2>1. ASSUME IsFiniteSet(UnusedCopies(d, files))
        PROVE  FALSE
    <3>1. IsFiniteSet(UnusedCopies(d, files) \cup taken)
      BY <1>3, <2>1, FS_Union
    <3>2. IsFiniteSet(Copies[d])
      BY <1>5, <3>1, FS_Subset
    <3>3. QED
      BY <3>2 DEF Copying
  <2>2. QED
    BY <2>1
<1>7. \A copy \in UnusedCopies(d, files) : Fresh(d, files, copy)
  BY <1>1 DEF UnusedCopies, Fresh
<1>8. QED
  BY <1>6, <1>7

\* A copy is made under a fresh name.
LEMMA CopyForm ==
  ASSUME NEW d \in Devices, Copying(d), NEW files \in FileMaps, IsFiniteSet(Existing(files)),
         NEW content \in Contents
  PROVE  \E copy \in Files :
           /\ Fresh(d, files, copy)
           /\ WithCopy(d, files, content) = [files EXCEPT ![copy] = content]
<1> DEFINE copy == CHOOSE c \in UnusedCopies(d, files) : TRUE
<1>1. UnusedCopies(d, files) # {}
  BY CopiesAreFresh, FS_EmptySet
<1>2. copy \in UnusedCopies(d, files)
  BY <1>1
<1>3. WithCopy(d, files, content) = [files EXCEPT ![copy] = content]
  BY Zenon DEF WithCopy
<1> HIDE DEF copy
<1>4. Fresh(d, files, copy) /\ copy \in Files
  BY <1>2, CopiesAreFresh DEF Fresh
<1>5. QED
  BY <1>3, <1>4

\* What a step makes of one or two files.
LEMMA FilesChange ==
  ASSUME NEW d, NEW published, NEW files, Sound(d, files, published), NEW more \in FileMaps,
         NEW f, NEW g, \A h \in Files \ {f, g} : more[h] = files[h],
         \A h \in {f, g} \cap Files : run[d].local[h] # None =>
           more[h] \in {run[d].local[h], None} \cup published
  PROVE  Sound(d, more, published)
<1>1. IsFiniteSet({f, g})
  <2>1. IsFiniteSet({f}) /\ IsFiniteSet({g}) /\ {f, g} = {f} \cup {g}
    BY FS_Singleton
  <2>2. QED
    BY <2>1, FS_Union
<1>2. IsFiniteSet(Existing(more))
  BY <1>1, FewMore DEF Sound
<1>3. Follows(more, run[d].local, published)
  BY DEF Follows, Sound
<1>4. QED
  BY <1>2, <1>3 DEF Sound

\* A copy takes nothing away.
LEMMA CopySaves ==
  ASSUME NEW d \in Devices, Copying(d), NEW published, NEW files, Sound(d, files, published),
         NEW content \in Contents
  PROVE  /\ Sound(d, WithCopy(d, files, content), published)
         /\ Saves(files, WithCopy(d, files, content), published)
         /\ \E copy \in Files :
              /\ Fresh(d, files, copy)
              /\ WithCopy(d, files, content)[copy] = content
              /\ \A g \in Files \ {copy} : WithCopy(d, files, content)[g] = files[g]
<1> DEFINE more == WithCopy(d, files, content)
<1>1. files \in FileMaps /\ IsFiniteSet(Existing(files))
  BY DEF Sound
<1>2. PICK copy \in Files : Fresh(d, files, copy) /\ more = [files EXCEPT ![copy] = content]
  BY <1>1, CopyForm
<1> HIDE DEF more
<1>3. more \in FileMaps
  BY <1>1, <1>2, PutFile
<1>4. more[copy] = content /\ \A g \in Files \ {copy} : more[g] = files[g]
  BY <1>1, <1>2 DEF FileMaps
<1>5. Sound(d, more, published)
  <2>1. /\ \A h \in Files \ {copy, copy} : more[h] = files[h]
        /\ \A h \in {copy, copy} \cap Files : run[d].local[h] # None =>
             more[h] \in {run[d].local[h], None} \cup published
    BY <1>2, <1>4 DEF Fresh
  <2>2. QED
    BY <1>3, <2>1, FilesChange
<1>6. Saves(files, more, published)
  BY <1>2, <1>4 DEF Saves, Fresh
<1>7. QED
  BY <1>2, <1>4, <1>5, <1>6 DEF more

\* A file that was scanned and gives way leaves its content in a copy.
LEMMA MovedSaves ==
  ASSUME NEW d \in Devices, Copying(d), NEW published, NEW files, Sound(d, files, published),
         NEW f \in Files, run[d].local[f] # None
  PROVE  LET more == Moved(d, files, run[d].local, f)
         IN
         /\ Sound(d, more, published)
         /\ Saves(files, more, published)
         /\ \E copy \in Files :
              /\ Fresh(d, files, copy)
              /\ more[copy] = run[d].local[f]
              /\ more[f] = None
              /\ \A g \in Files \ {copy, f} : more[g] = files[g]
<1> DEFINE more == Moved(d, files, run[d].local, f)
           copied == WithCopy(d, files, run[d].local[f])
<1>1. run[d].local[f] \in Contents
  BY FileContent DEF Copying
<1>2. Sound(d, copied, published)
  BY <1>1, CopySaves
<1>3. PICK copy \in Files : /\ Fresh(d, files, copy)
                            /\ copied[copy] = run[d].local[f]
                            /\ \A g \in Files \ {copy} : copied[g] = files[g]
  BY <1>1, CopySaves
<1>4. more = [copied EXCEPT ![f] = None]
  BY DEF Moved, Without
<1> HIDE DEF more, copied
<1>5. copied \in FileMaps /\ more \in FileMaps
  BY <1>2, <1>4, PutFile DEF Sound
<1>6. copy # f
  BY <1>3 DEF Fresh
<1>7. /\ more[copy] = run[d].local[f] /\ more[f] = None
      /\ \A g \in Files \ {copy, f} : more[g] = files[g]
  BY <1>3, <1>4, <1>5, <1>6 DEF FileMaps
<1>8. Sound(d, more, published)
  BY <1>3, <1>5, <1>7, FilesChange DEF Fresh
<1>9. Saves(files, more, published)
  <2>1. files[f] \in {run[d].local[f], None} \cup published
    BY DEF Sound, Follows
  <2>2. files[copy] = None
    BY <1>3 DEF Fresh
  <2>3. QED
    BY <1>7, <2>1, <2>2 DEF Saves
<1>10. QED
  BY <1>3, <1>7, <1>8, <1>9 DEF more

\* An unchanged file goes: its content is published.
LEMMA WithoutSaves ==
  ASSUME NEW d \in Devices, NEW published, NEW files, Sound(d, files, published),
         NEW f \in Files, run[d].local[f] # None, run[d].local[f] \in published
  PROVE  /\ Sound(d, Without(files, f), published)
         /\ Saves(files, Without(files, f), published)
<1> DEFINE more == Without(files, f)
<1>1. files \in FileMaps /\ files[f] \in {run[d].local[f], None} \cup published
  BY DEF Sound, Follows
<1>2. more \in FileMaps
  BY <1>1, WithoutType
<1>3. more[f] = None /\ \A g \in Files \ {f} : more[g] = files[g]
  BY <1>1 DEF Without, FileMaps
<1> HIDE DEF more
<1>4. Sound(d, more, published)
  BY <1>2, <1>3, FilesChange
<1>5. Saves(files, more, published)
  BY <1>1, <1>3 DEF Saves
<1>6. QED
  BY <1>4, <1>5 DEF more

\* What a tombstone makes of the files.
LEMMA TombstoneSaves ==
  ASSUME NEW d \in Devices, Copying(d), NEW published, NEW files, Sound(d, files, published),
         NEW record \in Records, record.hash \in published,
         NEW f \in Files \cup {None}, f # None => run[d].local[f] # None
  PROVE  /\ Sound(d, TombstoneApplied(d, files, run[d].local, record, f), published)
         /\ Saves(files, TombstoneApplied(d, files, run[d].local, record, f), published)
<1>1. CASE f = None
  <2>1. TombstoneApplied(d, files, run[d].local, record, f) = files
    BY <1>1 DEF TombstoneApplied
  <2>2. Saves(files, files, published)
    BY DEF Saves
  <2>3. QED
    BY <2>1, <2>2
<1>2. CASE f # None /\ Unchanged(run[d].local, record, f)
  <2>1. TombstoneApplied(d, files, run[d].local, record, f) = Without(files, f)
    BY <1>2 DEF TombstoneApplied
  <2>2. f \in Files /\ run[d].local[f] # None /\ run[d].local[f] \in published
    BY <1>2 DEF Unchanged
  <2>3. QED
    BY <2>1, <2>2, WithoutSaves
<1>3. CASE f # None /\ ~Unchanged(run[d].local, record, f)
  <2>1. TombstoneApplied(d, files, run[d].local, record, f) = Moved(d, files, run[d].local, f)
    BY <1>3 DEF TombstoneApplied
  <2>2. f \in Files /\ run[d].local[f] # None
    BY <1>3
  <2>3. QED
    BY <2>1, <2>2, MovedSaves
<1>4. QED
  BY <1>1, <1>2, <1>3

\* The content of a scanned file that may be overwritten: it is published, or a copy of it
\* was made that no entry of the pull touches.
Spare(d, files, f, published) ==
  \/ run[d].local[f] \in published
  \/ \E w \in Files :
       /\ run[d].local[w] = None /\ files[w] = run[d].local[f]
       /\ \A o \in DOMAIN run[d].selected : run[d].selected[o].path # w

\* A file that moves to the path of the winner leaves nothing behind that is not saved.
LEMMA MoveSaves ==
  ASSUME NEW d \in Devices, Copying(d), NEW published, NEW files, Sound(d, files, published),
         NEW f \in Files, run[d].local[f] # None, Spare(d, files, f, published),
         NEW target \in Files, target # f,
         \E o \in DOMAIN run[d].selected : run[d].selected[o].path = target,
         run[d].local[target] # None \/ files[target] = None,
         NEW hash \in Contents, hash \in published
  PROVE  LET cleared == IF run[d].local[target] # None
                        THEN Moved(d, files, run[d].local, target) ELSE files
             more == [Without(cleared, f) EXCEPT ![target] = hash]
         IN
         /\ Sound(d, cleared, published) /\ Saves(files, cleared, published)
         /\ Sound(d, more, published) /\ Saves(files, more, published)
<1> DEFINE cleared == IF run[d].local[target] # None
                      THEN Moved(d, files, run[d].local, target) ELSE files
           more == [Without(cleared, f) EXCEPT ![target] = hash]
<1>1. PICK copy \in Files \cup {None} :
        /\ Sound(d, cleared, published) /\ Saves(files, cleared, published)
        /\ copy # f /\ copy # target
        /\ \A g \in Files : files[g] # None /\ g # target => g # copy /\ cleared[g] = files[g]
        /\ run[d].local[target] # None => copy \in Files /\ cleared[copy] = run[d].local[target]
  <2>1. CASE run[d].local[target] # None
    <3>1. PICK copy \in Files : /\ Fresh(d, files, copy)
                                /\ cleared[copy] = run[d].local[target]
                                /\ \A g \in Files \ {copy, target} : cleared[g] = files[g]
      BY <2>1, MovedSaves
    <3>2. Sound(d, cleared, published) /\ Saves(files, cleared, published)
      BY <2>1, MovedSaves
    <3> HIDE DEF cleared
    <3>3. copy # f /\ copy # target /\ files[copy] = None
      BY <2>1, <3>1 DEF Fresh
    <3>4. QED
      BY <3>1, <3>2, <3>3
  <2>2. CASE run[d].local[target] = None
    <3>1. cleared = files /\ Saves(files, files, published)
      BY <2>2 DEF Saves
    <3>2. None \notin Files
      BY NamesAssumption
    <3> HIDE DEF cleared
    <3>3. QED
      BY <2>2, <3>1, <3>2
  <2>3. QED
    BY <2>1, <2>2
<1> HIDE DEF cleared
<1>2. cleared \in FileMaps
  BY <1>1 DEF Sound
<1>3. Without(cleared, f) \in FileMaps /\ more \in FileMaps
  BY <1>2, WithoutType, PutFile
<1>4. /\ more[target] = hash /\ more[f] = None
      /\ \A g \in Files \ {f, target} : more[g] = cleared[g]
  BY <1>2 DEF Without, FileMaps
<1> HIDE DEF more
<1>5. Sound(d, more, published)
  <2>1. /\ \A h \in Files \ {f, target} : more[h] = cleared[h]
        /\ \A h \in {f, target} \cap Files : run[d].local[h] # None =>
             more[h] \in {run[d].local[h], None} \cup published
    BY <1>4
  <2>2. QED
    BY <1>1, <1>3, <2>1, FilesChange
<1>6. ASSUME NEW g \in Files, files[g] # None, files[g] \notin published
      PROVE  \E h \in Files : more[h] = files[g]
  <2>1. run[d].local[g] # None => files[g] = run[d].local[g]
    BY <1>6 DEF Sound, Follows
  <2>2. CASE g = f
    <3>1. PICK w \in Files :
            /\ run[d].local[w] = None /\ files[w] = run[d].local[f]
            /\ \A o \in DOMAIN run[d].selected : run[d].selected[o].path # w
      BY <1>6, <2>1, <2>2 DEF Spare
    <3>2. w # f /\ w # target
      BY <3>1
    <3>3. more[w] = files[w]
      BY <1>1, <1>4, <3>1, <3>2
    <3>4. QED
      BY <2>1, <2>2, <3>1, <3>3
  <2>3. CASE g = target
    <3>1. run[d].local[target] # None
      BY <1>6, <2>3
    <3>2. more[copy] = files[g] /\ copy \in Files
      BY <1>1, <1>4, <2>1, <2>3, <3>1
    <3>3. QED
      BY <3>2
  <2>4. CASE g # f /\ g # target
    BY <1>1, <1>4, <1>6, <2>4
  <2>5. QED
    BY <2>2, <2>3, <2>4
<1>7. Saves(files, more, published)
  BY <1>6 DEF Saves
<1>8. QED
  BY <1>1, <1>5, <1>7 DEF more, cleared

\* The winner of a choice takes nothing away.
LEMMA WinnerSaves ==
  ASSUME NEW d \in Devices, Copying(d), NEW published, NEW files, Sound(d, files, published),
         NEW f \in Files, run[d].local[f] # None, Spare(d, files, f, published),
         NEW remote \in Records, remote.hash \in published,
         \E o \in DOMAIN run[d].selected : run[d].selected[o].path = remote.path
  PROVE  LET more == WinnerApplied(d, files, run[d].local, f, remote).files
         IN  Sound(d, more, published) /\ Saves(files, more, published)
<1> DEFINE target == remote.path
           local == run[d].local
           cleared == IF local[target] # None THEN Moved(d, files, local, target) ELSE files
           moved == [Without(cleared, f) EXCEPT ![target] = remote.hash]
           more == WinnerApplied(d, files, local, f, remote).files
<1>1. target \in Files /\ remote.hash \in Contents
  BY DEF Records
<1>2. WinnerApplied(d, files, local, f, remote) =
        IF target = f THEN Done([files EXCEPT ![f] = remote.hash])
        ELSE IF local[target] = None /\ files[target] # None
             THEN Done(WithCopy(d, files, remote.hash))
        ELSE IF cleared[f] = None THEN [files |-> cleared, thrown |-> TRUE]
        ELSE Done(moved)
  BY Zenon DEF WinnerApplied
<1>3. CASE target = f
  <2> DEFINE put == [files EXCEPT ![f] = remote.hash]
  <2>1. more = put
    BY <1>2, <1>3 DEF Done
  <2>2. files \in FileMaps
    BY DEF Sound
  <2>3. put \in FileMaps
    BY <1>1, <2>2, PutFile
  <2>4. put[f] = remote.hash /\ \A g \in Files \ {f} : put[g] = files[g]
    BY <2>2 DEF FileMaps
  <2> HIDE DEF put
  <2>5. Sound(d, put, published)
    <3>1. /\ \A h \in Files \ {f, f} : put[h] = files[h]
          /\ \A h \in {f, f} \cap Files : local[h] # None =>
               put[h] \in {local[h], None} \cup published
      BY <2>4
    <3>2. QED
      BY <2>3, <3>1, FilesChange
  <2>6. ASSUME NEW g \in Files, files[g] # None, files[g] \notin published
        PROVE  \E h \in Files : put[h] = files[g]
    <3>1. CASE g = f
      <4>1. files[g] = local[f]
        BY <2>6, <3>1 DEF Sound, Follows
      <4>2. PICK w \in Files : local[w] = None /\ files[w] = local[f]
        BY <2>6, <4>1 DEF Spare
      <4>3. put[w] = files[w]
        BY <2>4, <4>2
      <4>4. QED
        BY <4>1, <4>2, <4>3
    <3>2. CASE g # f
      BY <2>4, <3>2
    <3>3. QED
      BY <3>1, <3>2
  <2>7. QED
    BY <2>1, <2>5, <2>6 DEF Saves
<1>4. CASE target # f /\ local[target] = None /\ files[target] # None
  <2>1. more = WithCopy(d, files, remote.hash)
    BY <1>2, <1>4 DEF Done
  <2>2. QED
    BY <1>1, <2>1, CopySaves
<1>5. CASE target # f /\ ~(local[target] = None /\ files[target] # None)
  <2>1. /\ Sound(d, cleared, published) /\ Saves(files, cleared, published)
        /\ Sound(d, moved, published) /\ Saves(files, moved, published)
    BY <1>1, <1>5, MoveSaves
  <2> HIDE DEF cleared, moved
  <2>2. more \in {cleared, moved}
    BY <1>2, <1>5 DEF Done
  <2> HIDE DEF more
  <2>3. QED
    BY <2>1, <2>2 DEF more
<1>6. QED
  BY <1>3, <1>4, <1>5

\* A published content takes a place where nothing is.
LEMMA PutSaves ==
  ASSUME NEW d \in Devices, NEW published, NEW files, Sound(d, files, published),
         NEW f \in Files, files[f] = None, NEW hash \in Contents, hash \in published
  PROVE  LET more == [files EXCEPT ![f] = hash]
         IN  Sound(d, more, published) /\ Saves(files, more, published)
<1> DEFINE more == [files EXCEPT ![f] = hash]
<1>1. files \in FileMaps
  BY DEF Sound
<1>2. more \in FileMaps
  BY <1>1, PutFile
<1>3. more[f] = hash /\ \A g \in Files \ {f} : more[g] = files[g]
  BY <1>1 DEF FileMaps
<1> HIDE DEF more
<1>4. Sound(d, more, published)
  <2>1. /\ \A h \in Files \ {f, f} : more[h] = files[h]
        /\ \A h \in {f, f} \cap Files : run[d].local[h] # None =>
             more[h] \in {run[d].local[h], None} \cup published
    BY <1>3
  <2>2. QED
    BY <1>2, <2>1, FilesChange
<1>5. Saves(files, more, published)
  BY <1>3 DEF Saves
<1>6. QED
  BY <1>4, <1>5 DEF more

\* What a new object makes of the files.
LEMMA CreationSaves ==
  ASSUME NEW d \in Devices, Copying(d), NEW published, NEW files, Sound(d, files, published),
         NEW remote \in Records, remote.hash \in published
  PROVE  LET more == CreationApplied(d, files, run[d].local, remote)
         IN  Sound(d, more, published) /\ Saves(files, more, published)
<1> DEFINE more == CreationApplied(d, files, run[d].local, remote)
           moved == Moved(d, files, run[d].local, remote.path)
<1>1. remote.path \in Files /\ remote.hash \in Contents
  BY DEF Records
<1>2. CASE run[d].local[remote.path] # None
  <2>1. Sound(d, moved, published) /\ Saves(files, moved, published) /\ moved[remote.path] = None
    BY <1>1, <1>2, MovedSaves
  <2>2. more = [moved EXCEPT ![remote.path] = remote.hash]
    BY <1>2 DEF CreationApplied
  <2> HIDE DEF more, moved
  <2>3. Sound(d, more, published) /\ Saves(moved, more, published)
    BY <1>1, <2>1, <2>2, PutSaves
  <2>4. Saves(files, more, published)
    BY <2>1, <2>3, SavesOn
  <2>5. QED
    BY <2>3, <2>4 DEF more
<1>3. CASE run[d].local[remote.path] = None /\ files[remote.path] # None
  BY <1>1, <1>3, CopySaves DEF CreationApplied
<1>4. CASE run[d].local[remote.path] = None /\ files[remote.path] = None
  BY <1>1, <1>4, PutSaves DEF CreationApplied
<1>5. QED
  BY <1>2, <1>3, <1>4

\* What the changes of both sides make of the files.
LEMMA ChangesSaves ==
  ASSUME NEW d \in Devices, Copying(d), NEW published, NEW files, Sound(d, files, published),
         NEW f \in Files, run[d].local[f] # None, NEW record,
         NEW remote \in Records, remote.hash \in published,
         \E o \in DOMAIN run[d].selected : run[d].selected[o].path = remote.path
  PROVE  LET more == ChangesApplied(d, files, run[d].local, record, f, remote).files
         IN  Sound(d, more, published) /\ Saves(files, more, published)
<1> DEFINE local == run[d].local
           kept == [files EXCEPT ![f] = local[f]]
           copied == WithCopy(d, files, local[f])
           won == WinnerApplied(d, copied, local, f, remote).files
<1>1. files \in FileMaps /\ local \in FileMaps /\ local[f] \in Contents
  BY FileContent DEF Sound, Copying
<1>2. Sound(d, kept, published) /\ Saves(files, kept, published)
  <2>1. kept \in FileMaps
    BY <1>1, PutFile
  <2>2. kept[f] = local[f] /\ \A g \in Files \ {f} : kept[g] = files[g]
    BY <1>1 DEF FileMaps
  <2> HIDE DEF kept
  <2>3. /\ \A h \in Files \ {f, f} : kept[h] = files[h]
        /\ \A h \in {f, f} \cap Files : local[h] # None =>
             kept[h] \in {local[h], None} \cup published
    BY <2>2
  <2>4. Sound(d, kept, published)
    BY <2>1, <2>3, FilesChange
  <2>5. files[f] \in {local[f], None} \cup published
    BY DEF Sound, Follows
  <2>6. Saves(files, kept, published)
    BY <2>2, <2>5 DEF Saves
  <2>7. QED
    BY <2>4, <2>6
<1>3. Sound(d, won, published) /\ Saves(files, won, published)
  <2>1. Sound(d, copied, published) /\ Saves(files, copied, published)
    BY <1>1, CopySaves
  <2>2. PICK copy \in Files : Fresh(d, files, copy) /\ copied[copy] = local[f]
    BY <1>1, CopySaves
  <2> HIDE DEF copied
  <2>3. Spare(d, copied, f, published)
    BY <2>2 DEF Spare, Fresh
  <2>4. Sound(d, won, published) /\ Saves(copied, won, published)
    BY <2>1, <2>3, WinnerSaves
  <2> HIDE DEF won
  <2>5. QED
    BY <2>1, <2>4, SavesOn
<1>4. \/ ChangesApplied(d, files, local, record, f, remote) = Done(kept)
      \/ ChangesApplied(d, files, local, record, f, remote) =
           WinnerApplied(d, copied, local, f, remote)
  BY DEF ChangesApplied
<1> HIDE DEF kept, copied
<1>5. QED
  BY <1>2, <1>3, <1>4 DEF Done

\* The file of an object was there when the files were scanned.
LEMMA LocatedThere ==
  ASSUME NEW local, NEW record \in Records, Located(local, record) # None
  PROVE  Located(local, record) \in Files /\ local[Located(local, record)] # None
<1> DEFINE matches == {f \in Files : local[f] = record.hash}
<1>1. record.path \in Files /\ record.hash # None
  BY NamesAssumption DEF Records
<1>2. CASE local[record.path] # None
  BY <1>1, <1>2 DEF Located
<1>3. CASE local[record.path] = None
  <2>1. Cardinality(matches) = 1 /\ Located(local, record) = CHOOSE f \in matches : TRUE
    BY <1>3 DEF Located
  <2>2. matches # {}
    BY <2>1, FS_EmptySet
  <2>3. Located(local, record) \in matches
    BY <2>1, <2>2
  <2>4. QED
    BY <1>1, <2>3
<1>4. QED
  BY <1>2, <1>3

\* What applying an entry makes of the files.
LEMMA EntrySaves ==
  ASSUME NEW d \in Devices, Copying(d), NEW published, NEW files, Sound(d, files, published),
         NEW record \in Records, record.hash \in published,
         NEW remote \in Records, remote.hash \in published,
         \E o \in DOMAIN run[d].selected : run[d].selected[o].path = remote.path
  PROVE  LET more == EntryApplied(d, files, run[d].local, record, remote).files
         IN  Sound(d, more, published) /\ Saves(files, more, published)
<1> DEFINE local == run[d].local
           f == Located(local, record)
           Good(more) == Sound(d, more, published) /\ Saves(files, more, published)
<1>1. f \in Files \cup {None} /\ (f # None => f \in Files /\ local[f] # None)
  BY LocatedType, LocatedThere
<1>2. remote.hash \in Contents
  BY DEF Records
<1> HIDE DEF f
<1>3. Good(TombstoneApplied(d, files, local, record, f))
  BY <1>1, TombstoneSaves
<1>4. Good(files)
  BY DEF Saves
<1>5. Good(WithCopy(d, files, remote.hash))
  BY <1>2, CopySaves
<1>6. CASE f = None
  <2>1. EntryApplied(d, files, local, record, remote) \in
          {Done(TombstoneApplied(d, files, local, record, f)), Done(files),
           Done(WithCopy(d, files, remote.hash))}
    BY <1>6, Zenon DEF EntryApplied, f
  <2> HIDE DEF Good
  <2>2. Good(EntryApplied(d, files, local, record, remote).files)
    BY <1>3, <1>4, <1>5, <2>1 DEF Done
  <2>3. QED
    BY <2>2 DEF Good
<1>7. CASE f # None
  <2>1. ASSUME Unchanged(local, record, f)
        PROVE  Good(WinnerApplied(d, files, local, f, remote).files)
    <3>1. Spare(d, files, f, published)
      BY <2>1 DEF Unchanged, Spare
    <3>2. QED
      BY <1>1, <1>7, <3>1, WinnerSaves
  <2>2. Good(ChangesApplied(d, files, local, record, f, remote).files)
    BY <1>1, <1>7, ChangesSaves
  <2>3. \/ EntryApplied(d, files, local, record, remote) \in
             {Done(TombstoneApplied(d, files, local, record, f)), Done(files),
              ChangesApplied(d, files, local, record, f, remote)}
        \/ /\ Unchanged(local, record, f)
           /\ EntryApplied(d, files, local, record, remote) =
                WinnerApplied(d, files, local, f, remote)
    BY <1>7 DEF EntryApplied, f
  <2> HIDE DEF Good
  <2>4. Good(EntryApplied(d, files, local, record, remote).files)
    BY <1>3, <1>4, <2>1, <2>2, <2>3 DEF Done
  <2>5. QED
    BY <2>4 DEF Good
<1>8. QED
  BY <1>6, <1>7

\* What applying the entry of an object makes of the files.
LEMMA AppliedSaves ==
  ASSUME NEW d \in Devices, Copying(d), NEW published, NEW files, Sound(d, files, published),
         Known(state[d].records, Objects, published),
         Known(run[d].selected, Objects, published),
         NEW o \in DOMAIN run[d].selected
  PROVE  LET more == Applied(d, files, run[d].local, o, run[d].selected[o]).files
         IN  Sound(d, more, published) /\ Saves(files, more, published)
<1> DEFINE records == state[d].records
           remote == run[d].selected[o]
<1>1. remote \in Records /\ remote.hash \in published
  BY MapFacts DEF Known, Copying
<1>2. CASE o \in DOMAIN records
  <2>1. records[o] \in Records /\ records[o].hash \in published
    BY <1>2, MapFacts DEF Known, Copying
  <2>2. Applied(d, files, run[d].local, o, remote) =
          EntryApplied(d, files, run[d].local, records[o], remote)
    BY <1>2 DEF Applied
  <2>3. QED
    BY <1>1, <2>1, <2>2, EntrySaves
<1>3. CASE o \notin DOMAIN records
  <2>1. Applied(d, files, run[d].local, o, remote) =
          Done(IF remote.tombstone THEN files
               ELSE CreationApplied(d, files, run[d].local, remote))
    BY <1>3 DEF Applied
  <2>2. Saves(files, files, published)
    BY DEF Saves
  <2>3. QED
    BY <1>1, <2>1, <2>2, CreationSaves DEF Done
<1>4. QED
  BY <1>2, <1>3

\* Copies of the entries that lost take nothing away.
LEMMA CopiesSave ==
  ASSUME NEW d \in Devices, Copying(d), NEW published, NEW files, Sound(d, files, published),
         NEW entries, entries \subseteq Records, IsFiniteSet(entries)
  PROVE  /\ Sound(d, WithCopies(d, files, entries), published)
         /\ Saves(files, WithCopies(d, files, entries), published)
<1> DEFINE kept == {entry \in entries : ~entry.tombstone}
           unused == UnusedCopies(d, files)
           copy == CHOOSE c \in [kept -> unused] : IsInjective(c)
           more == WithCopies(d, files, entries)
           places == {copy[entry] : entry \in kept}
<1>1. more = [f \in Files |->
               IF \E entry \in kept : copy[entry] = f
               THEN (CHOOSE entry \in kept : copy[entry] = f).hash
               ELSE files[f]]
  BY Zenon DEF WithCopies
<1>2. more \in FileMaps /\ files \in FileMaps /\ IsFiniteSet(Existing(files))
  BY CopiesType DEF Sound
<1>3. ~IsFiniteSet(unused) /\ \A f \in unused : Fresh(d, files, f)
  BY <1>2, CopiesAreFresh
<1>4. IsFiniteSet(kept)
  BY FS_Subset
<1>5. copy \in [kept -> unused]
  <2> HIDE DEF kept, unused
  <2>1. \E c \in [kept -> unused] : IsInjective(c)
    BY <1>3, <1>4, NamesForAll
  <2>2. QED
    BY <2>1
<1> HIDE DEF copy, more, unused, kept
<1>6. IsFiniteSet(places)
  BY <1>4, <1>5, FiniteImage
<1>7. \A f \in places : Fresh(d, files, f)
  BY <1>3, <1>5
<1>8. \A f \in Files \ places : more[f] = files[f]
  BY <1>1
<1> HIDE DEF places
<1>9. IsFiniteSet(Existing(more))
  BY <1>2, <1>6, <1>8, FewMore
<1>10. Follows(more, run[d].local, published)
  BY <1>7, <1>8 DEF Follows, Sound, Fresh
<1>11. Saves(files, more, published)
  BY <1>7, <1>8 DEF Saves, Fresh
<1>12. QED
  BY <1>2, <1>9, <1>10, <1>11 DEF Sound, more

----------------------------------------------------------------------------
\* The files between two writes of an entry.

\* The files a synchronization may leave when it is cut off: nothing is lost with them.
Leaves(files, more, published) ==
  /\ more \in FileMaps
  /\ IsFiniteSet(Existing(more))
  /\ Saves(files, more, published)

\* Where there is no file, nothing is copied.
LEMMA NothingIsCopied ==
  ASSUME NEW d \in Devices, Copying(d), NEW files \in FileMaps, IsFiniteSet(Existing(files))
  PROVE  WithCopy(d, files, None) = files
<1> DEFINE copy == CHOOSE c \in UnusedCopies(d, files) : TRUE
<1>1. UnusedCopies(d, files) # {}
  BY CopiesAreFresh, FS_EmptySet
<1>2. copy \in UnusedCopies(d, files)
  BY <1>1
<1>3. WithCopy(d, files, None) = [files EXCEPT ![copy] = None]
  BY Zenon DEF WithCopy
<1> HIDE DEF copy
<1>4. files[copy] = None
  BY <1>2 DEF UnusedCopies
<1>5. QED
  BY <1>3, <1>4 DEF FileMaps

\* A file that is renamed to a path without a file keeps its content.
LEMMA RenameSaves ==
  ASSUME NEW published, NEW files \in FileMaps, IsFiniteSet(Existing(files)),
         NEW f \in Files, NEW target \in Files, f # target, files[target] = None
  PROVE  Leaves(files, [Without(files, f) EXCEPT ![target] = files[f]], published)
<1> DEFINE more == [Without(files, f) EXCEPT ![target] = files[f]]
<1>1. more \in FileMaps
  BY FileContent, WithoutType, PutFile
<1>2. /\ more[target] = files[f]
      /\ \A g \in Files \ {f, target} : more[g] = files[g]
  BY DEF Without, FileMaps
<1> HIDE DEF more
<1>3. IsFiniteSet(Existing(more))
  <2>1. IsFiniteSet({f}) /\ IsFiniteSet({target}) /\ {f, target} = {f} \cup {target}
    BY FS_Singleton
  <2>2. IsFiniteSet({f, target})
    BY <2>1, FS_Union
  <2>3. QED
    BY <1>1, <1>2, <2>2, FewMore
<1>4. Saves(files, more, published)
  BY <1>2 DEF Saves
<1>5. QED
  BY <1>1, <1>3, <1>4 DEF Leaves, more

\* While a winner takes its path.
LEMMA WinnerHalfwaySaves ==
  ASSUME NEW d \in Devices, Copying(d), NEW published, NEW files, Sound(d, files, published),
         NEW f \in Files, NEW remote \in Records,
         NEW more \in WinnerHalfway(d, files, run[d].local, f, remote)
  PROVE  Leaves(files, more, published)
<1> DEFINE target == remote.path
           local == run[d].local
           cleared == IF local[target] # None THEN Moved(d, files, local, target) ELSE files
           renamed == [Without(cleared, f) EXCEPT ![target] = cleared[f]]
           copied == WithCopy(d, files, local[target])
<1>1. target \in Files /\ files \in FileMaps /\ IsFiniteSet(Existing(files))
  BY DEF Records, Sound
<1>2. /\ target # f /\ (local[target] # None \/ files[target] = None)
      /\ more \in {copied, cleared, renamed}
  BY Zenon DEF WinnerHalfway
<1>3. /\ Leaves(files, copied, published)
      /\ Leaves(files, cleared, published)
      /\ cleared[target] = None
  <2>1. CASE local[target] # None
    <3>1. local[target] \in Contents
      BY <1>1, <2>1, FileContent DEF Copying
    <3>2. Sound(d, copied, published) /\ Saves(files, copied, published)
      BY <3>1, CopySaves
    <3>3. /\ Sound(d, cleared, published) /\ Saves(files, cleared, published)
          /\ cleared[target] = None
      BY <1>1, <2>1, MovedSaves
    <3> HIDE DEF copied, cleared
    <3>4. QED
      BY <3>2, <3>3 DEF Leaves, Sound
  <2>2. CASE local[target] = None
    <3>1. copied = files
      BY <1>1, <2>2, NothingIsCopied
    <3>2. cleared = files /\ files[target] = None
      BY <1>2, <2>2
    <3>3. Saves(files, files, published)
      BY DEF Saves
    <3> HIDE DEF copied, cleared
    <3>4. QED
      BY <1>1, <3>1, <3>2, <3>3 DEF Leaves
  <2>3. QED
    BY <2>1, <2>2
<1> HIDE DEF copied, cleared
<1>4. Leaves(files, renamed, published)
  <2>1. Leaves(cleared, renamed, published)
    BY <1>1, <1>2, <1>3, RenameSaves DEF Leaves
  <2> HIDE DEF renamed
  <2>2. QED
    BY <1>3, <2>1, SavesOn DEF Leaves
<1>5. QED
  BY <1>2, <1>3, <1>4

\* Between two writes of an entry.
LEMMA EntryHalfwaySaves ==
  ASSUME NEW d \in Devices, Copying(d), NEW published, NEW files, Sound(d, files, published),
         NEW record \in Records, NEW remote \in Records,
         NEW more \in EntryHalfway(d, files, run[d].local, record, remote)
  PROVE  Leaves(files, more, published)
<1> DEFINE local == run[d].local
           f == Located(local, record)
           copied == WithCopy(d, files, local[f])
<1>1. /\ f # None
      /\ \/ more = copied
         \/ more \in WinnerHalfway(d, files, local, f, remote)
         \/ more \in WinnerHalfway(d, copied, local, f, remote)
  BY Zenon DEF EntryHalfway
<1>2. f \in Files /\ local[f] # None
  BY <1>1, LocatedThere
<1> HIDE DEF f
<1>3. local[f] \in Contents
  BY <1>2, FileContent DEF Copying
<1>4. Sound(d, copied, published) /\ Saves(files, copied, published)
  BY <1>3, CopySaves
<1> HIDE DEF copied
<1>5. CASE more = copied
  BY <1>4, <1>5 DEF Leaves, Sound
<1>6. CASE more \in WinnerHalfway(d, files, local, f, remote)
  BY <1>2, <1>6, WinnerHalfwaySaves
<1>7. CASE more \in WinnerHalfway(d, copied, local, f, remote)
  <2>1. Leaves(copied, more, published)
    BY <1>2, <1>4, <1>7, WinnerHalfwaySaves
  <2>2. QED
    BY <1>4, <2>1, SavesOn DEF Leaves
<1>8. QED
  BY <1>1, <1>5, <1>6, <1>7

\* Between the writes of a new object.
LEMMA CreationHalfwaySaves ==
  ASSUME NEW d \in Devices, Copying(d), NEW published, NEW files, Sound(d, files, published),
         NEW remote \in Records, NEW more \in CreationHalfway(d, files, run[d].local, remote)
  PROVE  Leaves(files, more, published)
<1> DEFINE f == remote.path
<1>1. /\ run[d].local[f] # None
      /\ more \in {WithCopy(d, files, run[d].local[f]), Moved(d, files, run[d].local, f)}
  BY Zenon DEF CreationHalfway
<1>2. f \in Files
  BY DEF Records
<1>3. run[d].local[f] \in Contents
  BY <1>1, <1>2, FileContent DEF Copying
<1> HIDE DEF f
<1>4. /\ Sound(d, WithCopy(d, files, run[d].local[f]), published)
      /\ Saves(files, WithCopy(d, files, run[d].local[f]), published)
  BY <1>3, CopySaves
<1>5. /\ Sound(d, Moved(d, files, run[d].local, f), published)
      /\ Saves(files, Moved(d, files, run[d].local, f), published)
  BY <1>1, <1>2, MovedSaves
<1>6. QED
  BY <1>1, <1>4, <1>5 DEF Leaves, Sound

\* Between the writes for an object: its entry and the copies of the entries that lost.
LEMMA BetweenWritesSave ==
  ASSUME NEW d \in Devices, Copying(d), NEW published, NEW files, Sound(d, files, published),
         Known(state[d].records, Objects, published),
         Known(run[d].selected, Objects, published),
         NEW o \in DOMAIN run[d].selected,
         run[d].conflicts[o] \subseteq Records, IsFiniteSet(run[d].conflicts[o]),
         NEW more \in BetweenWrites(d, files, o)
  PROVE  Leaves(files, more, published)
<1> DEFINE records == state[d].records
           remote == run[d].selected[o]
           applied == Applied(d, files, run[d].local, o, remote)
<1>1. \/ /\ o \in DOMAIN records
         /\ more \in EntryHalfway(d, files, run[d].local, records[o], remote)
      \/ more \in CreationHalfway(d, files, run[d].local, remote)
      \/ \E some \in SUBSET run[d].conflicts[o] : more = WithCopies(d, applied.files, some)
  BY Zenon DEF BetweenWrites
<1>2. remote \in Records
  BY MapFacts DEF Copying
<1>3. ASSUME o \in DOMAIN records,
             more \in EntryHalfway(d, files, run[d].local, records[o], remote)
      PROVE  Leaves(files, more, published)
  <2>1. records[o] \in Records
    BY <1>3, MapFacts DEF Copying
  <2>2. QED
    BY <1>2, <1>3, <2>1, EntryHalfwaySaves
<1>4. CASE more \in CreationHalfway(d, files, run[d].local, remote)
  BY <1>2, <1>4, CreationHalfwaySaves
<1>5. ASSUME NEW some \in SUBSET run[d].conflicts[o], more = WithCopies(d, applied.files, some)
      PROVE  Leaves(files, more, published)
  <2>1. Sound(d, applied.files, published) /\ Saves(files, applied.files, published)
    BY AppliedSaves
  <2> HIDE DEF applied
  <2>2. some \subseteq Records /\ IsFiniteSet(some)
    BY FS_Subset
  <2>3. Sound(d, more, published) /\ Saves(applied.files, more, published)
    BY <1>5, <2>1, <2>2, CopiesSave
  <2>4. QED
    BY <2>1, <2>3, SavesOn DEF Leaves, Sound
<1> HIDE DEF applied, remote, records
<1>6. QED
  BY <1>1, <1>3, <1>4, <1>5

----------------------------------------------------------------------------
\* The invariant.

\* The invariant for one device.
LEMMA KeptFacts ==
  ASSUME ContentInv, NEW d \in Devices
  PROVE  Kept(state[d], run[d], vault[d], Published)
BY DEF ContentInv

\* What is kept while fewer contents are published is kept while more are.
LEMMA KeptInMore ==
  ASSUME NEW s, NEW r, NEW files, NEW published, NEW more, published \subseteq more,
         Kept(s, r, files, published)
  PROVE  Kept(s, r, files, more)
BY DEF Kept, Known, Follows

\* A device that does not apply or prepare entries keeps what its records tell.
LEMMA KeptAtRest ==
  ASSUME NEW s, NEW r, NEW files, NEW published, r.phase \notin {"applying", "preparing"},
         IsFiniteSet(Existing(files)), Known(s.records, Objects, published),
         s.prepared # None =>
           Known(s.prepared.commit.manifest, Buried(s.prepared.commit.manifest), published)
  PROVE  Kept(s, r, files, published)
BY DEF Kept

\* The content of an entry that is no tombstone is published.
LEMMA EntryPublished ==
  ASSUME NEW id \in DOMAIN commits, NEW o \in DOMAIN commits[id].manifest,
         ~commits[id].manifest[o].tombstone
  PROVE  commits[id].manifest[o].hash \in Published
<1>1. commits[id].manifest[o] \in Range(commits[id].manifest)
  BY DEF Range
<1>2. QED
  BY <1>1 DEF Published

\* What is published stays so.
LEMMA PublishedGrows ==
  ASSUME Extends(commits, commits')
  PROVE  Published \subseteq Published'
<1>1. UNION {Range(commits[id].manifest) : id \in DOMAIN commits}
        \subseteq UNION {Range(commits'[id].manifest) : id \in DOMAIN commits'}
  BY DEF Extends
<1>2. QED
  BY <1>1 DEF Published

\* The invariant is kept when it holds for the device that goes on.
LEMMA ContentOneDevice ==
  ASSUME SyncInv, ContentInv, NEW d \in Devices, NEW s \in SyncStates, NEW r \in Runs,
         Becomes(d, s, r), commits' = commits, IsFiniteSet(drawn'), NEW files,
         vault' = [vault EXCEPT ![d] = files] \/ (files = vault[d] /\ UNCHANGED vault),
         Kept(s, r, files, Published)
  PROVE  ContentInv'
<1>1. /\ state'[d] = s /\ run'[d] = r /\ vault'[d] = files
      /\ \A e \in Devices \ {d} :
           state'[e] = state[e] /\ run'[e] = run[e] /\ vault'[e] = vault[e]
  BY BecomesEffect, DeviceFacts
<1>2. Published' = Published
  BY DEF Published
<1>3. ASSUME NEW e \in Devices
      PROVE  Kept(state'[e], run'[e], vault'[e], Published')
  <2>1. CASE e = d
    BY <1>1, <1>2, <2>1
  <2>2. CASE e # d
    BY <1>1, <1>2, <2>2, KeptFacts
  <2>3. QED
    BY <2>1, <2>2
<1>4. QED
  BY <1>2, <1>3 DEF ContentInv

\* A synchronization ends.
LEMMA EndKeepsContents ==
  ASSUME SyncInv, ContentInv, NEW d \in Devices, Becomes(d, state[d], Idle),
         UNCHANGED <<commits, drawn, vault>>
  PROVE  ContentInv'
<1>1. Idle \in Runs /\ Idle.phase = "idle"
  BY IdleRun DEF Phases
<1>2. Kept(state[d], Idle, vault[d], Published)
  BY <1>1, KeptFacts, KeptAtRest DEF Kept
<1>3. IsFiniteSet(drawn')
  BY DEF ContentInv
<1>4. QED
  BY <1>1, <1>2, <1>3, DeviceFacts, StateFacts, ContentOneDevice

\* An edit changes one file or two.
LEMMA EditKeepsContents ==
  ASSUME SyncInv, ContentInv, NEW d \in Devices, NEW kind, NEW files \in FileMaps,
         Edit(d, kind, files), NEW f, NEW g, \A h \in Files \ {f, g} : files[h] = vault[d][h]
  PROVE  ContentInv'
<1>1. IsFiniteSet({f, g})
  <2>1. IsFiniteSet({f}) /\ IsFiniteSet({g}) /\ {f, g} = {f} \cup {g}
    BY FS_Singleton
  <2>2. QED
    BY <2>1, FS_Union
<1>2. vault[d] \in FileMaps /\ IsFiniteSet(Existing(vault[d]))
  BY DeviceFacts, KeptFacts DEF Kept
<1>3. IsFiniteSet(Existing(files))
  BY <1>1, <1>2, FewMore
<1>4. /\ run[d].phase = "idle" /\ Becomes(d, state[d], run[d]) /\ commits' = commits
      /\ drawn' = drawn /\ vault' = [vault EXCEPT ![d] = files]
  BY DEF Edit, Becomes
<1>5. Kept(state[d], run[d], files, Published)
  BY <1>3, <1>4, KeptFacts, KeptAtRest DEF Kept
<1>6. IsFiniteSet(drawn')
  BY <1>4 DEF ContentInv
<1>7. QED
  BY <1>4, <1>5, <1>6, DeviceFacts, StateFacts, RunFacts, ContentOneDevice

\* A user writes, moves or deletes a file.
LEMMA UserKeepsContents ==
  ASSUME SyncInv, ContentInv, NEW d \in Devices, UserStep(d)
  PROVE  ContentInv'
<1>1. vault[d] \in FileMaps
  BY DeviceFacts
<1>2. ASSUME NEW kind, NEW files, Edit(d, kind, files)
      PROVE  Writable \subseteq Contents
  BY <1>2, DeviceFacts, WritableType DEF Edit
<1>3. ASSUME NEW kind, NEW f, NEW content \in Contents \cup {None},
             Edit(d, kind, [vault[d] EXCEPT ![f] = content])
      PROVE  ContentInv'
  <2> DEFINE files == [vault[d] EXCEPT ![f] = content]
  <2>1. files \in FileMaps
    BY <1>1, PutFile
  <2>2. \A h \in Files \ {f, f} : files[h] = vault[d][h]
    BY <1>1 DEF FileMaps
  <2>3. Edit(d, kind, files)
    BY <1>3
  <2> HIDE DEF files
  <2>4. QED
    BY <2>1, <2>2, <2>3, EditKeepsContents
<1>4. CASE Create(d)
  BY <1>2, <1>3, <1>4 DEF Create
<1>5. CASE Modify(d)
  BY <1>2, <1>3, <1>5 DEF Modify
<1>6. CASE Delete(d)
  BY <1>3, <1>6 DEF Delete
<1>7. CASE Move(d)
  <2>1. PICK f \in Existing(vault[d]), target \in Targets(d) :
          Edit(d, "move", [vault[d] EXCEPT ![f] = None, ![target] = vault[d][f]])
    BY <1>7 DEF Move
  <2> DEFINE files == [vault[d] EXCEPT ![f] = None, ![target] = vault[d][f]]
  <2>2. f \in Files /\ vault[d][f] \in Contents \cup {None}
    BY <1>1, <2>1, FileContent DEF Existing, FileMaps
  <2>3. files \in FileMaps /\ \A h \in Files \ {f, target} : files[h] = vault[d][h]
    BY <1>1, <2>2 DEF FileMaps
  <2>4. Edit(d, "move", files)
    BY <2>1
  <2> HIDE DEF files
  <2>5. QED
    BY <2>3, <2>4, EditKeepsContents
<1>8. QED
  BY <1>4, <1>5, <1>6, <1>7 DEF UserStep

\* Interruptions and failures.
LEMMA OthersKeepContents ==
  ASSUME SyncInv, ContentInv, NEW d \in Devices, Interrupt(d) \/ Throw(d)
  PROVE  ContentInv'
<1>1. Becomes(d, state[d], Idle) /\ UNCHANGED <<commits, drawn, vault>>
  BY DEF Interrupt, Throw, Advance, Becomes
<1>2. QED
  BY <1>1, EndKeepsContents
----------------------------------------------------------------------------
\* The pull.

\* A snapshot holds the contents of its commit.
LEMMA SnapshotContent ==
  ASSUME SyncInv, ContentInv, NEW id \in DOMAIN commits, NEW o \in DOMAIN commits[id].manifest
  PROVE  Snapshot(id)[o].hash \in Published
<1> DEFINE manifest == commits[id].manifest
<1>1. manifest \in MapsTo(Records)
  BY DeviceFacts DEF SyncInv, TypesOK, GraphOK, Commits
<1>2. Snapshot(id) = [p \in DOMAIN manifest |-> [manifest[p] EXCEPT !.path = manifest[p].name]]
  BY Zenon DEF Snapshot
<1>3. manifest[o].hash \in Published
  <2>1. o \in DOMAIN manifest \cap Objects
    BY <1>1, MapFacts
  <2>2. QED
    BY <2>1 DEF ContentInv, Known
<1> HIDE DEF manifest
<1>4. manifest[o] \in Records /\ o \in DOMAIN manifest
  BY <1>1, MapFacts DEF manifest
<1>5. Snapshot(id)[o].hash = manifest[o].hash
  BY <1>2, <1>4 DEF Records
<1>6. QED
  BY <1>3, <1>5

\* The contents that the base of a merge has are published.
LEMMA BaseContent ==
  ASSUME SyncInv, ContentInv, NEW heads, NEW o \in DOMAIN BaseOf(heads)
  PROVE  BaseOf(heads)[o].hash \in Published
<1>1. GraphOK
  BY DEF SyncInv, TypesOK
<1>2. PICK id \in DOMAIN commits : BaseOf(heads) = Snapshot(id)
  BY <1>1, BaseType, EmptyMap
<1>3. o \in DOMAIN commits[id].manifest
  BY <1>1, <1>2, SnapshotType
<1>4. QED
  BY <1>2, <1>3, SnapshotContent

\* What is chosen for an object has a published content, and finitely many entries lose.
LEMMA ChoiceContent ==
  ASSUME SyncInv, ContentInv, NEW heads, heads \subseteq DOMAIN commits, NEW o,
         o \in DOMAIN BaseOf(heads) \/ Bearers(heads, o) # {}
  PROVE  /\ Choice(heads, BaseOf(heads), o).selected.hash \in Published
         /\ IsFiniteSet(Choice(heads, BaseOf(heads), o).conflicts)
<1> DEFINE base == BaseOf(heads)
           variants == Variants(heads, o)
           changed == Changed(base, variants, o)
           candidates == IF changed = {} THEN variants ELSE changed
           winner == IF variants = {} THEN base[o] ELSE Winner(heads, o, candidates)
<1>1. GraphOK
  BY DEF SyncInv, TypesOK
<1>2. \A entry \in variants : entry.hash \in Published
  BY SnapshotContent DEF Variants, Bearers
<1>3. changed \subseteq variants
  BY DEF Changed
<1>4. winner.hash \in Published
  <2>1. CASE variants = {}
    <3>1. o \in DOMAIN base
      BY <2>1 DEF Variants
    <3>2. QED
      BY <2>1, <3>1, BaseContent
  <2>2. CASE variants # {}
    <3>1. candidates # {} /\ candidates \subseteq variants
      BY <1>3, <2>2
    <3> HIDE DEF candidates
    <3>2. Winner(heads, o, candidates) \in candidates
      BY <1>1, <3>1, WinnerIsOne
    <3>3. QED
      BY <1>2, <2>2, <3>1, <3>2
  <2>3. QED
    BY <2>1, <2>2
<1>5. IsFiniteSet(variants)
  <2>1. PICK bearers : bearers = Bearers(heads, o)
    OBVIOUS
  <2>2. IsFiniteSet(bearers)
    <3>1. bearers \subseteq DOMAIN commits
      BY <2>1 DEF Bearers
    <3>2. QED
      BY <3>1, FS_Subset DEF ContentInv
  <2>3. PICK entry : entry = [head \in bearers |-> Snapshot(head)[o]]
    OBVIOUS
  <2>4. entry \in [bearers -> variants]
    BY <2>1, <2>3 DEF Variants
  <2>5. IsFiniteSet({entry[head] : head \in bearers})
    BY <2>2, <2>4, FiniteImage
  <2>6. variants = {entry[head] : head \in bearers}
    BY <2>1, <2>3 DEF Variants
  <2>7. QED
    BY <2>5, <2>6
<1>6. Choice(heads, base, o) = [selected |-> winner, conflicts |-> changed \ {winner}]
  BY Zenon DEF Choice
<1>7. IsFiniteSet(changed \ {winner})
  <2>1. changed \ {winner} \subseteq variants
    BY <1>3
  <2>2. QED
    BY <1>5, <2>1, FS_Subset
<1> HIDE DEF winner, changed
<1>8. QED
  BY <1>4, <1>6, <1>7

\* What a pull selects is published.
LEMMA SelectionContent ==
  ASSUME SyncInv, ContentInv, NEW heads, heads \subseteq DOMAIN commits
  PROVE  /\ Known(Selected(heads), Objects, Published)
         /\ \A o \in DOMAIN SelectEntries(heads) :
              IsFiniteSet(SelectEntries(heads)[o].conflicts)
<1> DEFINE base == BaseOf(heads)
           objects == DOMAIN base \cup UNION {DOMAIN commits[head].manifest : head \in heads}
           choices == SelectEntries(heads)
<1>1. choices = [o \in objects |-> Choice(heads, base, o)]
  BY Zenon DEF SelectEntries
<1>2. \A o \in objects : /\ Choice(heads, base, o).selected.hash \in Published
                         /\ IsFiniteSet(Choice(heads, base, o).conflicts)
  <2>1. \A o \in objects : o \in DOMAIN base \/ Bearers(heads, o) # {}
    BY DEF Bearers
  <2>2. QED
    BY <2>1, ChoiceContent
<1>3. Selected(heads) = [o \in DOMAIN choices |-> choices[o].selected]
  BY Zenon DEF Selected
<1> HIDE DEF objects, choices, base
<1>4. QED
  BY <1>1, <1>2, <1>3 DEF Known, choices

\* The start of a pull.
LEMMA PullStartKeepsContents ==
  ASSUME SyncInv, ContentInv, NEW d \in Devices, PullStart(d)
  PROVE  ContentInv'
<1> DEFINE heads == ServerHeads(commits)
           choices == SelectEntries(heads)
           selected == Selected(heads)
           conflicts == [o \in DOMAIN choices |-> choices[o].conflicts]
<1>1. heads \subseteq DOMAIN commits
  BY HeadsAccepted
<1>2. CASE heads = {}
  <2> DEFINE s == [state[d] EXCEPT !.initialized = TRUE, !.heads = {}]
             r == [Idle EXCEPT !.phase = "pulled"]
  <2>1. Becomes(d, s, r) /\ UNCHANGED <<commits, drawn, vault>>
    BY <1>2 DEF PullStart, Becomes, Advance
  <2>2. r \in Runs /\ r.phase = "pulled"
    BY IdleRun DEF Phases
  <2>3. /\ s \in SyncStates /\ s.records = state[d].records /\ s.prepared = state[d].prepared
    BY DeviceFacts, StateFacts DEF SyncStates
  <2> HIDE DEF s, r
  <2>4. Kept(s, r, vault[d], Published)
    BY <2>2, <2>3, KeptFacts, KeptAtRest DEF Kept
  <2>5. IsFiniteSet(drawn')
    BY <2>1 DEF ContentInv
  <2>6. QED
    BY <2>1, <2>2, <2>3, <2>4, <2>5, ContentOneDevice
<1>3. CASE heads # {}
  <2> DEFINE r == [Idle EXCEPT !.phase = "applying", !.local = vault[d],
                               !.selected = selected, !.conflicts = conflicts,
                               !.todo = DOMAIN choices, !.heads = heads]
  <2>1. Becomes(d, state[d], r) /\ UNCHANGED <<commits, drawn, vault>>
    BY <1>3 DEF PullStart, Becomes, Advance
  <2>2. /\ selected \in MapsTo(Records) /\ DOMAIN selected = DOMAIN choices
        /\ conflicts \in MapsTo(SUBSET Records)
        /\ DOMAIN choices \subseteq Objects
    BY <1>1, SelectionType, DeviceFacts, MapFacts
  <2>3. vault[d] \in FileMaps /\ heads \subseteq CommitIds
    BY <1>1, DeviceFacts DEF GraphOK
  <2>4. Known(selected, Objects, Published)
    BY <1>1, SelectionContent
  <2>5. \A o \in DOMAIN conflicts : IsFiniteSet(conflicts[o])
    BY <1>1, SelectionContent
  <2> HIDE DEF heads, choices, selected, conflicts
  <2>6. /\ r \in Runs /\ r.phase = "applying" /\ r.local = vault[d] /\ r.selected = selected
        /\ r.conflicts = conflicts
    BY <2>2, <2>3, EmptyMap DEF Idle, Runs, Phases
  <2> HIDE DEF r
  <2>7. Kept(state[d], r, vault[d], Published)
    BY <2>4, <2>5, <2>6, KeptFacts DEF Kept, Follows
  <2>8. IsFiniteSet(drawn')
    BY <2>1 DEF ContentInv
  <2>9. QED
    BY <2>1, <2>6, <2>7, <2>8, DeviceFacts, StateFacts, ContentOneDevice
<1>4. QED
  BY <1>2, <1>3

\* While entries are applied, names for copies do not run out.
LEMMA CopyingNow ==
  ASSUME SyncInv, ContentInv, NEW d \in Devices, ~IsFiniteSet(Copies[d]),
         run[d].phase = "applying"
  PROVE  Copying(d) /\ Sound(d, vault[d], Published)
<1>1. /\ run[d].local \in FileMaps /\ IsFiniteSet(Existing(run[d].local))
      /\ vault[d] \in FileMaps /\ IsFiniteSet(Existing(vault[d]))
      /\ Follows(vault[d], run[d].local, Published)
  BY DeviceFacts, KeptFacts DEF PhaseOK, Kept
<1>2. /\ run[d].selected \in MapsTo(Records) /\ state[d].records \in MapsTo(Records)
      /\ DOMAIN run[d].selected \subseteq drawn /\ DOMAIN state[d].records \subseteq drawn
  BY DeviceFacts, RunFacts, StateFacts DEF NamesOnly
<1>3. IsFiniteSet(DOMAIN run[d].selected) /\ IsFiniteSet(DOMAIN state[d].records)
  BY <1>2, FS_Subset DEF ContentInv
<1>4. QED
  BY <1>1, <1>2, <1>3 DEF Copying, Sound

\* The entries that lost against the selected one.
LEMMA ConflictsOf ==
  ASSUME SyncInv, ContentInv, NEW d \in Devices, run[d].phase = "applying",
         NEW o \in DOMAIN run[d].conflicts, o \in DOMAIN run[d].selected
  PROVE  run[d].conflicts[o] \subseteq Records /\ IsFiniteSet(run[d].conflicts[o])
<1>1. run[d].conflicts \in MapsTo(SUBSET Records)
  BY RunFacts, DeviceFacts
<1>2. run[d].conflicts[o] \in SUBSET Records
  BY <1>1, MapFacts
<1>3. IsFiniteSet(run[d].conflicts[o])
  BY KeptFacts DEF Kept
<1>4. QED
  BY <1>2, <1>3

\* An entry is applied: what it does to the files, and how the synchronization goes on.
LEMMA ApplyEntryForm ==
  ASSUME SyncInv, ContentInv, NEW d \in Devices, ~IsFiniteSet(Copies[d]), ApplyEntry(d)
  PROVE  \E files : \E todo \in SUBSET Objects :
           /\ run[d].phase = "applying"
           /\ vault' = [vault EXCEPT ![d] = files]
           /\ Sound(d, files, Published)
           /\ Saves(vault[d], files, Published)
           /\ \/ Becomes(d, state[d], Idle)
              \/ Becomes(d, state[d], [run[d] EXCEPT !.todo = todo])
           /\ UNCHANGED <<commits, drawn>>
<1> DEFINE o == Min(run[d].todo)
           applied == Applied(d, vault[d], run[d].local, o, run[d].selected[o])
           copied == WithCopies(d, applied.files, run[d].conflicts[o])
<1>1. /\ run[d].phase = "applying" /\ run[d].todo # {}
      /\ IF applied.thrown
         THEN /\ vault' = [vault EXCEPT ![d] = applied.files]
              /\ Advance(d, Idle)
         ELSE /\ vault' = [vault EXCEPT ![d] = copied]
              /\ Advance(d, [run[d] EXCEPT !.todo = @ \ {o}])
      /\ UNCHANGED <<commits, drawn, state>>
  BY Zenon DEF ApplyEntry
<1>2. o \in run[d].todo
  BY <1>1, EntryFacts
<1>3. o \in DOMAIN run[d].selected /\ o \in DOMAIN run[d].conflicts
  BY <1>1, EntryFacts
<1>4. run[d].conflicts[o] \subseteq Records /\ IsFiniteSet(run[d].conflicts[o])
  BY <1>1, <1>3, ConflictsOf
<1>5. Copying(d) /\ Sound(d, vault[d], Published)
  BY <1>1, CopyingNow
<1>6. /\ Known(state[d].records, Objects, Published)
      /\ Known(run[d].selected, Objects, Published)
  BY <1>1, KeptFacts DEF Kept
<1>7. Sound(d, applied.files, Published) /\ Saves(vault[d], applied.files, Published)
  BY <1>3, <1>5, <1>6, AppliedSaves
<1>8. run[d].todo \ {o} \in SUBSET Objects
  BY RunFacts, DeviceFacts
<1> HIDE DEF applied, o
<1>9. Sound(d, copied, Published) /\ Saves(applied.files, copied, Published)
  BY <1>4, <1>5, <1>7, CopiesSave
<1> HIDE DEF copied
<1>10. Saves(vault[d], copied, Published)
  BY <1>7, <1>9, SavesOn
<1>11. CASE applied.thrown
  <2>1. vault' = [vault EXCEPT ![d] = applied.files] /\ Becomes(d, state[d], Idle)
    BY <1>1, <1>11 DEF Becomes, Advance
  <2>2. QED
    BY <1>1, <1>7, <1>8, <2>1
<1>12. CASE ~applied.thrown
  <2> DEFINE todo == run[d].todo \ {o}
  <2>1. vault' = [vault EXCEPT ![d] = copied]
    BY <1>1, <1>12
  <2>2. Becomes(d, state[d], [run[d] EXCEPT !.todo = todo])
    BY <1>1, <1>12 DEF Becomes, Advance
  <2>3. todo \in SUBSET Objects
    BY <1>8
  <2> HIDE DEF todo
  <2>4. QED
    BY <1>1, <1>9, <1>10, <2>1, <2>2, <2>3
<1>13. QED
  BY <1>11, <1>12

\* An entry of the merge is applied.
LEMMA ApplyEntryKeepsContents ==
  ASSUME SyncInv, ContentInv, NEW d \in Devices, ~IsFiniteSet(Copies[d]), ApplyEntry(d)
  PROVE  ContentInv'
<1>1. PICK files : \E todo \in SUBSET Objects :
        /\ run[d].phase = "applying"
        /\ vault' = [vault EXCEPT ![d] = files]
        /\ Sound(d, files, Published)
        /\ \/ Becomes(d, state[d], Idle)
           \/ Becomes(d, state[d], [run[d] EXCEPT !.todo = todo])
        /\ UNCHANGED <<commits, drawn>>
  BY ApplyEntryForm
<1>2. IsFiniteSet(drawn')
  BY <1>1 DEF ContentInv
<1>3. CASE Becomes(d, state[d], Idle)
  <2>1. Idle \in Runs /\ Idle.phase = "idle"
    BY IdleRun DEF Phases
  <2>2. Kept(state[d], Idle, files, Published)
    BY <1>1, <2>1, KeptFacts, KeptAtRest DEF Kept, Sound
  <2>3. QED
    BY <1>1, <1>2, <1>3, <2>1, <2>2, DeviceFacts, StateFacts, ContentOneDevice
<1>4. ASSUME NEW todo \in SUBSET Objects, Becomes(d, state[d], [run[d] EXCEPT !.todo = todo])
      PROVE  ContentInv'
  <2> DEFINE r == [run[d] EXCEPT !.todo = todo]
  <2>1. /\ r \in Runs /\ r.phase = "applying" /\ r.local = run[d].local
        /\ r.selected = run[d].selected /\ r.conflicts = run[d].conflicts
    BY <1>1, RunFacts, DeviceFacts DEF Runs
  <2>2. Becomes(d, state[d], r)
    BY <1>4
  <2> HIDE DEF r
  <2>3. Kept(state[d], r, files, Published)
    BY <1>1, <2>1, KeptFacts DEF Kept, Sound
  <2>4. QED
    BY <1>1, <1>2, <2>1, <2>2, <2>3, DeviceFacts, StateFacts, ContentOneDevice
<1>5. QED
  BY <1>1, <1>3, <1>4

\* A synchronization is interrupted between two writes of an entry: what it leaves.
LEMMA ApplyInterruptedForm ==
  ASSUME SyncInv, ContentInv, NEW d \in Devices, ~IsFiniteSet(Copies[d]), ApplyInterrupted(d)
  PROVE  \E files :
           /\ vault' = [vault EXCEPT ![d] = files]
           /\ Leaves(vault[d], files, Published)
           /\ Becomes(d, state[d], Idle)
           /\ UNCHANGED <<commits, drawn>>
<1> DEFINE o == Min(run[d].todo)
<1>1. /\ run[d].phase = "applying" /\ run[d].todo # {}
      /\ \E files \in BetweenWrites(d, vault[d], o) : vault' = [vault EXCEPT ![d] = files]
      /\ run' = [run EXCEPT ![d] = Idle]
      /\ UNCHANGED <<commits, drawn, state, edits>>
  BY Zenon DEF ApplyInterrupted
<1>2. o \in DOMAIN run[d].selected /\ o \in DOMAIN run[d].conflicts
  BY <1>1, EntryFacts
<1> HIDE DEF o
<1>3. run[d].conflicts[o] \subseteq Records /\ IsFiniteSet(run[d].conflicts[o])
  BY <1>1, <1>2, ConflictsOf
<1>4. PICK files \in BetweenWrites(d, vault[d], o) : vault' = [vault EXCEPT ![d] = files]
  BY <1>1
<1>5. Leaves(vault[d], files, Published)
  <2>1. Copying(d) /\ Sound(d, vault[d], Published)
    BY <1>1, CopyingNow
  <2>2. /\ Known(state[d].records, Objects, Published)
        /\ Known(run[d].selected, Objects, Published)
    BY <1>1, KeptFacts DEF Kept
  <2>3. QED
    BY <1>2, <1>3, <2>1, <2>2, BetweenWritesSave
<1>6. Becomes(d, state[d], Idle)
  BY <1>1 DEF Becomes
<1>7. QED
  BY <1>1, <1>4, <1>5, <1>6

\* What an interruption between two writes leaves is kept.
LEMMA ApplyInterruptedKeepsContents ==
  ASSUME SyncInv, ContentInv, NEW d \in Devices, ~IsFiniteSet(Copies[d]), ApplyInterrupted(d)
  PROVE  ContentInv'
<1>1. PICK files : /\ vault' = [vault EXCEPT ![d] = files]
                   /\ Leaves(vault[d], files, Published)
                   /\ Becomes(d, state[d], Idle)
                   /\ UNCHANGED <<commits, drawn>>
  BY ApplyInterruptedForm
<1>2. IsFiniteSet(drawn')
  BY <1>1 DEF ContentInv
<1>3. Idle \in Runs /\ Idle.phase = "idle"
  BY IdleRun DEF Phases
<1>4. Kept(state[d], Idle, files, Published)
  BY <1>1, <1>3, KeptFacts, KeptAtRest DEF Kept, Leaves
<1>5. QED
  BY <1>1, <1>2, <1>3, <1>4, DeviceFacts, StateFacts, ContentOneDevice

\* The end of a pull: what was selected becomes the records.
LEMMA PullSaveKeepsContents ==
  ASSUME SyncInv, ContentInv, NEW d \in Devices, PullSave(d)
  PROVE  ContentInv'
<1> DEFINE known == UNION {commits[id].past : id \in run[d].heads}
           lamport == Max({state[d].lamport} \cup {commits[id].lamport : id \in known})
           s == [state[d] EXCEPT !.initialized = TRUE, !.known = known,
                                 !.heads = run[d].heads, !.lamport = lamport,
                                 !.records = run[d].selected]
           r == [Idle EXCEPT !.phase = "pulled"]
<1>1. /\ Becomes(d, s, r) /\ UNCHANGED <<commits, drawn, vault>>
      /\ run[d].phase = "applying"
  BY Zenon DEF PullSave, Becomes, Advance
<1>2. run[d].heads \subseteq DOMAIN commits /\ known \subseteq DOMAIN commits
  BY DeviceFacts DEF RefersTo, GraphOK
<1>3. lamport \in Nat
  BY <1>2, TimeOfKnown
<1>4. known \subseteq CommitIds /\ run[d].heads \subseteq CommitIds
  BY <1>2, DeviceFacts DEF GraphOK
<1>5. r \in Runs /\ r.phase = "pulled"
  BY IdleRun DEF Phases
<1> HIDE DEF known, lamport
<1>6. s \in SyncStates /\ s.records = run[d].selected /\ s.prepared = state[d].prepared
  BY <1>3, <1>4, DeviceFacts, StateFacts, RunFacts DEF SyncStates
<1> HIDE DEF s, r
<1>7. Kept(s, r, vault[d], Published)
  BY <1>1, <1>5, <1>6, KeptFacts, KeptAtRest DEF Kept
<1>8. IsFiniteSet(drawn')
  BY <1>1 DEF ContentInv
<1>9. QED
  BY <1>1, <1>5, <1>6, <1>7, <1>8, ContentOneDevice
----------------------------------------------------------------------------
\* The push.

\* A scan draws finitely many objects: no more than there are files.
LEMMA DrawsFew ==
  ASSUME SyncInv, ContentInv, NEW d \in Devices, Reconcile(d)
  PROVE  IsFiniteSet(drawn')
<1> DEFINE files == Created(state[d].records, vault[d])
<1>1. PICK created \in Draws(files) : drawn' = drawn \cup DOMAIN created
  BY Zenon DEF Reconcile
<1>2. IsFiniteSet(files)
  <2>1. files \subseteq Existing(vault[d])
    BY DEF Created, NewFiles
  <2>2. QED
    BY <2>1, KeptFacts, FS_Subset DEF Kept
<1>3. PICK ids : created \in [ids -> files] /\ IsInjective(created)
  BY DEF Draws
<1> HIDE DEF files
<1>4. IsFiniteSet(ids)
  <2>1. created \in Injection(ids, files)
    BY <1>3 DEF Injection, IsInjective
  <2>2. QED
    BY <1>2, <2>1, FS_Injection
<1>5. IsFiniteSet(drawn \cup ids)
  BY <1>4, FS_Union DEF ContentInv
<1>6. QED
  BY <1>1, <1>3, <1>5

\* The scan of the vault: the records from which a push begins are those of the device.
LEMMA ReconcileKeepsContents ==
  ASSUME SyncInv, ContentInv, NEW d \in Devices, Reconcile(d)
  PROVE  ContentInv'
<1>1. PICK pending \in MapsTo(PendingOperations), prepared \in PreparedCommits \cup {None} :
        LET s == [state[d] EXCEPT !.pending = pending, !.prepared = prepared]
            r == NextOfPush(d, pending)
        IN
        /\ Becomes(d, s, r)
        /\ prepared = None <=> state[d].prepared = None
        /\ prepared # None => /\ prepared.id = state[d].prepared.id
                              /\ prepared.commit = state[d].prepared.commit
        /\ run[d].phase = "pulled"
        /\ UNCHANGED <<commits, vault>>
  BY ReconcileForm
<1> DEFINE s == [state[d] EXCEPT !.pending = pending, !.prepared = prepared]
           r == NextOfPush(d, pending)
<1>2. /\ r \in Runs
      /\ r.phase \in {"idle", "preparing", "publishing"}
      /\ r.phase = "preparing" => r.records = state[d].records
  BY NextOfPushType
<1>3. s \in SyncStates /\ s.records = state[d].records /\ s.prepared = prepared
  BY DeviceFacts, StateFacts DEF SyncStates
<1>4. Becomes(d, s, r)
  BY <1>1
<1> HIDE DEF s, r
<1>5. /\ Known(s.records, Objects, Published) /\ IsFiniteSet(Existing(vault[d]))
      /\ s.prepared # None =>
           Known(s.prepared.commit.manifest, Buried(s.prepared.commit.manifest), Published)
  BY <1>1, <1>3, KeptFacts DEF Kept
<1>6. r.phase = "preparing" => Known(r.records, Buried(r.records) \cup r.todo, Published)
  <2>1. DOMAIN state[d].records \subseteq Objects
    BY DeviceFacts, StateFacts, MapFacts
  <2>2. QED
    BY <1>2, <1>3, <1>5, <2>1 DEF Known
<1>7. Kept(s, r, vault[d], Published)
  BY <1>2, <1>5, <1>6 DEF Kept
<1>8. QED
  BY <1>1, <1>2, <1>3, <1>4, <1>7, DrawsFew, ContentOneDevice

\* One more record of a push: a tombstone keeps the content of the record it takes the place of.
LEMMA PrepareKeepsContents ==
  ASSUME SyncInv, ContentInv, NEW d \in Devices, Prepare(d)
  PROVE  ContentInv'
<1>1. CASE Throw(d)
  BY <1>1, OthersKeepContents
<1>2. ASSUME NEW o \in run[d].todo, NEW record \in Records,
             record.tombstone =>
               o \in DOMAIN run[d].records /\ record.hash = run[d].records[o].hash,
             Becomes(d, state[d], [run[d] EXCEPT !.todo = @ \ {o}, !.records = Put(@, o, record)]),
             run[d].phase = "preparing",
             UNCHANGED <<commits, drawn, vault>>
      PROVE  ContentInv'
  <2>1. PICK m : m = run[d].records
    OBVIOUS
  <2>2. m \in MapsTo(Records) /\ o \in Objects
    BY <2>1, RunFacts, DeviceFacts
  <2>3. Put(m, o, record) \in MapsTo(Records)
    BY <2>2, PutRecord
  <2> DEFINE r == [run[d] EXCEPT !.todo = @ \ {o}, !.records = Put(m, o, record)]
  <2>4. Becomes(d, state[d], r)
    BY <1>2, <2>1
  <2>5. /\ r \in Runs /\ r.phase = "preparing" /\ r.records = Put(m, o, record)
        /\ r.todo = run[d].todo \ {o}
    BY <1>2, <2>3, RunFacts, DeviceFacts DEF Runs
  <2> HIDE DEF r
  <2>6. /\ DOMAIN r.records = DOMAIN m \cup {o} /\ r.records[o] = record
        /\ \A p \in DOMAIN m \ {o} : r.records[p] = m[p]
    BY <2>5 DEF Put
  <2>7. Known(m, Buried(m) \cup run[d].todo, Published)
    BY <1>2, <2>1, KeptFacts DEF Kept
  <2>8. Known(r.records, Buried(r.records) \cup r.todo, Published)
    <3>1. ASSUME NEW p \in DOMAIN r.records, p \in Buried(r.records) \cup r.todo
          PROVE  r.records[p].hash \in Published
      <4>1. CASE p = o
        <5>1. record.tombstone
          BY <2>5, <2>6, <3>1, <4>1 DEF Buried
        <5>2. QED
          BY <1>2, <2>1, <2>6, <2>7, <4>1, <5>1 DEF Known
      <4>2. CASE p # o
        <5>1. p \in DOMAIN m /\ r.records[p] = m[p] /\ p \in Buried(m) \cup run[d].todo
          BY <2>5, <2>6, <3>1, <4>2 DEF Buried
        <5>2. QED
          BY <2>7, <5>1 DEF Known
      <4>3. QED
        BY <4>1, <4>2
    <3>2. QED
      BY <3>1 DEF Known
  <2>9. Kept(state[d], r, vault[d], Published)
    BY <2>5, <2>8, KeptFacts DEF Kept
  <2>10. IsFiniteSet(drawn')
    BY <1>2 DEF ContentInv
  <2>11. QED
    BY <1>2, <2>4, <2>5, <2>9, <2>10, DeviceFacts, StateFacts, ContentOneDevice
<1>3. QED
  BY <1>1, <1>2, PrepareForm

\* The signature: the tombstones of the commit have published contents.
LEMMA SignKeepsContents ==
  ASSUME SyncInv, ContentInv, NEW d \in Devices, Sign(d)
  PROVE  ContentInv'
<1> DEFINE prepared == [id |-> NextId(d), commit |-> SignedCommit(d),
                        completes |-> DOMAIN state[d].pending]
           s == [state[d] EXCEPT !.prepared = prepared]
           r == [Idle EXCEPT !.phase = "publishing"]
<1>1. /\ Becomes(d, s, r) /\ UNCHANGED <<commits, drawn, vault>>
      /\ prepared \in PreparedCommits /\ run[d].phase = "preparing"
  BY SignForm
<1>2. r \in Runs /\ r.phase = "publishing"
  BY IdleRun DEF Phases
<1>3. prepared.commit = SignedCommit(d) /\ SignedCommit(d).manifest = run[d].records
  BY DEF SignedCommit
<1> HIDE DEF prepared
<1>4. s \in SyncStates /\ s.records = state[d].records /\ s.prepared = prepared
  BY <1>1, DeviceFacts, StateFacts DEF SyncStates
<1> HIDE DEF s, r
<1>5. Known(run[d].records, Buried(run[d].records), Published)
  BY <1>1, KeptFacts DEF Kept, Known
<1>6. Kept(s, r, vault[d], Published)
  BY <1>2, <1>3, <1>4, <1>5, KeptFacts, KeptAtRest DEF Kept
<1>7. IsFiniteSet(drawn')
  BY <1>1 DEF ContentInv
<1>8. QED
  BY <1>1, <1>2, <1>4, <1>6, <1>7, ContentOneDevice

\* The commit reaches the server, and its contents are published.
LEMMA PutCommitKeepsContents ==
  ASSUME SyncInv, ContentInv, NEW d \in Devices, PutCommit(d)
  PROVE  ContentInv'
<1> DEFINE id == state[d].prepared.id
           commit == state[d].prepared.commit
<1>1. CASE Throw(d)
  BY <1>1, OthersKeepContents
<1>2. ASSUME NEW heads,
             state[d].prepared # None,
             Acceptable(id, commit),
             commits' = Put(commits, id, commit),
             heads \subseteq DOMAIN commits',
             Becomes(d, state[d], [Idle EXCEPT !.phase = "accepted", !.heads = heads]),
             UNCHANGED <<drawn, vault>>
      PROVE  ContentInv'
  <2> DEFINE r == [Idle EXCEPT !.phase = "accepted", !.heads = heads]
  <2>1. /\ GraphOK'
        /\ DOMAIN commits' = DOMAIN commits \cup {id}
        /\ commits'[id] = commit
        /\ \A other \in DOMAIN commits \ {id} : commits'[other] = commits[other]
    BY <1>2, GraphGrows
  <2>2. id \in DOMAIN commits => commits[id] = commit
    BY <1>2 DEF Acceptable
  <2>3. Extends(commits, commits')
    BY <2>1, <2>2 DEF Extends
  <2>4. Published \subseteq Published'
    BY <2>3, PublishedGrows
  <2>5. heads \subseteq CommitIds
    BY <1>2, <2>1 DEF GraphOK
  <2>6. r \in Runs /\ r.phase = "accepted"
    BY <2>5, EmptyMap DEF Idle, Runs, Phases
  <2>7. /\ state'[d] = state[d] /\ run'[d] = r
        /\ \A e \in Devices \ {d} : state'[e] = state[e] /\ run'[e] = run[e]
    BY <1>2, <2>6, BecomesEffect, DeviceFacts, StateFacts
  <2> HIDE DEF r
  <2>8. IsFiniteSet(DOMAIN commits')
    BY <2>1, FS_AddElement DEF ContentInv
  <2>9. Known(commit.manifest, Objects, Published')
    <3>1. ASSUME NEW o \in DOMAIN commit.manifest
          PROVE  commit.manifest[o].hash \in Published'
      <4>1. CASE commit.manifest[o].tombstone
        BY <1>2, <2>4, <4>1, KeptFacts DEF Kept, Known, Buried
      <4>2. CASE ~commit.manifest[o].tombstone
        <5>1. commit.manifest[o] \in Range(commits'[id].manifest) /\ id \in DOMAIN commits'
          BY <2>1 DEF Range
        <5>2. QED
          BY <4>2, <5>1 DEF Published
      <4>3. QED
        BY <4>1, <4>2
    <3>2. QED
      BY <3>1 DEF Known
  <2>10. ASSUME NEW other \in DOMAIN commits'
         PROVE  Known(commits'[other].manifest, Objects, Published')
    <3>1. CASE other = id
      BY <2>1, <2>9, <3>1
    <3>2. CASE other # id
      BY <2>1, <2>4, <3>2 DEF ContentInv, Known
    <3>3. QED
      BY <3>1, <3>2
  <2>11. ASSUME NEW e \in Devices
         PROVE  Kept(state'[e], run'[e], vault'[e], Published')
    <3>1. CASE e = d
      <4>1. Kept(state[d], r, vault[d], Published)
        BY <2>6, KeptFacts, KeptAtRest DEF Kept
      <4>2. QED
        BY <1>2, <2>4, <2>7, <3>1, <4>1, KeptInMore
    <3>2. CASE e # d
      BY <1>2, <2>4, <2>7, <3>2, KeptFacts, KeptInMore
    <3>3. QED
      BY <3>1, <3>2
  <2>12. IsFiniteSet(drawn')
    BY <1>2 DEF ContentInv
  <2>13. QED
    BY <2>8, <2>10, <2>11, <2>12 DEF ContentInv
<1>3. QED
  BY <1>1, <1>2, PutCommitForm

\* The end of a push: the records are those of an accepted commit.
LEMMA PublishPreparedKeepsContents ==
  ASSUME SyncInv, HistoryInv, ContentInv, NEW d \in Devices, PublishPrepared(d)
  PROVE  ContentInv'
<1> DEFINE prepared == state[d].prepared
           left == DOMAIN state[d].pending \ prepared.completes
           pending == Restrict(state[d].pending, left)
           s == [state[d] EXCEPT
                   !.initialized = TRUE,
                   !.sequence = prepared.id[2],
                   !.lamport = prepared.commit.lamport,
                   !.known = state[d].known \cup {prepared.id},
                   !.heads = run[d].heads,
                   !.records = prepared.commit.manifest,
                   !.pending = pending,
                   !.prepared = None]
<1>1. CASE Throw(d)
  BY <1>1, OthersKeepContents
<1>2. ASSUME run[d].phase = "accepted", prepared # None, Becomes(d, s, Idle),
             UNCHANGED <<commits, drawn, vault>>
      PROVE  ContentInv'
  <2>1. /\ prepared.id \in CommitIds /\ prepared.commit.manifest \in MapsTo(Records)
        /\ prepared.commit.lamport \in Nat /\ prepared.id \in DOMAIN commits
    BY <1>2, PreparedFacts, DeviceFacts DEF PhaseOK
  <2>2. prepared.id[2] \in Nat
    BY <2>1 DEF CommitIds
  <2>3. pending \in MapsTo(PendingOperations)
    BY DeviceFacts, StateFacts, RestrictMap
  <2>4. commits[prepared.id] = prepared.commit
    BY <1>2, <2>1, NumbersUsed DEF NumbersAreUsedOnce
  <2>5. Known(prepared.commit.manifest, Objects, Published)
    BY <2>1, <2>4 DEF ContentInv
  <2> HIDE DEF prepared, left, pending
  <2>6. s \in SyncStates /\ s.records = prepared.commit.manifest /\ s.prepared = None
    BY <2>1, <2>2, <2>3, DeviceFacts, StateFacts, RunFacts DEF SyncStates
  <2> HIDE DEF s
  <2>7. Idle \in Runs /\ Idle.phase = "idle"
    BY IdleRun DEF Phases
  <2>8. Kept(s, Idle, vault[d], Published)
    BY <2>5, <2>6, <2>7, KeptFacts DEF Kept
  <2>9. IsFiniteSet(drawn')
    BY <1>2 DEF ContentInv
  <2>10. QED
    BY <1>2, <2>6, <2>7, <2>8, <2>9, ContentOneDevice
<1>3. QED
  BY <1>1, <1>2, PublishPreparedForm

----------------------------------------------------------------------------
\* All steps.

\* Every step.
LEMMA NextKeepsContents ==
  ASSUME SyncInv, HistoryInv, ContentInv, [Next]_syncVars,
         \A d \in Devices : ~IsFiniteSet(Copies[d])
  PROVE  ContentInv'
<1>1. CASE UNCHANGED syncVars
  BY <1>1 DEF syncVars, vars, ContentInv, Published
<1>2. ASSUME NEW d \in Devices,
             UserStep(d) \/ Interrupt(d) \/ ApplyInterrupted(d) \/ SyncStep(d)
      PROVE  ContentInv'
  <2>1. CASE UserStep(d)
    BY <2>1, UserKeepsContents
  <2>2. CASE Interrupt(d)
    BY <2>2, OthersKeepContents
  <2>3. CASE ApplyInterrupted(d)
    BY <2>3, ApplyInterruptedKeepsContents
  <2>4. CASE SyncStep(d)
    <3>1. CASE PullStep(d)
      BY <3>1, PullStartKeepsContents, ApplyEntryKeepsContents, PullSaveKeepsContents
         DEF PullStep
    <3>2. CASE PushStep(d)
      BY <3>2, ReconcileKeepsContents, PrepareKeepsContents, SignKeepsContents,
         PutCommitKeepsContents, PublishPreparedKeepsContents DEF PushStep
    <3>3. QED
      BY <2>4, <3>1, <3>2 DEF SyncStep
  <2>5. QED
    BY <1>2, <2>1, <2>2, <2>3, <2>4
<1>3. QED
  BY <1>1, <1>2 DEF Next

\* At the beginning the devices have the notes that the first commit published, if any.
LEMMA InitContents == Init => ContentInv
<1> SUFFICES ASSUME Init PROVE ContentInv
  OBVIOUS
<1>1. PICK notes \in Beginnings :
        /\ run = [d \in Devices |-> Idle]
        /\ drawn = DOMAIN notes
        /\ vault = [d \in Devices |-> FilesOf(Shared(notes))]
        /\ IF notes = Empty
           THEN /\ commits = [id \in {} |-> None]
                /\ state = [d \in Devices |-> EmptyState]
           ELSE /\ commits = [id \in {Root} |->
                     [parents |-> {}, past |-> {Root}, lamport |-> 1,
                      manifest |-> Shared(notes)]]
                /\ state = [d \in Devices |-> SharedState(d, notes)]
  BY Zenon DEF Init
<1> DEFINE records == Shared(notes)
<1>2. /\ records \in MapsTo(Records) /\ DOMAIN records = DOMAIN notes
      /\ IsFiniteSet(DOMAIN records) /\ FilesOf(records) \in FileMaps
  BY SharedType, FilesOfType, BeginningsAssumption
<1>3. \A o \in DOMAIN records : ~records[o].tombstone
  BY DEF Shared
<1> HIDE DEF records
<1>4. IsFiniteSet(Existing(FilesOf(records)))
  <2>1. Existing(FilesOf(records)) \subseteq {records[o].path : o \in DOMAIN records}
    BY DEF Existing, FilesOf, RecordAt, ActiveObjects
  <2>2. QED
    BY <1>2, <2>1, FewPaths, FS_Subset
<1>5. IsFiniteSet(drawn)
  BY <1>1, <1>2
<1>6. Idle.phase = "idle"
  BY IdleRun DEF Phases
<1>7. ASSUME NEW d \in Devices, state[d].prepared = None, Known(state[d].records, Objects, Published)
      PROVE  Kept(state[d], run[d], vault[d], Published)
  <2>1. run[d] = Idle /\ vault[d] = FilesOf(records)
    BY <1>1 DEF records
  <2>2. QED
    BY <1>4, <1>6, <1>7, <2>1, KeptAtRest
<1>8. CASE notes = Empty
  <2>1. DOMAIN commits = {} /\ \A d \in Devices : state[d] = EmptyState
    BY <1>1, <1>8
  <2>2. EmptyState.prepared = None /\ DOMAIN EmptyState.records = {}
    BY EmptyMap DEF EmptyState
  <2>3. \A d \in Devices : Kept(state[d], run[d], vault[d], Published)
    BY <1>7, <2>1, <2>2 DEF Known
  <2>4. IsFiniteSet(DOMAIN commits)
    BY <2>1, FS_EmptySet
  <2>5. QED
    BY <1>5, <2>1, <2>3, <2>4 DEF ContentInv
<1>9. CASE notes # Empty
  <2>1. /\ DOMAIN commits = {Root} /\ commits[Root].manifest = records
        /\ \A d \in Devices : state[d] = SharedState(d, notes)
    BY <1>1, <1>9 DEF records
  <2>2. Known(records, Objects, Published)
    BY <1>3, <2>1, EntryPublished DEF Known
  <2>3. \A d \in Devices : SharedState(d, notes).prepared = None
                           /\ SharedState(d, notes).records = records
    BY DEF SharedState, EmptyState, records
  <2>4. \A d \in Devices : Kept(state[d], run[d], vault[d], Published)
    BY <1>7, <2>1, <2>2, <2>3
  <2>5. IsFiniteSet(DOMAIN commits)
    BY <2>1, FS_Singleton
  <2>6. QED
    BY <1>5, <2>1, <2>2, <2>4, <2>5 DEF ContentInv
<1>10. QED
  BY <1>8, <1>9

\* Somewhere there is no file, since names are endless and files are not.
LEMMA SomethingMissing ==
  ASSUME NEW d \in Devices, ~IsFiniteSet(Copies[d]),
         NEW files \in FileMaps, IsFiniteSet(Existing(files))
  PROVE  None \in Range(files)
<1>1. PICK f \in Copies[d] : f \notin Existing(files)
  <2>1. ~(Copies[d] \subseteq Existing(files))
    BY FS_Subset
  <2>2. QED
    BY <2>1
<1>2. f \in Files
  BY DEF Files
<1>3. QED
  BY <1>1, <1>2 DEF Existing, FileMaps, Range

\* A step that does not write entries leaves the files of a vault that is being synchronized
\* as they are.
LEMMA OnlyEntriesWrite ==
  ASSUME SyncInv, [Next]_syncVars, NEW d \in Devices, run[d].phase # "idle",
         ~ApplyEntry(d), ~ApplyInterrupted(d)
  PROVE  vault'[d] = vault[d]
<1>1. CASE UNCHANGED syncVars
  BY <1>1 DEF syncVars, vars
<1>2. ASSUME NEW e \in Devices, UserStep(e)
      PROVE  vault'[d] = vault[d]
  <2>1. run[e].phase = "idle" /\ \E files : vault' = [vault EXCEPT ![e] = files]
    BY <1>2 DEF UserStep, Create, Modify, Move, Delete, Edit
  <2>2. QED
    BY <2>1, DeviceFacts
<1>3. ASSUME NEW e \in Devices, ApplyEntry(e) \/ ApplyInterrupted(e)
      PROVE  vault'[d] = vault[d]
  <2>1. e # d /\ \E files : vault' = [vault EXCEPT ![e] = files]
    BY <1>3 DEF ApplyEntry, ApplyInterrupted
  <2>2. QED
    BY <2>1, DeviceFacts
<1>4. ASSUME NEW e \in Devices, Interrupt(e) \/ SyncStep(e), ~ApplyEntry(e)
      PROVE  vault' = vault
  <2>1. CASE Interrupt(e)
    BY <2>1 DEF Interrupt
  <2>2. CASE PullStep(e)
    BY <1>4, <2>2 DEF PullStep, PullStart, PullSave
  <2>3. CASE PushStep(e)
    BY <2>3 DEF PushStep, Reconcile, Prepare, Sign, PutCommit, PublishPrepared, Throw
  <2>4. QED
    BY <1>4, <2>1, <2>2, <2>3 DEF SyncStep
<1>5. QED
  BY <1>1, <1>2, <1>3, <1>4 DEF Next

\* What saves the contents keeps them in the vault or in the history.
LEMMA SavedIsThere ==
  ASSUME SyncInv, NEW d \in Devices, ~IsFiniteSet(Copies[d]), NEW files,
         vault' = [vault EXCEPT ![d] = files], Leaves(vault[d], files, Published),
         commits' = commits
  PROVE  Range(vault[d]) \subseteq Range(vault'[d]) \cup Published'
<1>1. vault'[d] = files /\ Published' = Published /\ vault[d] \in FileMaps /\ files \in FileMaps
  BY DeviceFacts DEF Published, Leaves
<1>2. None \in Range(files)
  BY SomethingMissing DEF Leaves
<1>3. ASSUME NEW f \in Files
      PROVE  vault[d][f] \in Range(files) \cup Published
  <2>1. CASE vault[d][f] = None
    BY <1>2, <2>1
  <2>2. CASE vault[d][f] # None
    <3>1. \A g \in Files : files[g] \in Range(files)
      BY <1>1 DEF FileMaps, Range
    <3>2. QED
      BY <2>2, <3>1 DEF Leaves, Saves
  <2>3. QED
    BY <2>1, <2>2
<1>4. QED
  BY <1>1, <1>3 DEF FileMaps, Range

\* No step of a synchronization loses a content.
LEMMA StepLosesNothing ==
  ASSUME SyncInv, ContentInv, [Next]_syncVars,
         NEW d \in Devices, ~IsFiniteSet(Copies[d]), run[d].phase # "idle"
  PROVE  Range(vault[d]) \subseteq Range(vault'[d]) \cup Published'
<1>1. CASE ~ApplyEntry(d) /\ ~ApplyInterrupted(d)
  BY <1>1, OnlyEntriesWrite
<1>2. CASE ApplyEntry(d)
  <2>1. PICK files : /\ vault' = [vault EXCEPT ![d] = files]
                     /\ Sound(d, files, Published)
                     /\ Saves(vault[d], files, Published)
                     /\ commits' = commits
    BY <1>2, ApplyEntryForm
  <2>2. Leaves(vault[d], files, Published)
    BY <2>1 DEF Leaves, Sound
  <2>3. QED
    BY <2>1, <2>2, SavedIsThere
<1>3. CASE ApplyInterrupted(d)
  BY <1>3, ApplyInterruptedForm, SavedIsThere
<1>4. QED
  BY <1>1, <1>2, <1>3

----------------------------------------------------------------------------
\* When a synchronization takes a content out of a vault, that content is still in another
\* file of the vault or in the history of the server, if the names for conflict copies do not
\* run out (pull.ts: applyEntry; preserveBytes, whose uniquePath counts
\* on until a name is free).
THEOREM ContentsSurvive ==
  ASSUME \A d \in Devices : ~IsFiniteSet(Copies[d])
  PROVE  Spec => NothingIsLost
<1>1. Init => SyncInv /\ HistoryInv /\ ContentInv
  BY InitInv, InitHistory, InitContents
<1>2. SyncInv /\ HistoryInv /\ ContentInv /\ [Next]_syncVars
        => (SyncInv /\ HistoryInv /\ ContentInv)'
  BY NextKeepsInv, NextKeepsHistory, NextKeepsContents
<1>3. SyncInv /\ HistoryInv /\ ContentInv /\ [Next]_syncVars
        => [\A d \in Devices :
              run[d].phase # "idle" =>
                Range(vault[d]) \subseteq Range(vault'[d]) \cup Published']_syncVars
  BY StepLosesNothing
<1>4. QED
  BY <1>1, <1>2, <1>3, PTL DEF Spec, NothingIsLost
=============================================================================
