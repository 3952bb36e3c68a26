---------------------------- MODULE VaultSyncTypes ----------------------------
(***************************************************************************)
(* The types of VaultSync, proved for every set of devices, files,         *)
(* contents and objects: what every step of a synchronization makes of     *)
(* files, records and commits is again of that kind, the choices among     *)
(* heads and entries always find something to choose, and no object is     *)
(* named that was not drawn.                                               *)
(***************************************************************************)
EXTENDS VaultSync, NaturalsInduction, FiniteSetTheorems, WellFoundedInduction,
        TLAPS

FileMaps == [Files -> Contents \cup {None}]

Runs ==
  [phase : Phases, local : FileMaps \cup {Empty}, selected : MapsTo(Records),
   todo : SUBSET Objects, records : MapsTo(Records), heads : SUBSET CommitIds,
   conflicts : MapsTo(SUBSET Records)]

\* The accepted commits: each refers to accepted commits only, and their numbers and times
\* have a bound, so that the choices by the highest have something to choose.
GraphOK ==
  /\ DOMAIN commits \subseteq CommitIds
  /\ \A id \in DOMAIN commits :
       /\ commits[id] \in Commits
       /\ commits[id].parents \subseteq DOMAIN commits
       /\ commits[id].past \subseteq DOMAIN commits
       /\ id \in commits[id].past
  /\ \E n \in Nat : \A id \in DOMAIN commits :
       commits[id].lamport <= n /\ id[1] <= n /\ id[2] <= n

\* The types of the variables.
TypesOK ==
  /\ GraphOK
  /\ drawn \subseteq Objects
  /\ vault \in [Devices -> FileMaps]
  /\ state \in [Devices -> SyncStates]
  /\ run \in [Devices -> Runs]
  /\ edits \in Nat

\* What a device with state s and synchronization r refers to is accepted; a prepared commit
\* refers to accepted commits, or to itself.
RefersTo(s, r, accepted) ==
  /\ s.known \subseteq accepted
  /\ s.heads \subseteq accepted
  /\ r.heads \subseteq accepted
  /\ s.prepared # None =>
       /\ s.prepared.commit.parents \subseteq accepted
       /\ s.prepared.commit.past \subseteq accepted \cup {s.prepared.id}
       /\ s.prepared.id \in s.prepared.commit.past

\* What the phases of a synchronization rely on, and what pending operations write.
PhaseOK(s, r, accepted) ==
  /\ r.phase = "applying" =>
       /\ r.local \in FileMaps
       /\ r.todo \subseteq DOMAIN r.selected
       /\ DOMAIN r.conflicts = DOMAIN r.selected
  /\ r.phase = "preparing" => r.todo \subseteq DOMAIN s.pending
  /\ r.phase = "publishing" => s.prepared # None
  /\ r.phase = "accepted" => s.prepared # None /\ s.prepared.id \in accepted
  /\ \A o \in DOMAIN s.pending : s.pending[o].kind # "delete" => s.pending[o].hash \in Contents

\* The objects that a device names.
NamesOnly(s, r, objects) ==
  /\ DOMAIN s.records \subseteq objects
  /\ DOMAIN s.pending \subseteq objects
  /\ DOMAIN r.selected \subseteq objects
  /\ DOMAIN r.records \subseteq objects
  /\ s.prepared # None => DOMAIN s.prepared.commit.manifest \subseteq objects

\* The inductive invariant.
SyncInv ==
  /\ TypesOK
  /\ \A d \in Devices :
       /\ RefersTo(state[d], run[d], DOMAIN commits)
       /\ PhaseOK(state[d], run[d], DOMAIN commits)
       /\ NamesOnly(state[d], run[d], drawn)
  /\ \A id \in DOMAIN commits : DOMAIN commits[id].manifest \subseteq drawn

----------------------------------------------------------------------------
\* Numbers.

\* A set of numbers that is not empty has a least one.
LEMMA Least ==
  ASSUME NEW S \in SUBSET Nat, S # {}
  PROVE  Min(S) \in S /\ \A y \in S : Min(S) <= y
<1>1. PICK x \in S : \A y \in S : ~ (<<y, x>> \in OpToRel(<, Nat))
  BY WFMin, NatLessThanWellFounded, Zenon
<1>2. \A y \in S : ~ (y < x)
  BY <1>1 DEF OpToRel
<1>3. \A y \in S : x <= y
  BY <1>2
<1>4. QED
  BY <1>3, Zenon DEF Min

\* A set of numbers that is not empty and has a bound has a greatest one.
LEMMA Greatest ==
  ASSUME NEW S \in SUBSET Nat, S # {}, NEW n \in Nat, \A y \in S : y <= n
  PROVE  Max(S) \in S /\ \A y \in S : Max(S) >= y
<1> DEFINE bounds == {m \in Nat : \A y \in S : y <= m}
<1>1. bounds \in SUBSET Nat /\ bounds # {}
  OBVIOUS
<1> DEFINE m == Min(bounds)
<1>2. m \in bounds /\ \A y \in bounds : m <= y
  BY <1>1, Least
<1> HIDE DEF m
<1>3. m \in S
  <2>1. ASSUME m \notin S
        PROVE  FALSE
    <3>1. \A y \in S : y <= m - 1 /\ m - 1 \in Nat
      BY <1>2, <2>1
    <3>2. m - 1 \in bounds
      BY <3>1
    <3>3. QED
      BY <3>2, <1>2
  <2>2. QED
    BY <2>1
<1>4. \A y \in S : m >= y
  BY <1>2
<1>5. QED
  BY <1>3, <1>4, Zenon DEF Max

----------------------------------------------------------------------------
\* Maps from objects.

\* What a map is.
LEMMA MapFacts ==
  ASSUME NEW S, NEW m \in MapsTo(S)
  PROVE  /\ DOMAIN m \subseteq Objects
         /\ m \in [DOMAIN m -> S]
         /\ \A o \in DOMAIN m : m[o] \in S
BY DEF MapsTo

\* A function on objects is a map.
LEMMA MapIsMap ==
  ASSUME NEW S, NEW D, D \subseteq Objects, NEW m \in [D -> S]
  PROVE  m \in MapsTo(S) /\ DOMAIN m = D
BY DEF MapsTo

\* The empty map.
LEMMA EmptyMap ==
  ASSUME NEW S
  PROVE  Empty \in MapsTo(S) /\ DOMAIN Empty = {}
BY DEF Empty, MapsTo

\* A map with one more entry.
LEMMA PutMap ==
  ASSUME NEW S, NEW m \in MapsTo(S), NEW o \in Objects, NEW x \in S
  PROVE  Put(m, o, x) \in MapsTo(S) /\ DOMAIN Put(m, o, x) = DOMAIN m \cup {o}
<1>1. DOMAIN m \cup {o} \subseteq Objects /\ \A p \in DOMAIN m : m[p] \in S
  BY MapFacts
<1>2. Put(m, o, x) \in [DOMAIN m \cup {o} -> S]
  BY <1>1 DEF Put
<1>3. QED
  BY <1>1, <1>2, MapIsMap

\* The value under a key.
LEMMA PutValue ==
  ASSUME NEW m, NEW k, NEW x
  PROVE  /\ DOMAIN Put(m, k, x) = DOMAIN m \cup {k}
         /\ Put(m, k, x)[k] = x
         /\ \A other \in DOMAIN m \ {k} : Put(m, k, x)[other] = m[other]
BY DEF Put
----------------------------------------------------------------------------
\* Choices.

\* The order of identifiers.
IdBelow(left, right) == left[1] < right[1] \/ (left[1] = right[1] /\ left[2] < right[2])

\* Identifiers of accepted commits are pairs of numbers.
LEMMA IdFacts ==
  ASSUME GraphOK, NEW id \in DOMAIN commits
  PROVE  id[1] \in Nat /\ id[2] \in Nat /\ id = <<id[1], id[2]>> /\ commits[id].lamport \in Nat
<1>1. id \in CommitIds /\ commits[id] \in Commits
  BY DEF GraphOK
<1>2. id \in Devices \X (Nat \ {0})
  BY <1>1 DEF CommitIds
<1>3. PICK device \in Devices, number \in Nat \ {0} : id = <<device, number>>
  BY <1>2
<1>4. id[1] \in Nat /\ id[2] \in Nat /\ id = <<id[1], id[2]>>
  BY <1>3, IdentifiersAssumption
<1>5. QED
  BY <1>1, <1>4 DEF Commits

\* Among accepted commits there is one with the last identifier.
LEMMA LastId ==
  ASSUME GraphOK, NEW ids, ids \subseteq DOMAIN commits, ids # {}
  PROVE  \E id \in ids : \A other \in ids \ {id} : IdBelow(other, id)
<1>1. PICK n \in Nat : \A id \in DOMAIN commits : id[1] <= n /\ id[2] <= n
  BY DEF GraphOK
<1> DEFINE firsts == {id[1] : id \in ids}
           first == Max(firsts)
<1>2. firsts \in SUBSET Nat /\ firsts # {} /\ \A y \in firsts : y <= n
  BY <1>1, IdFacts
<1>3. first \in firsts /\ \A y \in firsts : first >= y
  BY <1>2, Greatest
<1> DEFINE seconds == {id[2] : id \in {i \in ids : i[1] = first}}
           second == Max(seconds)
<1>4. seconds \in SUBSET Nat /\ seconds # {} /\ \A y \in seconds : y <= n
  BY <1>1, <1>3, IdFacts
<1>5. second \in seconds /\ \A y \in seconds : second >= y
  BY <1>4, Greatest
<1> HIDE DEF first, second
<1>6. PICK id \in ids : id[1] = first /\ id[2] = second
  BY <1>5
<1>7. ASSUME NEW other \in ids, other # id
      PROVE  IdBelow(other, id)
  <2>1. /\ other[1] \in Nat /\ other[2] \in Nat /\ other = <<other[1], other[2]>>
        /\ id[1] \in Nat /\ id[2] \in Nat /\ id = <<id[1], id[2]>>
    BY IdFacts
  <2>2. other[1] \in firsts
    OBVIOUS
  <2>3. other[1] <= id[1]
    BY <2>1, <2>2, <1>3, <1>6
  <2>4. CASE other[1] < id[1]
    BY <2>4 DEF IdBelow
  <2>5. CASE other[1] = id[1]
    <3>1. other[2] \in seconds
      BY <2>5, <1>6
    <3>2. other[2] <= id[2] /\ other[2] # id[2]
      BY <2>1, <2>5, <3>1, <1>5, <1>6, <1>7
    <3>3. QED
      BY <2>1, <2>5, <3>2 DEF IdBelow
  <2>6. QED
    BY <2>1, <2>3, <2>4, <2>5
<1>8. QED
  BY <1>7

\* Among accepted commits there is one above all others.
LEMMA HighestExists ==
  ASSUME GraphOK, NEW ids, ids \subseteq DOMAIN commits, ids # {}
  PROVE  \E id \in ids : \A other \in ids \ {id} : Below(other, id)
<1>1. PICK n \in Nat : \A id \in DOMAIN commits : commits[id].lamport <= n
  BY DEF GraphOK
<1> DEFINE times == {commits[id].lamport : id \in ids}
           time == Max(times)
<1>2. times \in SUBSET Nat /\ times # {} /\ \A y \in times : y <= n
  BY <1>1, IdFacts
<1>3. time \in times /\ \A y \in times : time >= y
  BY <1>2, Greatest
<1> HIDE DEF time
<1> DEFINE latest == {i \in ids : commits[i].lamport = time}
<1>4. latest # {} /\ latest \subseteq DOMAIN commits
  BY <1>3
<1>5. PICK id \in latest : \A other \in latest \ {id} : IdBelow(other, id)
  BY <1>4, LastId
<1>6. ASSUME NEW other \in ids, other # id
      PROVE  Below(other, id)
  <2>1. commits[other].lamport \in times
    OBVIOUS
  <2>2. commits[other].lamport <= commits[id].lamport
    BY <2>1, <1>3, <1>5
  <2>3. CASE commits[other].lamport = commits[id].lamport
    BY <2>3, <1>5, <1>6 DEF IdBelow, Below
  <2>4. CASE commits[other].lamport # commits[id].lamport
    <3>1. commits[other].lamport < commits[id].lamport
      BY <2>2, <2>4, <1>5, IdFacts
    <3>2. QED
      BY <3>1 DEF Below
  <2>5. QED
    BY <2>3, <2>4
<1>7. QED
  BY <1>5, <1>6

\* The highest of accepted commits is one of them.
LEMMA HighestIsOne ==
  ASSUME GraphOK, NEW ids, ids \subseteq DOMAIN commits, ids # {}
  PROVE  Highest(ids) \in ids
BY HighestExists, Zenon DEF Highest

\* A snapshot holds the records of its commit.
LEMMA SnapshotType ==
  ASSUME GraphOK, NEW id \in DOMAIN commits
  PROVE  /\ Snapshot(id) \in MapsTo(Records)
         /\ DOMAIN Snapshot(id) = DOMAIN commits[id].manifest
         /\ DOMAIN commits[id].manifest \subseteq Objects
         /\ \A o \in DOMAIN commits[id].manifest : Snapshot(id)[o] \in Records
<1> DEFINE manifest == commits[id].manifest
<1>1. manifest \in MapsTo(Records)
  BY DEF GraphOK, Commits
<1> HIDE DEF manifest
<1>2. DOMAIN manifest \subseteq Objects /\ \A o \in DOMAIN manifest : manifest[o] \in Records
  BY <1>1, MapFacts
<1>3. \A o \in DOMAIN manifest : [manifest[o] EXCEPT !.path = manifest[o].name] \in Records
  BY <1>2 DEF Records
<1>4. Snapshot(id) = [o \in DOMAIN manifest |-> [manifest[o] EXCEPT !.path = manifest[o].name]]
  BY Zenon DEF Snapshot, manifest
<1>5. Snapshot(id) \in [DOMAIN manifest -> Records]
  BY <1>3, <1>4
<1>6. Snapshot(id) \in MapsTo(Records) /\ DOMAIN Snapshot(id) = DOMAIN manifest
  BY <1>2, <1>5, MapIsMap
<1>7. \A o \in DOMAIN manifest : Snapshot(id)[o] \in Records
  BY <1>5
<1>8. QED
  BY <1>2, <1>6, <1>7 DEF manifest

\* The base of a merge is a snapshot of an accepted commit, or empty.
LEMMA BaseType ==
  ASSUME GraphOK, NEW heads
  PROVE  /\ BaseOf(heads) \in MapsTo(Records)
         /\ \/ BaseOf(heads) = Empty
            \/ \E id \in DOMAIN commits : BaseOf(heads) = Snapshot(id)
<1> DEFINE common == {id \in DOMAIN commits : \A head \in heads : id \in commits[head].past}
<1>1. CASE common = {}
  BY <1>1, EmptyMap DEF BaseOf
<1>2. CASE common # {}
  <2>1. Highest(common) \in common
    BY <1>2, HighestIsOne
  <2>2. BaseOf(heads) = Snapshot(Highest(common))
    BY <1>2 DEF BaseOf
  <2>3. QED
    BY <2>1, <2>2, SnapshotType
<1>3. QED
  BY <1>1, <1>2

\* The bearers of an entry: one of them has the last identifier.
LEMMA LastBearerIsOne ==
  ASSUME GraphOK, NEW heads, heads \subseteq DOMAIN commits, NEW o,
         NEW entry \in Variants(heads, o)
  PROVE  /\ LastBearer(heads, o, entry) \in heads
         /\ Snapshot(LastBearer(heads, o, entry))[o] = entry
<1> DEFINE same == {head \in Bearers(heads, o) : Snapshot(head)[o] = entry}
           last == LastBearer(heads, o, entry)
<1>1. same # {} /\ same \subseteq DOMAIN commits
  BY DEF Variants, Bearers
<1>2. \E id \in same : \A other \in same \ {id} : IdBelow(other, id)
  BY <1>1, LastId
<1>3. last = CHOOSE head \in same : \A other \in same \ {head} : IdBelow(other, head)
  BY DEF LastBearer, IdBelow
<1>4. last \in same
  <2> HIDE DEF same, last
  <2>1. QED
    BY <1>2, <1>3, Zenon
<1>5. QED
  BY <1>4 DEF Bearers

\* Among entries that heads bear there is a winner.
LEMMA WinnerIsOne ==
  ASSUME GraphOK, NEW heads, heads \subseteq DOMAIN commits, NEW o,
         NEW candidates, candidates \subseteq Variants(heads, o), candidates # {}
  PROVE  Winner(heads, o, candidates) \in candidates
<1> DEFINE last(entry) == LastBearer(heads, o, entry)
           bearers == {last(entry) : entry \in candidates}
<1>1. \A entry \in candidates : last(entry) \in heads /\ Snapshot(last(entry))[o] = entry
  BY LastBearerIsOne
<1> HIDE DEF last
<1>2. bearers # {} /\ bearers \subseteq DOMAIN commits
  BY <1>1
<1>3. PICK id \in bearers : \A other \in bearers \ {id} : Below(other, id)
  BY <1>2, HighestExists
<1>4. PICK entry \in candidates : id = last(entry)
  OBVIOUS
<1>5. \A other \in candidates \ {entry} : last(other) # last(entry)
  BY <1>1
<1>6. \A other \in candidates \ {entry} : Below(last(other), last(entry))
  BY <1>3, <1>4, <1>5
<1>7. QED
  BY <1>6, Zenon DEF Winner, last

\* What is chosen for an object of a head or of the base is a record, and so is what loses.
LEMMA ChoiceType ==
  ASSUME GraphOK, NEW heads, heads \subseteq DOMAIN commits, NEW base \in MapsTo(Records),
         NEW o, o \in DOMAIN base \/ Bearers(heads, o) # {}
  PROVE  /\ Choice(heads, base, o).selected \in Records
         /\ Choice(heads, base, o).conflicts \subseteq Records
<1> DEFINE variants == Variants(heads, o)
           changed == Changed(base, variants, o)
           candidates == IF changed = {} THEN variants ELSE changed
           winner == IF variants = {} THEN base[o] ELSE Winner(heads, o, candidates)
<1>1. variants \subseteq Records
  <2>1. \A head \in Bearers(heads, o) : Snapshot(head)[o] \in Records
    BY SnapshotType DEF Bearers
  <2>2. QED
    BY <2>1 DEF Variants
<1>2. changed \subseteq variants
  BY DEF Changed
<1>3. winner \in Records
  <2>1. CASE variants = {}
    <3>1. o \in DOMAIN base
      BY <2>1 DEF Variants
    <3>2. QED
      BY <2>1, <3>1, MapFacts
  <2>2. CASE variants # {}
    <3>1. candidates # {} /\ candidates \subseteq variants
      BY <1>2, <2>2
    <3> HIDE DEF candidates
    <3>2. Winner(heads, o, candidates) \in candidates
      BY <3>1, WinnerIsOne
    <3>3. QED
      BY <1>1, <2>2, <3>1, <3>2
  <2>3. QED
    BY <2>1, <2>2
<1>4. Choice(heads, base, o) = [selected |-> winner, conflicts |-> changed \ {winner}]
  BY Zenon DEF Choice
<1> HIDE DEF winner, changed
<1>5. QED
  BY <1>1, <1>2, <1>3, <1>4

\* The choices for the objects of heads.
LEMMA SelectionType ==
  ASSUME GraphOK, NEW heads, heads \subseteq DOMAIN commits
  PROVE  /\ Selected(heads) \in MapsTo(Records)
         /\ DOMAIN Selected(heads) = DOMAIN SelectEntries(heads)
         /\ [o \in DOMAIN SelectEntries(heads) |-> SelectEntries(heads)[o].conflicts]
              \in MapsTo(SUBSET Records)
         /\ DOMAIN SelectEntries(heads) \subseteq
              DOMAIN BaseOf(heads) \cup UNION {DOMAIN commits[head].manifest : head \in heads}
         /\ \A head \in heads : DOMAIN commits[head].manifest \subseteq DOMAIN Selected(heads)
<1> DEFINE base == BaseOf(heads)
           objects == DOMAIN base \cup UNION {DOMAIN commits[head].manifest : head \in heads}
           choices == SelectEntries(heads)
<1>1. base \in MapsTo(Records)
  BY BaseType
<1>2. objects \subseteq Objects
  BY <1>1, MapFacts, SnapshotType
<1>3. choices = [o \in objects |-> Choice(heads, base, o)]
  BY Zenon DEF SelectEntries
<1> HIDE DEF base
<1>4. \A o \in objects : /\ Choice(heads, base, o).selected \in Records
                         /\ Choice(heads, base, o).conflicts \subseteq Records
  <2>1. \A o \in objects : o \in DOMAIN base \/ Bearers(heads, o) # {}
    BY DEF Bearers
  <2>2. QED
    BY <1>1, <2>1, ChoiceType
<1> HIDE DEF objects, choices
<1>5. DOMAIN choices = objects /\ \A o \in objects : choices[o] = Choice(heads, base, o)
  BY <1>3
<1>6. Selected(heads) = [o \in DOMAIN choices |-> choices[o].selected]
  BY Zenon DEF Selected, choices
<1>7. Selected(heads) \in [objects -> Records]
  BY <1>4, <1>5, <1>6
<1>8. [o \in DOMAIN choices |-> choices[o].conflicts] \in [objects -> SUBSET Records]
  BY <1>4, <1>5
<1>9. Selected(heads) \in MapsTo(Records) /\ DOMAIN Selected(heads) = objects
  BY <1>2, <1>7, MapIsMap
<1>10. [o \in DOMAIN choices |-> choices[o].conflicts] \in MapsTo(SUBSET Records)
  BY <1>2, <1>8, MapIsMap
<1>11. \A head \in heads : DOMAIN commits[head].manifest \subseteq objects
  BY DEF objects
<1>12. QED
  BY <1>5, <1>9, <1>10, <1>11 DEF choices, objects, base
----------------------------------------------------------------------------
\* Files.

\* A file that gets a content, or goes, leaves a map of files.
LEMMA PutFile ==
  ASSUME NEW files \in FileMaps, NEW f, NEW content \in Contents \cup {None}
  PROVE  [files EXCEPT ![f] = content] \in FileMaps
BY DEF FileMaps

\* A content or None is what a file is.
LEMMA FileContent ==
  ASSUME NEW files \in FileMaps, NEW f \in Files
  PROVE  files[f] \in Contents \cup {None}
BY DEF FileMaps

\* The helpers that copy and remove files.
LEMMA CopyType ==
  ASSUME NEW d, NEW files \in FileMaps, NEW content \in Contents \cup {None}
  PROVE  WithCopy(d, files, content) \in FileMaps
BY PutFile DEF WithCopy

\* Files without one of them.
LEMMA WithoutType ==
  ASSUME NEW files \in FileMaps, NEW f
  PROVE  Without(files, f) \in FileMaps
BY PutFile DEF Without

\* Files after a move.
LEMMA MovedType ==
  ASSUME NEW d, NEW files \in FileMaps, NEW local \in FileMaps, NEW f \in Files
  PROVE  Moved(d, files, local, f) \in FileMaps
BY FileContent, CopyType, WithoutType DEF Moved

\* The file of an object is one of the files, or there is none.
LEMMA LocatedType ==
  ASSUME NEW local, NEW record \in Records
  PROVE  Located(local, record) \in Files \cup {None}
<1> DEFINE matches == {f \in Files : local[f] = record.hash}
<1>1. record.path \in Files
  BY DEF Records
<1>2. CASE local[record.path] # None
  BY <1>1, <1>2 DEF Located
<1>3. CASE local[record.path] = None /\ Cardinality(matches) = 1
  <2>1. matches # {}
    BY <1>3, FS_EmptySet
  <2>2. (CHOOSE f \in matches : TRUE) \in matches
    BY <2>1
  <2>3. QED
    BY <1>3, <2>2 DEF Located
<1>4. CASE local[record.path] = None /\ Cardinality(matches) # 1
  BY <1>4 DEF Located
<1>5. QED
  BY <1>2, <1>3, <1>4

\* What the winner of a choice makes of the files.
LEMMA WinnerAppliedType ==
  ASSUME NEW d, NEW files \in FileMaps, NEW local \in FileMaps, NEW f \in Files,
         NEW remote \in Records
  PROVE  WinnerApplied(d, files, local, f, remote).files \in FileMaps
<1> DEFINE target == remote.path
           cleared == IF local[target] # None THEN Moved(d, files, local, target) ELSE files
<1>1. target \in Files /\ remote.hash \in Contents
  BY DEF Records
<1>2. cleared \in FileMaps
  BY <1>1, MovedType
<1>3. /\ [files EXCEPT ![f] = remote.hash] \in FileMaps
      /\ WithCopy(d, files, remote.hash) \in FileMaps
      /\ [Without(cleared, f) EXCEPT ![target] = remote.hash] \in FileMaps
  <2> HIDE DEF target, cleared
  <2>1. Without(cleared, f) \in FileMaps
    BY <1>2, WithoutType
  <2>2. QED
    BY <1>1, <2>1, PutFile, CopyType
<1>4. WinnerApplied(d, files, local, f, remote) =
        IF target = f THEN Done([files EXCEPT ![f] = remote.hash])
        ELSE IF local[target] = None /\ files[target] # None
             THEN Done(WithCopy(d, files, remote.hash))
        ELSE IF cleared[f] = None THEN [files |-> cleared, thrown |-> TRUE]
        ELSE Done([Without(cleared, f) EXCEPT ![target] = remote.hash])
  BY Zenon DEF WinnerApplied
<1> HIDE DEF target, cleared
<1>5. QED
  BY <1>2, <1>3, <1>4 DEF Done

\* What a tombstone makes of the files.
LEMMA TombstoneAppliedType ==
  ASSUME NEW d, NEW files \in FileMaps, NEW local \in FileMaps, NEW record,
         NEW f \in Files \cup {None}
  PROVE  TombstoneApplied(d, files, local, record, f) \in FileMaps
<1>1. CASE f = None
  BY <1>1 DEF TombstoneApplied
<1>2. CASE f # None
  BY <1>2, WithoutType, MovedType DEF TombstoneApplied
<1>3. QED
  BY <1>1, <1>2

\* What a new object makes of the files.
LEMMA CreationAppliedType ==
  ASSUME NEW d, NEW files \in FileMaps, NEW local \in FileMaps, NEW remote \in Records
  PROVE  CreationApplied(d, files, local, remote) \in FileMaps
<1>1. remote.path \in Files /\ remote.hash \in Contents
  BY DEF Records
<1>2. /\ Moved(d, files, local, remote.path) \in FileMaps
      /\ WithCopy(d, files, remote.hash) \in FileMaps
      /\ [files EXCEPT ![remote.path] = remote.hash] \in FileMaps
  BY <1>1, MovedType, CopyType, PutFile
<1>3. [Moved(d, files, local, remote.path) EXCEPT ![remote.path] = remote.hash] \in FileMaps
  BY <1>1, <1>2, PutFile
<1>4. QED
  BY <1>2, <1>3 DEF CreationApplied

\* What applying an entry makes of the files.
LEMMA EntryAppliedType ==
  ASSUME NEW d, NEW files \in FileMaps, NEW local \in FileMaps, NEW record \in Records,
         NEW remote \in Records
  PROVE  EntryApplied(d, files, local, record, remote).files \in FileMaps
<1> DEFINE f == Located(local, record)
<1>1. f \in Files \cup {None} /\ remote.hash \in Contents
  BY LocatedType DEF Records
<1> HIDE DEF f
<1>2. /\ TombstoneApplied(d, files, local, record, f) \in FileMaps
      /\ WithCopy(d, files, remote.hash) \in FileMaps
  BY <1>1, TombstoneAppliedType, CopyType
<1>3. CASE f = None
  BY <1>2, <1>3, Zenon DEF EntryApplied, Done, f
<1>4. CASE f # None
  <2>1. local[f] \in Contents \cup {None} /\ f \in Files
    BY <1>1, <1>4, FileContent
  <2>2. WithCopy(d, files, local[f]) \in FileMaps /\ [files EXCEPT ![f] = local[f]] \in FileMaps
    BY <2>1, CopyType, PutFile
  <2>3. /\ WinnerApplied(d, files, local, f, remote).files \in FileMaps
        /\ WinnerApplied(d, WithCopy(d, files, local[f]), local, f, remote).files \in FileMaps
    BY <2>1, <2>2, WinnerAppliedType
  <2>4. ChangesApplied(d, files, local, record, f, remote).files \in FileMaps
    BY <2>2, <2>3 DEF ChangesApplied, Done
  <2>5. EntryApplied(d, files, local, record, remote) \in
          {Done(TombstoneApplied(d, files, local, record, f)),
           WinnerApplied(d, files, local, f, remote), Done(files),
           ChangesApplied(d, files, local, record, f, remote)}
    BY <1>4 DEF EntryApplied, f
  <2>6. QED
    BY <1>2, <2>3, <2>4, <2>5 DEF Done
<1>5. QED
  BY <1>3, <1>4

\* What applying the entry of an object makes of the files.
LEMMA AppliedType ==
  ASSUME NEW d, NEW files \in FileMaps, NEW local \in FileMaps, NEW remote \in Records, NEW o,
         state[d].records \in MapsTo(Records)
  PROVE  Applied(d, files, local, o, remote).files \in FileMaps
<1>1. CASE o \in DOMAIN state[d].records
  <2>1. state[d].records[o] \in Records
    BY <1>1, MapFacts
  <2>2. EntryApplied(d, files, local, state[d].records[o], remote).files \in FileMaps
    BY <2>1, EntryAppliedType
  <2>3. QED
    BY <1>1, <2>2 DEF Applied
<1>2. CASE o \notin DOMAIN state[d].records
  BY <1>2, CreationAppliedType DEF Applied, Done
<1>3. QED
  BY <1>1, <1>2

\* Copies of entries leave a map of files.
LEMMA CopiesType ==
  ASSUME NEW d, NEW files \in FileMaps, NEW entries, entries \subseteq Records
  PROVE  WithCopies(d, files, entries) \in FileMaps
<1> DEFINE kept == {entry \in entries : ~entry.tombstone}
           copy == CHOOSE c \in [kept -> UnusedCopies(d, files)] : IsInjective(c)
           content(f) == IF \E entry \in kept : copy[entry] = f
                         THEN (CHOOSE entry \in kept : copy[entry] = f).hash
                         ELSE files[f]
<1>1. WithCopies(d, files, entries) = [f \in Files |-> content(f)]
  BY Zenon DEF WithCopies
<1> HIDE DEF copy
<1>2. ASSUME NEW f \in Files
      PROVE  content(f) \in Contents \cup {None}
  <2>1. CASE \E entry \in kept : copy[entry] = f
    <3>1. (CHOOSE entry \in kept : copy[entry] = f) \in kept
      BY <2>1
    <3>2. QED
      BY <2>1, <3>1 DEF Records
  <2>2. CASE ~ \E entry \in kept : copy[entry] = f
    BY <2>2, FileContent
  <2>3. QED
    BY <2>1, <2>2
<1> HIDE DEF content
<1>3. QED
  BY <1>1, <1>2 DEF FileMaps

\* The files while a winner takes its path are files.
LEMMA WinnerHalfwayType ==
  ASSUME NEW d, NEW files \in FileMaps, NEW local \in FileMaps, NEW f \in Files,
         NEW remote \in Records
  PROVE  WinnerHalfway(d, files, local, f, remote) \subseteq FileMaps
<1> DEFINE target == remote.path
           cleared == IF local[target] # None THEN Moved(d, files, local, target) ELSE files
           renamed == [Without(cleared, f) EXCEPT ![target] = cleared[f]]
<1>1. target \in Files
  BY DEF Records
<1>2. cleared \in FileMaps
  BY <1>1, MovedType
<1>3. WithCopy(d, files, local[target]) \in FileMaps
  BY <1>1, FileContent, CopyType
<1>4. WinnerHalfway(d, files, local, f, remote) \subseteq
        {WithCopy(d, files, local[target]), cleared, renamed}
  BY DEF WinnerHalfway
<1> HIDE DEF target, cleared
<1>5. renamed \in FileMaps
  BY <1>2, FileContent, WithoutType, PutFile
<1> HIDE DEF renamed
<1>6. QED
  BY <1>2, <1>3, <1>4, <1>5

\* The files between two writes of an entry are files.
LEMMA EntryHalfwayType ==
  ASSUME NEW d, NEW files \in FileMaps, NEW local \in FileMaps, NEW record \in Records,
         NEW remote \in Records
  PROVE  EntryHalfway(d, files, local, record, remote) \subseteq FileMaps
<1> DEFINE f == Located(local, record)
           copied == WithCopy(d, files, local[f])
<1>1. f \in Files \cup {None}
  BY LocatedType
<1>2. CASE f = None
  BY <1>2 DEF EntryHalfway
<1>3. CASE f # None
  <2>1. EntryHalfway(d, files, local, record, remote) \subseteq
          {copied} \cup WinnerHalfway(d, files, local, f, remote)
                  \cup WinnerHalfway(d, copied, local, f, remote)
    BY DEF EntryHalfway
  <2> HIDE DEF f
  <2>2. copied \in FileMaps
    BY <1>1, <1>3, FileContent, CopyType
  <2> HIDE DEF copied
  <2>3. /\ WinnerHalfway(d, files, local, f, remote) \subseteq FileMaps
        /\ WinnerHalfway(d, copied, local, f, remote) \subseteq FileMaps
    BY <1>1, <1>3, <2>2, WinnerHalfwayType
  <2>4. QED
    BY <2>1, <2>2, <2>3
<1>4. QED
  BY <1>2, <1>3
----------------------------------------------------------------------------
\* Steps of a device.

\* Whoever refers to accepted commits and named objects still does when there are more.
LEMMA MoreAccepted ==
  ASSUME NEW s, NEW r, NEW accepted, NEW objects,
         RefersTo(s, r, accepted), PhaseOK(s, r, accepted), NamesOnly(s, r, objects),
         NEW more, accepted \subseteq more, NEW others, objects \subseteq others
  PROVE  RefersTo(s, r, more) /\ PhaseOK(s, r, more) /\ NamesOnly(s, r, others)
<1>1. RefersTo(s, r, more)
  BY DEF RefersTo
<1>2. PhaseOK(s, r, more)
  BY DEF PhaseOK
<1>3. NamesOnly(s, r, others)
  BY DEF NamesOnly
<1>4. QED
  BY <1>1, <1>2, <1>3

\* One device goes on, with the state s and the synchronization r.
Becomes(d, s, r) ==
  /\ state' = [state EXCEPT ![d] = s] \/ (s = state[d] /\ UNCHANGED state)
  /\ run' = [run EXCEPT ![d] = r] \/ (r = run[d] /\ UNCHANGED run)

\* It has them, and no other device changes.
LEMMA BecomesEffect ==
  ASSUME TypesOK, NEW d \in Devices, NEW s \in SyncStates, NEW r \in Runs, Becomes(d, s, r)
  PROVE  /\ state' \in [Devices -> SyncStates] /\ run' \in [Devices -> Runs]
         /\ state'[d] = s /\ run'[d] = r
         /\ \A e \in Devices \ {d} : state'[e] = state[e] /\ run'[e] = run[e]
BY DEF TypesOK, Becomes

\* The invariant is kept when it holds for the device that goes on.
LEMMA OneDevice ==
  ASSUME SyncInv, NEW d \in Devices, NEW s \in SyncStates, NEW r \in Runs, Becomes(d, s, r),
         GraphOK', DOMAIN commits \subseteq DOMAIN commits',
         drawn \subseteq drawn', drawn' \subseteq Objects,
         vault' \in [Devices -> FileMaps], edits' \in Nat,
         RefersTo(s, r, DOMAIN commits'), PhaseOK(s, r, DOMAIN commits'),
         NamesOnly(s, r, drawn'),
         \A id \in DOMAIN commits' : DOMAIN commits'[id].manifest \subseteq drawn'
  PROVE  SyncInv'
<1>1. /\ state' \in [Devices -> SyncStates] /\ run' \in [Devices -> Runs]
      /\ state'[d] = s /\ run'[d] = r
      /\ \A e \in Devices \ {d} : state'[e] = state[e] /\ run'[e] = run[e]
  BY BecomesEffect DEF SyncInv
<1>2. TypesOK'
  BY <1>1 DEF TypesOK
<1>3. ASSUME NEW e \in Devices
      PROVE  /\ RefersTo(state'[e], run'[e], DOMAIN commits')
             /\ PhaseOK(state'[e], run'[e], DOMAIN commits')
             /\ NamesOnly(state'[e], run'[e], drawn')
  <2>1. CASE e = d
    BY <1>1, <2>1
  <2>2. CASE e # d
    <3>1. /\ RefersTo(state[e], run[e], DOMAIN commits)
          /\ PhaseOK(state[e], run[e], DOMAIN commits)
          /\ NamesOnly(state[e], run[e], drawn)
      BY DEF SyncInv
    <3>2. /\ RefersTo(state[e], run[e], DOMAIN commits')
          /\ PhaseOK(state[e], run[e], DOMAIN commits')
          /\ NamesOnly(state[e], run[e], drawn')
      BY <3>1, MoreAccepted
    <3>3. QED
      BY <1>1, <2>2, <3>2
  <2>3. QED
    BY <2>1, <2>2
<1>4. QED
  BY <1>2, <1>3 DEF SyncInv

\* The same, when the server and its graph stay as they are.
LEMMA OneDeviceAlone ==
  ASSUME SyncInv, NEW d \in Devices, NEW s \in SyncStates, NEW r \in Runs, Becomes(d, s, r),
         commits' = commits, drawn \subseteq drawn', drawn' \subseteq Objects,
         vault' \in [Devices -> FileMaps], edits' \in Nat,
         RefersTo(s, r, DOMAIN commits), PhaseOK(s, r, DOMAIN commits), NamesOnly(s, r, drawn')
  PROVE  SyncInv'
<1>1. GraphOK'
  BY DEF SyncInv, TypesOK, GraphOK
<1>2. \A id \in DOMAIN commits' : DOMAIN commits'[id].manifest \subseteq drawn'
  BY DEF SyncInv
<1>3. QED
  BY <1>1, <1>2, OneDevice

\* The fields of a state and of a synchronization.
LEMMA StateFacts ==
  ASSUME TypesOK, NEW d \in Devices
  PROVE  /\ state[d] \in SyncStates
         /\ state[d].initialized \in BOOLEAN
         /\ state[d].sequence \in Nat
         /\ state[d].lamport \in Nat
         /\ state[d].known \subseteq CommitIds
         /\ state[d].heads \subseteq CommitIds
         /\ state[d].records \in MapsTo(Records)
         /\ state[d].pending \in MapsTo(PendingOperations)
         /\ state[d].prepared \in PreparedCommits \cup {None}
         /\ vault[d] \in FileMaps
BY DEF TypesOK, SyncStates

\* The parts of a synchronization.
LEMMA RunFacts ==
  ASSUME TypesOK, NEW d \in Devices
  PROVE  /\ run[d] \in Runs
         /\ run[d].phase \in Phases
         /\ run[d].local \in FileMaps \cup {Empty}
         /\ run[d].selected \in MapsTo(Records)
         /\ run[d].todo \subseteq Objects
         /\ run[d].records \in MapsTo(Records)
         /\ run[d].heads \subseteq CommitIds
         /\ run[d].conflicts \in MapsTo(SUBSET Records)
BY DEF TypesOK, Runs

\* A synchronization that rests, or goes over to a phase in which it remembers nothing.
LEMMA IdleRun ==
  ASSUME NEW phase \in Phases
  PROVE  /\ [Idle EXCEPT !.phase = phase] \in Runs
         /\ [Idle EXCEPT !.phase = phase].phase = phase
         /\ [Idle EXCEPT !.phase = phase].heads = {}
         /\ DOMAIN [Idle EXCEPT !.phase = phase].selected = {}
         /\ DOMAIN [Idle EXCEPT !.phase = phase].records = {}
         /\ Idle = [Idle EXCEPT !.phase = "idle"]
<1>1. /\ Empty \in MapsTo(Records) /\ Empty \in MapsTo(SUBSET Records)
      /\ DOMAIN Empty = {}
  BY EmptyMap
<1>2. QED
  BY <1>1 DEF Idle, Runs, Phases
----------------------------------------------------------------------------
\* The invariant: at the beginning, and every step keeps it.

\* The invariant for one device.
LEMMA DeviceFacts ==
  ASSUME SyncInv, NEW d \in Devices
  PROVE  /\ RefersTo(state[d], run[d], DOMAIN commits)
         /\ PhaseOK(state[d], run[d], DOMAIN commits)
         /\ NamesOnly(state[d], run[d], drawn)
         /\ TypesOK
         /\ GraphOK
         /\ drawn \subseteq Objects
         /\ vault \in [Devices -> FileMaps]
         /\ edits \in Nat
         /\ None \notin PreparedCommits
BY PreparedAssumption DEF SyncInv, TypesOK

\* A user edits a file.
LEMMA EditKeepsInv ==
  ASSUME SyncInv, NEW d \in Devices, NEW kind, NEW files \in FileMaps, Edit(d, kind, files)
  PROVE  SyncInv'
<1>1. Becomes(d, state[d], run[d])
  BY DEF Becomes, Edit
<1>2. /\ commits' = commits /\ drawn' = drawn
      /\ vault' \in [Devices -> FileMaps] /\ edits' \in Nat
  BY DeviceFacts DEF Edit
<1>3. QED
  BY <1>1, <1>2, DeviceFacts, StateFacts, RunFacts, OneDeviceAlone

\* What a user writes is a content.
LEMMA WritableType ==
  ASSUME edits \in Nat, edits < MaxEdits
  PROVE  Writable \subseteq Contents
BY EditsAssumption DEF Writable

\* A user writes, moves or deletes a file.
LEMMA UserKeepsInv ==
  ASSUME SyncInv, NEW d \in Devices, UserStep(d)
  PROVE  SyncInv'
<1>1. vault[d] \in FileMaps
  BY DeviceFacts
<1>2. Paths[d] \subseteq Files
  BY DEF Files
<1>3. ASSUME NEW kind, NEW files, Edit(d, kind, files)
      PROVE  Writable \subseteq Contents
  BY <1>3, DeviceFacts, WritableType DEF Edit
<1>4. CASE Create(d)
  <2>1. PICK f \in Targets(d), content \in Writable :
          Edit(d, "create", [vault[d] EXCEPT ![f] = content])
    BY <1>4 DEF Create
  <2>2. [vault[d] EXCEPT ![f] = content] \in FileMaps
    BY <1>1, <1>3, <2>1, PutFile
  <2>3. QED
    BY <2>1, <2>2, EditKeepsInv
<1>5. CASE Modify(d)
  <2>1. PICK f \in Existing(vault[d]), content \in Writable :
          Edit(d, "modify", [vault[d] EXCEPT ![f] = content])
    BY <1>5 DEF Modify
  <2>2. [vault[d] EXCEPT ![f] = content] \in FileMaps
    BY <1>1, <1>3, <2>1, PutFile
  <2>3. QED
    BY <2>1, <2>2, EditKeepsInv
<1>6. CASE Move(d)
  <2>1. PICK f \in Existing(vault[d]), target \in Targets(d) :
          Edit(d, "move", [vault[d] EXCEPT ![f] = None, ![target] = vault[d][f]])
    BY <1>6 DEF Move
  <2>2. f \in Files /\ vault[d][f] \in Contents \cup {None}
    BY <1>1, <2>1, FileContent DEF Existing, FileMaps
  <2>3. [vault[d] EXCEPT ![f] = None, ![target] = vault[d][f]] \in FileMaps
    BY <1>1, <2>2 DEF FileMaps
  <2>4. QED
    BY <2>1, <2>3, EditKeepsInv
<1>7. CASE Delete(d)
  <2>1. PICK f \in Existing(vault[d]) : Edit(d, "delete", [vault[d] EXCEPT ![f] = None])
    BY <1>7 DEF Delete
  <2>2. [vault[d] EXCEPT ![f] = None] \in FileMaps
    BY <1>1, PutFile
  <2>3. QED
    BY <2>1, <2>2, EditKeepsInv
<1>8. QED
  BY <1>4, <1>5, <1>6, <1>7 DEF UserStep

\* A device whose synchronization ends keeps its state.
LEMMA IdleOK ==
  ASSUME SyncInv, NEW d \in Devices
  PROVE  /\ RefersTo(state[d], Idle, DOMAIN commits)
         /\ PhaseOK(state[d], Idle, DOMAIN commits)
         /\ NamesOnly(state[d], Idle, drawn)
         /\ Idle \in Runs
<1>1. /\ Idle \in Runs /\ Idle.phase = "idle" /\ Idle.heads = {}
      /\ DOMAIN Idle.selected = {} /\ DOMAIN Idle.records = {}
  BY IdleRun DEF Phases
<1>2. RefersTo(state[d], Idle, DOMAIN commits)
  BY <1>1, DeviceFacts DEF RefersTo
<1>3. PhaseOK(state[d], Idle, DOMAIN commits)
  BY <1>1, DeviceFacts DEF PhaseOK
<1>4. NamesOnly(state[d], Idle, drawn)
  BY <1>1, DeviceFacts DEF NamesOnly
<1>5. QED
  BY <1>1, <1>2, <1>3, <1>4

\* A synchronization ends, whatever it has done to the files.
LEMMA EndKeepsInv ==
  ASSUME SyncInv, NEW d \in Devices, run' = [run EXCEPT ![d] = Idle], state' = state,
         commits' = commits, drawn' = drawn, vault' \in [Devices -> FileMaps], edits' \in Nat
  PROVE  SyncInv'
<1>1. Becomes(d, state[d], Idle)
  BY DEF Becomes
<1>2. QED
  BY <1>1, IdleOK, DeviceFacts, StateFacts, OneDeviceAlone

\* A synchronization is interrupted.
LEMMA InterruptKeepsInv ==
  ASSUME SyncInv, NEW d \in Devices, Interrupt(d)
  PROVE  SyncInv'
BY EndKeepsInv, DeviceFacts DEF Interrupt

\* The files between two writes of an object, copies of what lost included, are files.
LEMMA BetweenWritesType ==
  ASSUME NEW d \in Devices, TypesOK, NEW files \in FileMaps, run[d].local \in FileMaps,
         NEW o \in DOMAIN run[d].selected, o \in DOMAIN run[d].conflicts
  PROVE  BetweenWrites(d, files, o) \subseteq FileMaps
<1> DEFINE local == run[d].local
           records == state[d].records
           remote == run[d].selected[o]
           applied == Applied(d, files, local, o, remote)
           copies == {WithCopies(d, applied.files, some) : some \in SUBSET run[d].conflicts[o]}
<1>1. remote \in Records /\ run[d].conflicts[o] \subseteq Records
  BY RunFacts, MapFacts
<1>2. applied.files \in FileMaps
  BY <1>1, StateFacts, AppliedType
<1>3. o \in DOMAIN records => EntryHalfway(d, files, local, records[o], remote) \subseteq FileMaps
  BY <1>1, StateFacts, MapFacts, EntryHalfwayType
<1>4. CreationHalfway(d, files, local, remote) \subseteq FileMaps
  <2>1. remote.path \in Files
    BY <1>1 DEF Records
  <2>2. QED
    BY <2>1, FileContent, CopyType, MovedType DEF CreationHalfway
<1>5. copies \subseteq FileMaps
  <2> HIDE DEF applied
  <2>1. ASSUME NEW some \in SUBSET run[d].conflicts[o]
        PROVE  WithCopies(d, applied.files, some) \in FileMaps
    BY <1>1, <1>2, CopiesType
  <2>2. QED
    BY <2>1
<1>6. BetweenWrites(d, files, o) =
        (IF o \in DOMAIN records THEN EntryHalfway(d, files, local, records[o], remote)
         ELSE CreationHalfway(d, files, local, remote))
        \cup (IF applied.thrown THEN {} ELSE copies)
  BY Zenon DEF BetweenWrites
<1> HIDE DEF copies, applied, remote, records, local
<1>7. QED
  BY <1>3, <1>4, <1>5, <1>6

\* The entry that is being applied is one of the merge.
LEMMA EntryFacts ==
  ASSUME SyncInv, NEW d \in Devices, run[d].phase = "applying", run[d].todo # {}
  PROVE  LET o == Min(run[d].todo)
         IN  /\ o \in run[d].todo
             /\ o \in DOMAIN run[d].selected /\ o \in DOMAIN run[d].conflicts
             /\ run[d].local \in FileMaps
<1>1. Min(run[d].todo) \in run[d].todo
  BY RunFacts, DeviceFacts, Least, IdentifiersAssumption
<1>2. QED
  BY <1>1, DeviceFacts DEF PhaseOK

\* A synchronization is interrupted between two writes of an entry.
LEMMA ApplyInterruptedKeepsInv ==
  ASSUME SyncInv, NEW d \in Devices, ApplyInterrupted(d)
  PROVE  SyncInv'
<1> DEFINE o == Min(run[d].todo)
<1>1. /\ run[d].phase = "applying" /\ run[d].todo # {}
      /\ \E files \in BetweenWrites(d, vault[d], o) : vault' = [vault EXCEPT ![d] = files]
      /\ run' = [run EXCEPT ![d] = Idle]
      /\ UNCHANGED <<commits, drawn, state, edits>>
  BY Zenon DEF ApplyInterrupted
<1>2. BetweenWrites(d, vault[d], o) \subseteq FileMaps
  <2>1. o \in DOMAIN run[d].selected /\ o \in DOMAIN run[d].conflicts /\ run[d].local \in FileMaps
    BY <1>1, EntryFacts
  <2> HIDE DEF o
  <2>2. QED
    BY <2>1, DeviceFacts, StateFacts, BetweenWritesType
<1> HIDE DEF o
<1>3. vault' \in [Devices -> FileMaps]
  BY <1>1, <1>2, DeviceFacts
<1>4. QED
  BY <1>1, <1>3, DeviceFacts, EndKeepsInv

\* A synchronization ends with an error.
LEMMA ThrowKeepsInv ==
  ASSUME SyncInv, NEW d \in Devices, Throw(d), edits' = edits
  PROVE  SyncInv'
BY EndKeepsInv, DeviceFacts DEF Throw, Advance

----------------------------------------------------------------------------
\* The pull.

\* The heads of the server are accepted commits.
LEMMA HeadsAccepted == ServerHeads(commits) \subseteq DOMAIN commits
BY DEF ServerHeads

\* What heads select was drawn.
LEMMA SelectionDrawn ==
  ASSUME SyncInv, NEW heads, heads \subseteq DOMAIN commits
  PROVE  DOMAIN SelectEntries(heads) \subseteq drawn
<1>1. DOMAIN BaseOf(heads) \subseteq drawn
  BY DeviceFacts, BaseType, SnapshotType, EmptyMap DEF SyncInv, TypesOK
<1>2. \A head \in heads : DOMAIN commits[head].manifest \subseteq drawn
  BY DEF SyncInv
<1>3. GraphOK
  BY DEF SyncInv, TypesOK
<1>4. DOMAIN SelectEntries(heads) \subseteq
        DOMAIN BaseOf(heads) \cup UNION {DOMAIN commits[head].manifest : head \in heads}
  BY <1>3, SelectionType
<1>5. QED
  BY <1>1, <1>2, <1>4

\* The start of a pull: heads, merge and conflicts are of their kinds.
LEMMA PullStartKeepsInv ==
  ASSUME SyncInv, NEW d \in Devices, PullStart(d), edits' = edits
  PROVE  SyncInv'
<1> DEFINE heads == ServerHeads(commits)
           choices == SelectEntries(heads)
           selected == Selected(heads)
           conflicts == [o \in DOMAIN choices |-> choices[o].conflicts]
<1>1. heads \subseteq DOMAIN commits
  BY HeadsAccepted
<1>2. CASE heads = {}
  <2> DEFINE s == [state[d] EXCEPT !.initialized = TRUE, !.heads = {}]
             r == [Idle EXCEPT !.phase = "pulled"]
  <2>1. Becomes(d, s, r) /\ UNCHANGED <<commits, drawn, vault>>
    BY <1>2 DEF PullStart, Becomes, Advance
  <2>2. /\ r \in Runs /\ r.phase = "pulled" /\ r.heads = {}
        /\ DOMAIN r.selected = {} /\ DOMAIN r.records = {}
    BY IdleRun DEF Phases
  <2>3. /\ s \in SyncStates /\ s.known = state[d].known /\ s.heads = {}
        /\ s.records = state[d].records /\ s.pending = state[d].pending
        /\ s.prepared = state[d].prepared
    BY DeviceFacts, StateFacts DEF SyncStates
  <2> HIDE DEF s, r
  <2>4. RefersTo(s, r, DOMAIN commits)
    BY <2>2, <2>3, DeviceFacts DEF RefersTo
  <2>5. PhaseOK(s, r, DOMAIN commits)
    BY <2>2, <2>3, DeviceFacts DEF PhaseOK
  <2>6. NamesOnly(s, r, drawn)
    BY <2>2, <2>3, DeviceFacts DEF NamesOnly
  <2>7. QED
    BY <2>1, <2>2, <2>3, <2>4, <2>5, <2>6, DeviceFacts, OneDeviceAlone
<1>3. CASE heads # {}
  <2> DEFINE r == [Idle EXCEPT !.phase = "applying", !.local = vault[d],
                               !.selected = selected, !.conflicts = conflicts,
                               !.todo = DOMAIN choices, !.heads = heads]
  <2>1. Becomes(d, state[d], r) /\ UNCHANGED <<commits, drawn, vault>>
    BY <1>3 DEF PullStart, Becomes, Advance
  <2>2. /\ selected \in MapsTo(Records) /\ DOMAIN selected = DOMAIN choices
        /\ conflicts \in MapsTo(SUBSET Records) /\ DOMAIN conflicts = DOMAIN choices
        /\ DOMAIN choices \subseteq Objects
    BY <1>1, SelectionType, DeviceFacts, MapFacts
  <2>3. DOMAIN choices \subseteq drawn
    BY <1>1, SelectionDrawn
  <2>4. vault[d] \in FileMaps /\ heads \subseteq CommitIds
    BY <1>1, DeviceFacts DEF GraphOK
  <2> HIDE DEF heads, choices, selected, conflicts
  <2>5. /\ r \in Runs /\ r.phase = "applying" /\ r.local = vault[d] /\ r.selected = selected
        /\ r.conflicts = conflicts /\ r.todo = DOMAIN choices /\ r.heads = heads
        /\ r.records = Empty
    BY <2>2, <2>4, EmptyMap DEF Idle, Runs, Phases
  <2> HIDE DEF r
  <2>6. RefersTo(state[d], r, DOMAIN commits)
    BY <1>1, <2>5, DeviceFacts DEF RefersTo
  <2>7. PhaseOK(state[d], r, DOMAIN commits)
    BY <2>2, <2>4, <2>5, DeviceFacts DEF PhaseOK
  <2>8. NamesOnly(state[d], r, drawn)
    BY <2>2, <2>3, <2>5, EmptyMap, DeviceFacts DEF NamesOnly
  <2>9. QED
    BY <2>1, <2>5, <2>6, <2>7, <2>8, DeviceFacts, StateFacts, OneDeviceAlone
<1>4. QED
  BY <1>2, <1>3

\* One entry of a merge is written to the vault.
LEMMA ApplyEntryKeepsInv ==
  ASSUME SyncInv, NEW d \in Devices, ApplyEntry(d), edits' = edits
  PROVE  SyncInv'
<1> DEFINE o == Min(run[d].todo)
           applied == Applied(d, vault[d], run[d].local, o, run[d].selected[o])
           copied == WithCopies(d, applied.files, run[d].conflicts[o])
<1>1. /\ run[d].phase = "applying" /\ run[d].todo # {}
      /\ IF applied.thrown
         THEN /\ vault' = [vault EXCEPT ![d] = applied.files]
              /\ Advance(d, Idle)
         ELSE /\ vault' = [vault EXCEPT ![d] = copied]
              /\ Advance(d, [run[d] EXCEPT !.todo = @ \ {o}])
      /\ UNCHANGED <<commits, drawn, state>>
  BY Zenon DEF ApplyEntry
<1>2. o \in run[d].todo
  BY <1>1, EntryFacts
<1>3. /\ run[d].local \in FileMaps /\ o \in DOMAIN run[d].selected
      /\ o \in DOMAIN run[d].conflicts
  BY <1>1, EntryFacts
<1>4. run[d].selected[o] \in Records /\ run[d].conflicts[o] \subseteq Records
  BY <1>3, RunFacts, DeviceFacts, MapFacts
<1>5. applied.files \in FileMaps
  BY <1>3, <1>4, DeviceFacts, StateFacts, AppliedType
<1>6. copied \in FileMaps
  BY <1>4, <1>5, CopiesType
<1> HIDE DEF applied, copied
<1>7. CASE applied.thrown
  BY <1>1, <1>5, <1>7, DeviceFacts, EndKeepsInv DEF Advance
<1>8. CASE ~applied.thrown
  <2> DEFINE r == [run[d] EXCEPT !.todo = @ \ {o}]
  <2>1. Becomes(d, state[d], r) /\ vault' \in [Devices -> FileMaps]
    BY <1>1, <1>6, <1>8, DeviceFacts DEF Becomes, Advance
  <2>2. /\ r \in Runs /\ r.phase = "applying" /\ r.local = run[d].local
        /\ r.selected = run[d].selected /\ r.conflicts = run[d].conflicts
        /\ r.todo \subseteq run[d].todo /\ r.heads = run[d].heads /\ r.records = run[d].records
    BY <1>1, RunFacts, DeviceFacts DEF Runs
  <2> HIDE DEF r
  <2>3. RefersTo(state[d], r, DOMAIN commits)
    BY <2>2, DeviceFacts DEF RefersTo
  <2>4. PhaseOK(state[d], r, DOMAIN commits)
    BY <1>1, <2>2, DeviceFacts DEF PhaseOK
  <2>5. NamesOnly(state[d], r, drawn)
    BY <2>2, DeviceFacts DEF NamesOnly
  <2>6. QED
    BY <1>1, <2>1, <2>2, <2>3, <2>4, <2>5, DeviceFacts, StateFacts, OneDeviceAlone
<1>9. QED
  BY <1>7, <1>8

\* The greatest time of known commits is a time, not below that of the device nor any of theirs.
LEMMA TimeOfKnown ==
  ASSUME SyncInv, NEW d \in Devices, NEW known, known \subseteq DOMAIN commits
  PROVE  LET times == {state[d].lamport} \cup {commits[id].lamport : id \in known}
         IN  Max(times) \in Nat /\ \A time \in times : time <= Max(times)
<1> DEFINE times == {state[d].lamport} \cup {commits[id].lamport : id \in known}
<1>1. times \in SUBSET Nat /\ times # {}
  BY DeviceFacts, StateFacts, IdFacts
<1>2. PICK n \in Nat : \A id \in DOMAIN commits : commits[id].lamport <= n
  BY DeviceFacts DEF GraphOK
<1> DEFINE bound == IF state[d].lamport <= n THEN n ELSE state[d].lamport
<1>3. bound \in Nat /\ \A time \in times : time <= bound
  BY <1>2, DeviceFacts, StateFacts, IdFacts
<1> HIDE DEF times, bound
<1>4. Max(times) \in times /\ \A time \in times : Max(times) >= time
  BY <1>1, <1>3, Greatest
<1>5. Max(times) \in Nat /\ \A time \in times : time <= Max(times)
  BY <1>1, <1>4
<1>6. QED
  BY <1>5 DEF times

\* The end of a pull, with the copies of conflicting entries.
LEMMA PullSaveKeepsInv ==
  ASSUME SyncInv, NEW d \in Devices, PullSave(d), edits' = edits
  PROVE  SyncInv'
<1> DEFINE known == UNION {commits[id].past : id \in run[d].heads}
           lamport == Max({state[d].lamport} \cup {commits[id].lamport : id \in known})
           s == [state[d] EXCEPT !.initialized = TRUE, !.known = known,
                                 !.heads = run[d].heads, !.lamport = lamport,
                                 !.records = run[d].selected]
           r == [Idle EXCEPT !.phase = "pulled"]
<1>1. Becomes(d, s, r) /\ UNCHANGED <<commits, drawn, vault>>
  BY Zenon DEF PullSave, Becomes, Advance
<1>2. run[d].heads \subseteq DOMAIN commits /\ known \subseteq DOMAIN commits
  BY DeviceFacts DEF RefersTo, GraphOK
<1>3. lamport \in Nat
  BY <1>2, TimeOfKnown
<1>4. known \subseteq CommitIds /\ run[d].heads \subseteq CommitIds
  BY <1>2, DeviceFacts DEF GraphOK
<1>5. /\ r \in Runs /\ r.phase = "pulled" /\ r.heads = {}
      /\ DOMAIN r.selected = {} /\ DOMAIN r.records = {}
  BY IdleRun DEF Phases
<1> HIDE DEF known, lamport
<1>6. /\ s \in SyncStates /\ s.known = known /\ s.heads = run[d].heads
      /\ s.records = run[d].selected /\ s.pending = state[d].pending
      /\ s.prepared = state[d].prepared
  BY <1>3, <1>4, DeviceFacts, StateFacts, RunFacts DEF SyncStates
<1> HIDE DEF s, r
<1>7. RefersTo(s, r, DOMAIN commits)
  BY <1>2, <1>5, <1>6, DeviceFacts DEF RefersTo
<1>8. PhaseOK(s, r, DOMAIN commits)
  BY <1>5, <1>6, DeviceFacts DEF PhaseOK
<1>9. NamesOnly(s, r, drawn)
  BY <1>5, <1>6, DeviceFacts DEF NamesOnly
<1>10. QED
  BY <1>1, <1>5, <1>6, <1>7, <1>8, <1>9, DeviceFacts, OneDeviceAlone

----------------------------------------------------------------------------
\* The scan.

\* What a scan finds are operations on files and contents that are there.
LEMMA ScannedType ==
  ASSUME NEW s \in SyncStates, NEW files \in FileMaps, NEW ids, ids \subseteq Objects,
         NEW created \in [ids -> Created(s.records, files)]
  PROVE  /\ Scanned(s, files, created) \in MapsTo(PendingOperations)
         /\ DOMAIN Scanned(s, files, created) \subseteq DOMAIN s.records \cup ids
         /\ \A o \in DOMAIN Scanned(s, files, created) :
              Scanned(s, files, created)[o].kind # "delete" =>
                Scanned(s, files, created)[o].hash \in Contents
<1> DEFINE r == s.records
           next(o) == r[o].revision + 1
           renamed == {pair[1] : pair \in Renames(r, files)}
           target(o) == (CHOOSE pair \in Renames(r, files) : pair[1] = o)[2]
           deleted == IF s.initialized THEN Deleted(r, files) ELSE {}
           objects == Modified(r, files) \cup renamed \cup deleted \cup DOMAIN created
           operation(o) ==
             CASE o \in DOMAIN created ->
                    Operation("create", created[o], 1, files[created[o]])
               [] o \in Modified(r, files) ->
                    Operation("modify", r[o].path, next(o), files[r[o].path])
               [] o \in renamed ->
                    Operation("rename", target(o), next(o), files[target(o)])
               [] o \in deleted ->
                    Operation("delete", r[o].path, next(o), None)
           Meant(op) == op \in PendingOperations /\ (op.kind # "delete" => op.hash \in Contents)
<1>1. Scanned(s, files, created) = [o \in objects |-> operation(o)]
  BY Zenon DEF Scanned
<1>2. r \in MapsTo(Records)
  BY DEF SyncStates
<1> HIDE DEF r
<1>3. DOMAIN r \subseteq Objects /\ \A o \in DOMAIN r : r[o] \in Records
  BY <1>2, MapFacts
<1>4. \A o \in DOMAIN r : next(o) \in Nat /\ r[o].path \in Files
  BY <1>3 DEF Records
<1>5. NewFiles(r, files) \subseteq Files /\ \A f \in NewFiles(r, files) : files[f] \in Contents
  BY DEF NewFiles, Existing, FileMaps
<1>6. /\ Modified(r, files) \subseteq DOMAIN r /\ MissingObjects(r, files) \subseteq DOMAIN r
      /\ deleted \subseteq DOMAIN r /\ renamed \subseteq DOMAIN r
  BY DEF Modified, MissingObjects, ActiveObjects, Deleted, Renames
<1>7. objects \subseteq DOMAIN r \cup ids /\ objects \subseteq Objects
  BY <1>3, <1>6
<1>8. ASSUME NEW kind \in Kinds, NEW path \in Files, NEW revision \in Nat,
             NEW hash \in Contents \cup {None}, kind # "delete" => hash \in Contents
      PROVE  Meant(Operation(kind, path, revision, hash))
  BY <1>8 DEF Operation, PendingOperations
<1>9. ASSUME NEW o \in objects
      PROVE  Meant(operation(o))
  <2> DEFINE createdOp == Operation("create", created[o], 1, files[created[o]])
             modifiedOp == Operation("modify", r[o].path, next(o), files[r[o].path])
             renamedOp == Operation("rename", target(o), next(o), files[target(o)])
             deletedOp == Operation("delete", r[o].path, next(o), None)
  <2>1. ASSUME o \in DOMAIN created
        PROVE  Meant(createdOp)
    <3>1. created[o] \in NewFiles(r, files)
      BY <2>1 DEF Created, r
    <3>2. QED
      BY <3>1, <1>5, <1>8 DEF Kinds
  <2>2. ASSUME o \in Modified(r, files)
        PROVE  Meant(modifiedOp)
    <3>1. o \in DOMAIN r /\ r[o].path \in Files /\ files[r[o].path] \in Contents
      BY <1>4, <1>6, <2>2 DEF Modified, FileMaps
    <3>2. QED
      BY <3>1, <1>4, <1>8 DEF Kinds
  <2>3. ASSUME o \in renamed
        PROVE  Meant(renamedOp)
    <3>1. target(o) \in NewFiles(r, files)
      <4>1. \E pair \in Renames(r, files) : pair[1] = o
        BY <2>3
      <4>2. (CHOOSE pair \in Renames(r, files) : pair[1] = o) \in Renames(r, files)
        BY <4>1
      <4>3. \A pair \in Renames(r, files) : pair[2] \in NewFiles(r, files)
        BY DEF Renames
      <4>4. QED
        BY <4>2, <4>3
    <3>2. o \in DOMAIN r /\ next(o) \in Nat
      BY <1>4, <1>6, <2>3
    <3> HIDE DEF target, next
    <3>3. QED
      BY <3>1, <3>2, <1>5, <1>8 DEF Kinds
  <2>4. ASSUME o \in deleted
        PROVE  Meant(deletedOp)
    <3>1. o \in DOMAIN r
      BY <1>6, <2>4
    <3>2. QED
      BY <3>1, <1>4, <1>8 DEF Kinds
  <2>5. operation(o) = CASE o \in DOMAIN created -> createdOp
                         [] o \in Modified(r, files) -> modifiedOp
                         [] o \in renamed -> renamedOp
                         [] o \in deleted -> deletedOp
    OBVIOUS
  <2>6. \/ o \in DOMAIN created \/ o \in Modified(r, files) \/ o \in renamed \/ o \in deleted
    OBVIOUS
  <2> HIDE DEF operation, createdOp, modifiedOp, renamedOp, deletedOp, renamed, deleted, Meant
  <2>7. QED
    BY <2>1, <2>2, <2>3, <2>4, <2>5, <2>6
<1> HIDE DEF operation, objects
<1>10. [o \in objects |-> operation(o)] \in [objects -> PendingOperations]
  BY <1>9
<1>11. [o \in objects |-> operation(o)] \in MapsTo(PendingOperations)
  BY <1>7, <1>10, MapIsMap
<1>12. QED
  BY <1>1, <1>7, <1>9, <1>11 DEF r

\* New objects for new files are objects that nobody has drawn.
LEMMA DrawsType ==
  ASSUME NEW files, NEW created \in Draws(files)
  PROVE  \E ids : ids \subseteq Objects \ drawn /\ created \in [ids -> files]
BY DEF Draws

\* Operations that stay and operations that are found are one map of operations.
LEMMA MergedType ==
  ASSUME NEW pending \in MapsTo(PendingOperations), NEW scanned \in MapsTo(PendingOperations)
  PROVE  /\ Merged(pending, scanned) \in MapsTo(PendingOperations)
         /\ DOMAIN Merged(pending, scanned) = DOMAIN pending \cup DOMAIN scanned
         /\ \A o \in DOMAIN Merged(pending, scanned) :
              \/ o \in DOMAIN pending /\ Merged(pending, scanned)[o] = pending[o]
              \/ o \in DOMAIN scanned /\ Merged(pending, scanned)[o] = scanned[o]
<1>1. /\ DOMAIN pending \cup DOMAIN scanned \subseteq Objects
      /\ \A o \in DOMAIN pending : pending[o] \in PendingOperations
      /\ \A o \in DOMAIN scanned : scanned[o] \in PendingOperations
  BY MapFacts
<1>2. Merged(pending, scanned) \in [DOMAIN pending \cup DOMAIN scanned -> PendingOperations]
  BY <1>1 DEF Merged
<1>3. Merged(pending, scanned) \in MapsTo(PendingOperations)
  BY <1>1, <1>2, MapIsMap
<1>4. QED
  BY <1>3 DEF Merged

\* A prepared commit and its parts.
LEMMA PreparedFacts ==
  ASSUME SyncInv, NEW d \in Devices, state[d].prepared # None
  PROVE  /\ state[d].prepared \in PreparedCommits
         /\ state[d].prepared.id \in CommitIds
         /\ state[d].prepared.commit \in Commits
         /\ state[d].prepared.commit.manifest \in MapsTo(Records)
         /\ state[d].prepared.commit.lamport \in Nat
         /\ state[d].prepared.completes \subseteq Objects
<1>1. state[d].prepared \in PreparedCommits
  BY DeviceFacts, StateFacts
<1>2. QED
  BY <1>1 DEF PreparedCommits, Commits

\* How a push begins.
LEMMA NextOfPushType ==
  ASSUME SyncInv, NEW d \in Devices, NEW pending \in MapsTo(PendingOperations)
  PROVE  LET r == NextOfPush(d, pending) IN
         /\ r \in Runs
         /\ r.phase \in {"idle", "preparing", "publishing"}
         /\ r.phase = "publishing" => state[d].prepared # None
         /\ r.phase = "preparing" => /\ r.todo \subseteq DOMAIN pending
                                     /\ r.records = state[d].records
                                     /\ state[d].prepared = None
         /\ r.heads = {}
         /\ DOMAIN r.selected = {}
         /\ DOMAIN r.records \subseteq DOMAIN state[d].records
<1>1. /\ DOMAIN pending \subseteq Objects
      /\ state[d].records \in MapsTo(Records)
      /\ Empty \in MapsTo(Records) /\ Empty \in MapsTo(SUBSET Records) /\ DOMAIN Empty = {}
  BY MapFacts, DeviceFacts, StateFacts, EmptyMap
<1>2. CASE state[d].prepared # None
  BY <1>1, <1>2 DEF NextOfPush, Idle, Runs, Phases
<1>3. CASE state[d].prepared = None /\ DOMAIN pending = {}
  BY <1>1, <1>3 DEF NextOfPush, Idle, Runs, Phases
<1>4. CASE state[d].prepared = None /\ DOMAIN pending # {}
  BY <1>1, <1>4 DEF NextOfPush, Idle, Runs, Phases
<1>5. QED
  BY <1>2, <1>3, <1>4

\* What a reconciliation changes.
LEMMA ReconcileForm ==
  ASSUME SyncInv, NEW d \in Devices, Reconcile(d)
  PROVE  \E pending \in MapsTo(PendingOperations), prepared \in PreparedCommits \cup {None} :
           LET s == [state[d] EXCEPT !.pending = pending, !.prepared = prepared]
               r == NextOfPush(d, pending)
           IN
           /\ Becomes(d, s, r)
           /\ DOMAIN pending \subseteq drawn'
           /\ drawn \subseteq drawn' /\ drawn' \subseteq Objects
           /\ \A o \in DOMAIN pending :
                pending[o].kind # "delete" => pending[o].hash \in Contents
           /\ prepared = None <=> state[d].prepared = None
           /\ prepared # None => /\ prepared.id = state[d].prepared.id
                                 /\ prepared.commit = state[d].prepared.commit
           /\ run[d].phase = "pulled"
           /\ UNCHANGED <<commits, vault>>
<1> DEFINE s0 == state[d]
           files == Created(s0.records, vault[d])
<1>1. PICK created \in Draws(files) :
        LET scanned == Scanned(s0, vault[d], created)
            pending == Merged(s0.pending, scanned)
            prepared == IF s0.prepared = None THEN None
                        ELSE [s0.prepared EXCEPT !.completes = @ \ DOMAIN scanned]
        IN
        /\ state' = [state EXCEPT ![d] = [s0 EXCEPT !.pending = pending, !.prepared = prepared]]
        /\ Advance(d, NextOfPush(d, pending))
        /\ drawn' = drawn \cup DOMAIN created
  BY Zenon DEF Reconcile
<1> DEFINE scanned == Scanned(s0, vault[d], created)
           pending == Merged(s0.pending, scanned)
           prepared == IF s0.prepared = None THEN None
                       ELSE [s0.prepared EXCEPT !.completes = @ \ DOMAIN scanned]
           s == [s0 EXCEPT !.pending = pending, !.prepared = prepared]
<1>2. PICK ids : ids \subseteq Objects \ drawn /\ created \in [ids -> files]
  BY DrawsType
<1>3. s0 \in SyncStates /\ vault[d] \in FileMaps /\ s0.pending \in MapsTo(PendingOperations)
      /\ DOMAIN s0.records \subseteq drawn /\ DOMAIN s0.pending \subseteq drawn
      /\ drawn \subseteq Objects /\ ids \subseteq Objects
  BY <1>2, DeviceFacts, StateFacts DEF NamesOnly
<1>4. /\ scanned \in MapsTo(PendingOperations)
      /\ DOMAIN scanned \subseteq DOMAIN s0.records \cup ids
      /\ \A o \in DOMAIN scanned : scanned[o].kind # "delete" => scanned[o].hash \in Contents
  BY <1>2, <1>3, ScannedType
<1>5. drawn' = drawn \cup ids
  BY <1>1, <1>2
<1> HIDE DEF scanned
<1>6. /\ pending \in MapsTo(PendingOperations)
      /\ DOMAIN pending \subseteq drawn'
      /\ \A o \in DOMAIN pending : pending[o].kind # "delete" => pending[o].hash \in Contents
  <2>1. /\ pending \in MapsTo(PendingOperations)
        /\ DOMAIN pending = DOMAIN s0.pending \cup DOMAIN scanned
        /\ \A o \in DOMAIN pending :
             \/ o \in DOMAIN s0.pending /\ pending[o] = s0.pending[o]
             \/ o \in DOMAIN scanned /\ pending[o] = scanned[o]
    BY <1>3, <1>4, MergedType
  <2>2. \A o \in DOMAIN s0.pending :
          s0.pending[o].kind # "delete" => s0.pending[o].hash \in Contents
    BY DeviceFacts DEF PhaseOK
  <2> HIDE DEF pending
  <2>3. QED
    BY <1>3, <1>4, <1>5, <2>1, <2>2
<1>7. /\ prepared \in PreparedCommits \cup {None}
      /\ prepared = None <=> s0.prepared = None
      /\ prepared # None => /\ prepared.id = s0.prepared.id
                            /\ prepared.commit = s0.prepared.commit
  <2>1. CASE s0.prepared = None
    BY <2>1
  <2>2. CASE s0.prepared # None
    <3>1. s0.prepared \in PreparedCommits /\ None \notin PreparedCommits
      BY <2>2, PreparedFacts, DeviceFacts
    <3> HIDE DEF s0
    <3>2. [s0.prepared EXCEPT !.completes = @ \ DOMAIN scanned] \in PreparedCommits
      BY <3>1 DEF PreparedCommits
    <3>3. QED
      BY <2>2, <3>1, <3>2 DEF PreparedCommits
  <2>3. QED
    BY <2>1, <2>2
<1>8. Becomes(d, s, NextOfPush(d, pending))
  BY <1>1, Zenon DEF Becomes, Advance, scanned
<1>9. run[d].phase = "pulled" /\ UNCHANGED <<commits, vault>>
  BY DEF Reconcile
<1> HIDE DEF pending, prepared
<1>10. QED
  BY <1>3, <1>5, <1>6, <1>7, <1>8, <1>9

\* The scan of the vault: operations name objects that are drawn.
LEMMA ReconcileKeepsInv ==
  ASSUME SyncInv, NEW d \in Devices, Reconcile(d), edits' = edits
  PROVE  SyncInv'
<1>1. PICK pending \in MapsTo(PendingOperations), prepared \in PreparedCommits \cup {None} :
        LET s == [state[d] EXCEPT !.pending = pending, !.prepared = prepared]
            r == NextOfPush(d, pending)
        IN
        /\ Becomes(d, s, r)
        /\ DOMAIN pending \subseteq drawn'
        /\ drawn \subseteq drawn' /\ drawn' \subseteq Objects
        /\ \A o \in DOMAIN pending :
             pending[o].kind # "delete" => pending[o].hash \in Contents
        /\ prepared = None <=> state[d].prepared = None
        /\ prepared # None => /\ prepared.id = state[d].prepared.id
                              /\ prepared.commit = state[d].prepared.commit
        /\ run[d].phase = "pulled"
        /\ UNCHANGED <<commits, vault>>
  BY ReconcileForm
<1> DEFINE s == [state[d] EXCEPT !.pending = pending, !.prepared = prepared]
           r == NextOfPush(d, pending)
<1>2. /\ r \in Runs
      /\ r.phase \in {"idle", "preparing", "publishing"}
      /\ r.phase = "publishing" => state[d].prepared # None
      /\ r.phase = "preparing" => r.todo \subseteq DOMAIN pending
      /\ r.heads = {}
      /\ DOMAIN r.selected = {}
      /\ DOMAIN r.records \subseteq DOMAIN state[d].records
  BY NextOfPushType
<1>3. /\ s \in SyncStates /\ s.known = state[d].known /\ s.heads = state[d].heads
      /\ s.records = state[d].records /\ s.pending = pending /\ s.prepared = prepared
  BY DeviceFacts, StateFacts DEF SyncStates
<1>4. Becomes(d, s, r) /\ vault' \in [Devices -> FileMaps]
  BY <1>1, DeviceFacts
<1> HIDE DEF s, r
<1>5. RefersTo(s, r, DOMAIN commits)
  BY <1>1, <1>2, <1>3, DeviceFacts DEF RefersTo
<1>6. PhaseOK(s, r, DOMAIN commits)
  BY <1>1, <1>2, <1>3 DEF PhaseOK
<1>7. NamesOnly(s, r, drawn')
  BY <1>1, <1>2, <1>3, DeviceFacts DEF NamesOnly
<1>8. QED
  BY <1>1, <1>2, <1>3, <1>4, <1>5, <1>6, <1>7, DeviceFacts, OneDeviceAlone
----------------------------------------------------------------------------
\* The push.

\* The next number of a device.
LEMMA NextIdType ==
  ASSUME SyncInv, NEW d \in Devices
  PROVE  NextId(d) \in CommitIds
BY DeviceFacts, StateFacts DEF NextId, CommitIds

\* The record that an operation leads to.
LEMMA RecordOfType ==
  ASSUME SyncInv, NEW d \in Devices, NEW o, NEW op \in PendingOperations,
         op.kind # "delete" => op.hash \in Contents, Preparable(d, op, o)
  PROVE  RecordOf(d, op, o) \in Records
<1>1. /\ op.kind \in Kinds /\ op.path \in Files /\ op.revision \in Nat
      /\ NextId(d) \in CommitIds
  BY NextIdType DEF PendingOperations
<1>2. o \in DOMAIN run[d].records => run[d].records[o] \in Records
  BY DeviceFacts, RunFacts, MapFacts
<1>3. CASE op.kind = "delete"
  <2>1. o \in DOMAIN run[d].records
    BY <1>3 DEF Preparable
  <2>2. RecordOf(d, op, o) =
          [run[d].records[o] EXCEPT !.path = op.path, !.revision = op.revision, !.tombstone = TRUE]
    BY <1>3 DEF RecordOf
  <2>3. QED
    BY <1>1, <1>2, <2>1, <2>2 DEF Records
<1>4. CASE op.kind # "delete"
  <2>1. op.kind = "modify" => o \in DOMAIN run[d].records
    BY DEF Preparable
  <2>2. op.kind = "modify" => run[d].records[o].name \in Files
    BY <1>2, <2>1 DEF Records
  <2>3. RecordOf(d, op, o) =
          [path |-> op.path,
           name |-> IF op.kind = "modify" THEN run[d].records[o].name ELSE op.path,
           revision |-> op.revision, hash |-> op.hash, tombstone |-> FALSE,
           blobs |-> NextId(d)]
    BY <1>4 DEF RecordOf
  <2>4. QED
    BY <1>1, <1>4, <2>2, <2>3 DEF Records
<1>5. QED
  BY <1>3, <1>4

\* What the preparation of an operation changes.
LEMMA PrepareForm ==
  ASSUME SyncInv, NEW d \in Devices, Prepare(d)
  PROVE  \/ Throw(d)
         \/ \E o \in run[d].todo, record \in Records :
              /\ o \in DOMAIN state[d].pending
              /\ record.tombstone =>
                   o \in DOMAIN run[d].records /\ record.hash = run[d].records[o].hash
              /\ Becomes(d, state[d], [run[d] EXCEPT !.todo = @ \ {o},
                                                     !.records = Put(@, o, record)])
              /\ run[d].phase = "preparing"
              /\ UNCHANGED <<commits, drawn, vault>>
<1> DEFINE o == Min(run[d].todo)
           op == state[d].pending[o]
<1>1. /\ run[d].phase = "preparing" /\ run[d].todo # {}
      /\ IF Preparable(d, op, o)
         THEN /\ Advance(d, [run[d] EXCEPT !.todo = @ \ {o},
                                           !.records = Put(@, o, RecordOf(d, op, o))])
              /\ UNCHANGED <<commits, drawn, vault, state>>
         ELSE Throw(d)
  BY Zenon DEF Prepare
<1>2. o \in run[d].todo
  BY <1>1, RunFacts, DeviceFacts, Least, IdentifiersAssumption
<1>3. o \in DOMAIN state[d].pending /\ (op.kind # "delete" => op.hash \in Contents)
  BY <1>1, <1>2, DeviceFacts DEF PhaseOK
<1>4. op \in PendingOperations
  BY <1>3, DeviceFacts, StateFacts, MapFacts
<1>5. CASE ~Preparable(d, op, o)
  BY <1>1, <1>5
<1>6. CASE Preparable(d, op, o)
  <2>1. RecordOf(d, op, o) \in Records
    BY <1>3, <1>4, <1>6, RecordOfType
  <2> DEFINE record == RecordOf(d, op, o)
  <2>2. Becomes(d, state[d], [run[d] EXCEPT !.todo = @ \ {o}, !.records = Put(@, o, record)])
    BY <1>1, <1>6 DEF Becomes, Advance
  <2>3. record.tombstone => o \in DOMAIN run[d].records /\ record.hash = run[d].records[o].hash
    <3>1. CASE op.kind = "delete"
      <4>1. o \in DOMAIN run[d].records /\ run[d].records[o] \in Records
        BY <1>6, <3>1, DeviceFacts, RunFacts, MapFacts DEF Preparable
      <4>2. record = [run[d].records[o] EXCEPT !.path = op.path, !.revision = op.revision,
                                               !.tombstone = TRUE]
        BY <3>1 DEF RecordOf
      <4>3. QED
        BY <4>1, <4>2 DEF Records
    <3>2. CASE op.kind # "delete"
      BY <3>2 DEF RecordOf
    <3>3. QED
      BY <3>1, <3>2
  <2> HIDE DEF record
  <2>4. QED
    BY <1>1, <1>2, <1>3, <1>6, <2>1, <2>2, <2>3 DEF record
<1>7. QED
  BY <1>5, <1>6

\* The record of one pending operation.
LEMMA PrepareKeepsInv ==
  ASSUME SyncInv, NEW d \in Devices, Prepare(d), edits' = edits
  PROVE  SyncInv'
<1>1. CASE Throw(d)
  BY <1>1, ThrowKeepsInv
<1>2. ASSUME NEW o \in run[d].todo, NEW record \in Records,
             o \in DOMAIN state[d].pending,
             Becomes(d, state[d], [run[d] EXCEPT !.todo = @ \ {o}, !.records = Put(@, o, record)]),
             run[d].phase = "preparing",
             UNCHANGED <<commits, drawn, vault>>
      PROVE  SyncInv'
  <2> DEFINE r == [run[d] EXCEPT !.todo = @ \ {o}, !.records = Put(@, o, record)]
  <2>1. o \in Objects /\ o \in drawn
    BY <1>2, RunFacts, DeviceFacts DEF NamesOnly
  <2>2. /\ Put(run[d].records, o, record) \in MapsTo(Records)
        /\ DOMAIN Put(run[d].records, o, record) = DOMAIN run[d].records \cup {o}
    <3>1. run[d].records \in MapsTo(Records)
      BY RunFacts, DeviceFacts
    <3>2. o \in Objects /\ record \in Records
      BY <2>1
    <3> DEFINE m == run[d].records
    <3> HIDE DEF m
    <3>3. m \in MapsTo(Records)
      BY <3>1 DEF m
    <3>4. /\ Put(m, o, record) \in MapsTo(Records)
          /\ DOMAIN Put(m, o, record) = DOMAIN m \cup {o}
      BY <3>2, <3>3, PutMap
    <3>5. QED
      BY <3>4 DEF m
  <2>3. /\ r \in Runs /\ r.phase = "preparing" /\ r.heads = run[d].heads
        /\ r.selected = run[d].selected /\ r.todo \subseteq run[d].todo
        /\ r.records = Put(run[d].records, o, record)
    BY <1>2, <2>2, RunFacts, DeviceFacts DEF Runs
  <2> HIDE DEF r
  <2>4. RefersTo(state[d], r, DOMAIN commits)
    BY <2>3, DeviceFacts DEF RefersTo
  <2>5. PhaseOK(state[d], r, DOMAIN commits)
    BY <1>2, <2>3, DeviceFacts DEF PhaseOK
  <2>6. NamesOnly(state[d], r, drawn)
    BY <2>1, <2>2, <2>3, DeviceFacts DEF NamesOnly
  <2>7. Becomes(d, state[d], r) /\ vault' \in [Devices -> FileMaps] /\ commits' = commits
        /\ drawn' = drawn
    BY <1>2, DeviceFacts DEF r
  <2>8. QED
    BY <2>3, <2>4, <2>5, <2>6, <2>7, DeviceFacts, StateFacts, OneDeviceAlone
<1>3. QED
  BY <1>1, <1>2, PrepareForm

\* What a signature changes.
SignedCommit(d) ==
  [parents |-> state[d].heads,
   past |-> {NextId(d)} \cup UNION {commits[id].past : id \in state[d].heads},
   lamport |-> state[d].lamport + 1,
   manifest |-> run[d].records]

\* The step that signs prepares that commit and goes on to publish it.
LEMMA SignForm ==
  ASSUME SyncInv, NEW d \in Devices, Sign(d)
  PROVE  LET prepared == [id |-> NextId(d), commit |-> SignedCommit(d),
                          completes |-> DOMAIN state[d].pending]
         IN
         /\ Becomes(d, [state[d] EXCEPT !.prepared = prepared], [Idle EXCEPT !.phase = "publishing"])
         /\ prepared \in PreparedCommits
         /\ SignedCommit(d).past \subseteq DOMAIN commits \cup {NextId(d)}
         /\ run[d].phase = "preparing"
         /\ UNCHANGED <<commits, drawn, vault>>
<1> DEFINE prepared == [id |-> NextId(d), commit |-> SignedCommit(d),
                        completes |-> DOMAIN state[d].pending]
<1>1. /\ state' = [state EXCEPT ![d].prepared = prepared]
      /\ Advance(d, [Idle EXCEPT !.phase = "publishing"])
      /\ run[d].phase = "preparing"
      /\ UNCHANGED <<commits, drawn, vault>>
  BY Zenon DEF Sign, SignedCommit
<1>2. /\ NextId(d) \in CommitIds
      /\ state[d].heads \subseteq DOMAIN commits
      /\ state[d].heads \subseteq CommitIds
      /\ state[d].lamport + 1 \in Nat
      /\ run[d].records \in MapsTo(Records)
      /\ DOMAIN state[d].pending \subseteq Objects
  BY DeviceFacts, StateFacts, RunFacts, NextIdType, MapFacts DEF RefersTo
<1>3. UNION {commits[id].past : id \in state[d].heads} \subseteq DOMAIN commits
  BY <1>2, DeviceFacts DEF GraphOK
<1>4. DOMAIN commits \subseteq CommitIds
  BY DeviceFacts DEF GraphOK
<1>5. SignedCommit(d) \in Commits
  BY <1>2, <1>3, <1>4 DEF SignedCommit, Commits
<1>6. prepared \in PreparedCommits
  BY <1>2, <1>5 DEF PreparedCommits
<1>7. SignedCommit(d).past \subseteq DOMAIN commits \cup {NextId(d)}
  BY <1>3 DEF SignedCommit
<1> HIDE DEF prepared
<1>8. Becomes(d, [state[d] EXCEPT !.prepared = prepared], [Idle EXCEPT !.phase = "publishing"])
  BY <1>1 DEF Becomes, Advance
<1>9. QED
  BY <1>1, <1>6, <1>7, <1>8 DEF prepared

\* The signature of a commit.
LEMMA SignKeepsInv ==
  ASSUME SyncInv, NEW d \in Devices, Sign(d), edits' = edits
  PROVE  SyncInv'
<1> DEFINE prepared == [id |-> NextId(d), commit |-> SignedCommit(d),
                        completes |-> DOMAIN state[d].pending]
           s == [state[d] EXCEPT !.prepared = prepared]
           r == [Idle EXCEPT !.phase = "publishing"]
<1>1. /\ Becomes(d, s, r)
      /\ prepared \in PreparedCommits
      /\ SignedCommit(d).past \subseteq DOMAIN commits \cup {NextId(d)}
      /\ run[d].phase = "preparing"
      /\ UNCHANGED <<commits, drawn, vault>>
  BY SignForm
<1>2. /\ r \in Runs /\ r.phase = "publishing" /\ r.heads = {}
      /\ DOMAIN r.selected = {} /\ DOMAIN r.records = {}
  BY IdleRun DEF Phases
<1>3. /\ prepared.id = NextId(d) /\ prepared.commit = SignedCommit(d)
      /\ SignedCommit(d).parents = state[d].heads
      /\ NextId(d) \in SignedCommit(d).past
      /\ SignedCommit(d).manifest = run[d].records
  BY DEF SignedCommit
<1> HIDE DEF prepared
<1>4. /\ s \in SyncStates /\ s.known = state[d].known /\ s.heads = state[d].heads
      /\ s.records = state[d].records /\ s.pending = state[d].pending
      /\ s.prepared = prepared /\ prepared # None
  BY <1>1, DeviceFacts, StateFacts DEF SyncStates
<1> HIDE DEF s, r
<1>5. RefersTo(s, r, DOMAIN commits)
  BY <1>1, <1>2, <1>3, <1>4, DeviceFacts DEF RefersTo
<1>6. PhaseOK(s, r, DOMAIN commits)
  BY <1>2, <1>4, DeviceFacts DEF PhaseOK
<1>7. NamesOnly(s, r, drawn)
  BY <1>2, <1>3, <1>4, DeviceFacts DEF NamesOnly
<1>8. QED
  BY <1>1, <1>2, <1>4, <1>5, <1>6, <1>7, DeviceFacts, OneDeviceAlone

\* An accepted commit joins the graph.
LEMMA GraphGrows ==
  ASSUME SyncInv, NEW d \in Devices, state[d].prepared # None,
         commits' = Put(commits, state[d].prepared.id, state[d].prepared.commit)
  PROVE  /\ GraphOK'
         /\ DOMAIN commits' = DOMAIN commits \cup {state[d].prepared.id}
         /\ commits'[state[d].prepared.id] = state[d].prepared.commit
         /\ \A id \in DOMAIN commits \ {state[d].prepared.id} : commits'[id] = commits[id]
<1> DEFINE new == state[d].prepared.id
           commit == state[d].prepared.commit
<1>1. /\ DOMAIN commits' = DOMAIN commits \cup {new}
      /\ commits'[new] = commit
      /\ \A id \in DOMAIN commits \ {new} : commits'[id] = commits[id]
  BY DEF Put
<1>2. /\ new \in CommitIds /\ commit \in Commits /\ commit.lamport \in Nat
      /\ commit.parents \subseteq DOMAIN commits
      /\ commit.past \subseteq DOMAIN commits \cup {new}
      /\ new \in commit.past
  BY PreparedFacts, DeviceFacts DEF RefersTo
<1>3. new[1] \in Nat /\ new[2] \in Nat
  BY <1>2, IdentifiersAssumption DEF CommitIds
<1> HIDE DEF new, commit
<1>4. DOMAIN commits' \subseteq CommitIds
  BY <1>1, <1>2, DeviceFacts DEF GraphOK
<1>5. ASSUME NEW id \in DOMAIN commits'
      PROVE  /\ commits'[id] \in Commits
             /\ commits'[id].parents \subseteq DOMAIN commits'
             /\ commits'[id].past \subseteq DOMAIN commits'
             /\ id \in commits'[id].past
  <2>1. CASE id = new
    BY <1>1, <1>2, <2>1
  <2>2. CASE id # new
    BY <1>1, <2>2, DeviceFacts DEF GraphOK
  <2>3. QED
    BY <2>1, <2>2
<1>6. \E n \in Nat : \A id \in DOMAIN commits' :
        commits'[id].lamport <= n /\ id[1] <= n /\ id[2] <= n
  <2>1. PICK n \in Nat : \A id \in DOMAIN commits :
          commits[id].lamport <= n /\ id[1] <= n /\ id[2] <= n
    BY DeviceFacts DEF GraphOK
  <2> DEFINE m == n + commit.lamport + new[1] + new[2]
  <2>2. m \in Nat /\ n <= m /\ commit.lamport <= m /\ new[1] <= m /\ new[2] <= m
    BY <1>2, <1>3
  <2> HIDE DEF m
  <2>3. ASSUME NEW id \in DOMAIN commits'
        PROVE  commits'[id].lamport <= m /\ id[1] <= m /\ id[2] <= m
    <3>1. CASE id = new
      BY <1>1, <2>2, <3>1
    <3>2. CASE id # new
      <4>1. /\ id \in DOMAIN commits /\ commits'[id] = commits[id]
            /\ commits[id].lamport \in Nat /\ id[1] \in Nat /\ id[2] \in Nat
        BY <1>1, <3>2, IdFacts, DeviceFacts
      <4>2. commits[id].lamport <= n /\ id[1] <= n /\ id[2] <= n
        BY <2>1, <4>1
      <4>3. QED
        BY <2>2, <4>1, <4>2
    <3>3. QED
      BY <3>1, <3>2
  <2>4. QED
    BY <2>2, <2>3
<1>7. GraphOK'
  BY <1>4, <1>5, <1>6 DEF GraphOK
<1>8. QED
  BY <1>1, <1>7 DEF new, commit

\* What the server's answer to a commit changes.
LEMMA PutCommitForm ==
  ASSUME SyncInv, NEW d \in Devices, PutCommit(d)
  PROVE  \/ Throw(d)
         \/ \E heads :
              /\ run[d].phase = "publishing" /\ state[d].prepared # None
              /\ Acceptable(state[d].prepared.id, state[d].prepared.commit)
              /\ commits' = Put(commits, state[d].prepared.id, state[d].prepared.commit)
              /\ heads \subseteq DOMAIN commits'
              /\ Becomes(d, state[d], [Idle EXCEPT !.phase = "accepted", !.heads = heads])
              /\ UNCHANGED <<drawn, vault>>
<1>1. run[d].phase = "publishing" /\ state[d].prepared # None
  BY DeviceFacts DEF PutCommit, PhaseOK
<1>2. CASE Acceptable(state[d].prepared.id, state[d].prepared.commit)
  <2> DEFINE heads == ServerHeads(commits')
  <2>1. heads \subseteq DOMAIN commits'
    BY DEF ServerHeads
  <2>2. /\ commits' = Put(commits, state[d].prepared.id, state[d].prepared.commit)
        /\ Becomes(d, state[d], [Idle EXCEPT !.phase = "accepted", !.heads = heads])
        /\ UNCHANGED <<drawn, vault>>
    BY <1>2, Zenon DEF PutCommit, Becomes, Advance
  <2> HIDE DEF heads
  <2>3. QED
    BY <1>1, <1>2, <2>1, <2>2
<1>3. CASE ~Acceptable(state[d].prepared.id, state[d].prepared.commit)
  BY <1>3, Zenon DEF PutCommit
<1>4. QED
  BY <1>2, <1>3

\* A commit reaches the server: numbers and times still have a bound.
LEMMA PutCommitKeepsInv ==
  ASSUME SyncInv, NEW d \in Devices, PutCommit(d), edits' = edits
  PROVE  SyncInv'
<1>1. CASE Throw(d)
  BY <1>1, ThrowKeepsInv
<1>2. ASSUME NEW heads,
             run[d].phase = "publishing", state[d].prepared # None,
             commits' = Put(commits, state[d].prepared.id, state[d].prepared.commit),
             heads \subseteq DOMAIN commits',
             Becomes(d, state[d], [Idle EXCEPT !.phase = "accepted", !.heads = heads]),
             UNCHANGED <<drawn, vault>>
      PROVE  SyncInv'
  <2> DEFINE r == [Idle EXCEPT !.phase = "accepted", !.heads = heads]
  <2>1. /\ GraphOK'
        /\ DOMAIN commits' = DOMAIN commits \cup {state[d].prepared.id}
        /\ commits'[state[d].prepared.id] = state[d].prepared.commit
        /\ \A id \in DOMAIN commits \ {state[d].prepared.id} : commits'[id] = commits[id]
    BY <1>2, GraphGrows
  <2>2. heads \subseteq CommitIds
    BY <1>2, <2>1 DEF GraphOK
  <2>3. /\ r \in Runs /\ r.phase = "accepted" /\ r.heads = heads
        /\ DOMAIN r.selected = {} /\ DOMAIN r.records = {}
    BY <2>2, EmptyMap DEF Idle, Runs, Phases
  <2>4. Becomes(d, state[d], r)
    BY <1>2
  <2> HIDE DEF r
  <2>5. RefersTo(state[d], r, DOMAIN commits')
    BY <1>2, <2>1, <2>3, DeviceFacts DEF RefersTo
  <2>6. PhaseOK(state[d], r, DOMAIN commits')
    BY <1>2, <2>1, <2>3, DeviceFacts DEF PhaseOK
  <2>7. NamesOnly(state[d], r, drawn)
    BY <2>3, DeviceFacts DEF NamesOnly
  <2>8. \A id \in DOMAIN commits' : DOMAIN commits'[id].manifest \subseteq drawn
    <3>1. DOMAIN state[d].prepared.commit.manifest \subseteq drawn
      BY <1>2, DeviceFacts DEF NamesOnly
    <3>2. QED
      BY <2>1, <3>1 DEF SyncInv
  <2>9. /\ DOMAIN commits \subseteq DOMAIN commits' /\ drawn' = drawn
        /\ vault' \in [Devices -> FileMaps] /\ edits' \in Nat
    BY <1>2, <2>1, DeviceFacts
  <2>10. QED
    BY <2>1, <2>3, <2>4, <2>5, <2>6, <2>7, <2>8, <2>9, DeviceFacts, StateFacts, OneDevice
<1>3. QED
  BY <1>1, <1>2, PutCommitForm

\* What remains of a map is a map.
LEMMA RestrictMap ==
  ASSUME NEW S, NEW m \in MapsTo(S), NEW objects, objects \subseteq DOMAIN m
  PROVE  /\ Restrict(m, objects) \in MapsTo(S)
         /\ DOMAIN Restrict(m, objects) = objects
         /\ \A o \in objects : Restrict(m, objects)[o] = m[o]
<1>1. Restrict(m, objects) \in [objects -> S] /\ objects \subseteq Objects
  BY MapFacts DEF Restrict
<1>2. QED
  BY <1>1, MapIsMap DEF Restrict

\* What the end of a publication changes.
LEMMA PublishPreparedForm ==
  ASSUME SyncInv, NEW d \in Devices, PublishPrepared(d)
  PROVE  \/ Throw(d)
         \/ /\ run[d].phase = "accepted" /\ state[d].prepared # None
            /\ Becomes(d, [state[d] EXCEPT
                            !.initialized = TRUE,
                            !.sequence = state[d].prepared.id[2],
                            !.lamport = state[d].prepared.commit.lamport,
                            !.known = state[d].known \cup {state[d].prepared.id},
                            !.heads = run[d].heads,
                            !.records = state[d].prepared.commit.manifest,
                            !.pending = Restrict(state[d].pending, DOMAIN state[d].pending
                                                                    \ state[d].prepared.completes),
                            !.prepared = None],
                       Idle)
            /\ UNCHANGED <<commits, drawn, vault>>
<1>1. run[d].phase = "accepted" /\ state[d].prepared # None
  BY DeviceFacts DEF PublishPrepared, PhaseOK
<1>2. QED
  BY <1>1 DEF PublishPrepared, Becomes, Advance

\* The end of a push.
LEMMA PublishPreparedKeepsInv ==
  ASSUME SyncInv, NEW d \in Devices, PublishPrepared(d), edits' = edits
  PROVE  SyncInv'
<1> DEFINE prepared == state[d].prepared
           left == DOMAIN state[d].pending \ prepared.completes
           pending == Restrict(state[d].pending, left)
           s == [state[d] EXCEPT
                   !.initialized = TRUE,
                   !.sequence = prepared.id[2],
                   !.lamport = prepared.commit.lamport,
                   !.known = state[d].known \cup {prepared.id},
                   !.heads = run[d].heads,
                   !.records = prepared.commit.manifest,
                   !.pending = pending,
                   !.prepared = None]
<1>1. CASE Throw(d)
  BY <1>1, ThrowKeepsInv
<1>2. ASSUME run[d].phase = "accepted", prepared # None, Becomes(d, s, Idle),
             UNCHANGED <<commits, drawn, vault>>
      PROVE  SyncInv'
  <2>1. /\ prepared.id \in CommitIds /\ prepared.commit.manifest \in MapsTo(Records)
        /\ prepared.commit.lamport \in Nat /\ prepared.id \in DOMAIN commits
    BY <1>2, PreparedFacts, DeviceFacts DEF PhaseOK
  <2>2. prepared.id[2] \in Nat
    BY <2>1 DEF CommitIds
  <2>3. /\ pending \in MapsTo(PendingOperations) /\ DOMAIN pending = left
        /\ \A o \in left : pending[o] = state[d].pending[o]
    BY DeviceFacts, StateFacts, RestrictMap
  <2>4. left \subseteq DOMAIN state[d].pending
    OBVIOUS
  <2>5. DOMAIN prepared.commit.manifest \subseteq drawn
    BY <1>2, DeviceFacts DEF NamesOnly
  <2> HIDE DEF prepared, left, pending
  <2>6. /\ s \in SyncStates /\ s.known = state[d].known \cup {prepared.id}
        /\ s.heads = run[d].heads /\ s.records = prepared.commit.manifest
        /\ s.pending = pending /\ s.prepared = None
    <3>1. /\ state[d] \in SyncStates /\ state[d].known \cup {prepared.id} \in SUBSET CommitIds
          /\ run[d].heads \in SUBSET CommitIds
      BY <2>1, DeviceFacts, StateFacts, RunFacts
    <3>2. QED
      BY <2>1, <2>2, <2>3, <3>1 DEF SyncStates
  <2> HIDE DEF s
  <2>7. Idle \in Runs /\ Idle.phase = "idle" /\ Idle.heads = {}
        /\ DOMAIN Idle.selected = {} /\ DOMAIN Idle.records = {}
    BY IdleRun DEF Phases
  <2>8. RefersTo(s, Idle, DOMAIN commits)
    BY <2>1, <2>6, <2>7, DeviceFacts DEF RefersTo
  <2>9. PhaseOK(s, Idle, DOMAIN commits)
    BY <2>3, <2>4, <2>6, <2>7, DeviceFacts DEF PhaseOK
  <2>10. NamesOnly(s, Idle, drawn)
    BY <2>3, <2>4, <2>5, <2>6, <2>7, DeviceFacts DEF NamesOnly
  <2>11. QED
    BY <1>2, <2>6, <2>7, <2>8, <2>9, <2>10, DeviceFacts, OneDeviceAlone
<1>3. QED
  BY <1>1, <1>2, PublishPreparedForm

----------------------------------------------------------------------------
\* All steps.

\* Every step keeps the types.
LEMMA NextKeepsInv ==
  ASSUME SyncInv, [Next]_syncVars
  PROVE  SyncInv'
<1>1. CASE UNCHANGED syncVars
  BY <1>1 DEF syncVars, vars, SyncInv, TypesOK, GraphOK
<1>2. ASSUME NEW d \in Devices,
             UserStep(d) \/ Interrupt(d) \/ ApplyInterrupted(d) \/ SyncStep(d)
      PROVE  SyncInv'
  <2>1. CASE UserStep(d)
    BY <2>1, UserKeepsInv
  <2>2. CASE Interrupt(d) \/ ApplyInterrupted(d)
    BY <2>2, InterruptKeepsInv, ApplyInterruptedKeepsInv
  <2>3. CASE SyncStep(d)
    <3>1. edits' = edits
      BY <2>3 DEF SyncStep
    <3>2. CASE PullStep(d)
      BY <3>1, <3>2, PullStartKeepsInv, ApplyEntryKeepsInv, PullSaveKeepsInv DEF PullStep
    <3>3. CASE PushStep(d)
      BY <3>1, <3>3, ReconcileKeepsInv, PrepareKeepsInv, SignKeepsInv, PutCommitKeepsInv,
         PublishPreparedKeepsInv DEF PushStep
    <3>4. QED
      BY <2>3, <3>2, <3>3 DEF SyncStep
  <2>4. QED
    BY <1>2, <2>1, <2>2, <2>3
<1>3. QED
  BY <1>1, <1>2 DEF Next

\* The files of records are contents.
LEMMA FilesOfType ==
  ASSUME NEW records \in MapsTo(Records)
  PROVE  FilesOf(records) \in FileMaps
<1>1. ASSUME NEW f \in Files, RecordAt(records, f) # {}
      PROVE  records[CHOOSE o \in RecordAt(records, f) : TRUE].hash \in Contents
  <2>1. (CHOOSE o \in RecordAt(records, f) : TRUE) \in RecordAt(records, f)
    BY <1>1
  <2>2. RecordAt(records, f) \subseteq DOMAIN records
    BY DEF RecordAt, ActiveObjects
  <2>3. records[CHOOSE o \in RecordAt(records, f) : TRUE] \in Records
    BY <2>1, <2>2, MapFacts
  <2>4. QED
    BY <2>3 DEF Records
<1>2. QED
  BY <1>1 DEF FilesOf, FileMaps

\* The first commit names the notes that the devices share.
LEMMA SharedType ==
  ASSUME NEW notes \in Beginnings
  PROVE  /\ Shared(notes) \in MapsTo(Records)
         /\ DOMAIN Shared(notes) = DOMAIN notes
         /\ DOMAIN notes \subseteq Objects
<1>1. /\ DOMAIN notes \subseteq Objects
      /\ \A o \in DOMAIN notes : notes[o] \in [path : Files, hash : Contents]
  BY BeginningsAssumption
<1>2. Root \in CommitIds
  BY BeginningsAssumption DEF Root, CommitIds
<1>3. Shared(notes) \in [DOMAIN notes -> Records]
  BY <1>1, <1>2 DEF Shared, Records
<1>4. QED
  BY <1>1, <1>3, MapIsMap

\* A device at the beginning.
LEMMA FirstStates ==
  /\ EmptyState \in SyncStates
  /\ \A notes \in Beginnings, d \in Devices : SharedState(d, notes) \in SyncStates
<1>1. Empty \in MapsTo(Records) /\ Empty \in MapsTo(PendingOperations)
  BY EmptyMap
<1>2. EmptyState \in SyncStates
  BY <1>1 DEF EmptyState, SyncStates
<1>3. ASSUME NEW notes \in Beginnings, NEW d \in Devices
      PROVE  SharedState(d, notes) \in SyncStates
  <2>1. Shared(notes) \in MapsTo(Records) /\ Root \in CommitIds
    BY SharedType, BeginningsAssumption DEF Root, CommitIds
  <2>2. QED
    BY <1>1, <2>1 DEF SharedState, EmptyState, SyncStates
<1>4. QED
  BY <1>2, <1>3

\* No synchronization runs, and no device has pending operations or a prepared commit.
LEMMA FirstDevices ==
  ASSUME NEW s, NEW accepted, NEW objects,
         s.known \subseteq accepted, s.heads \subseteq accepted, s.prepared = None,
         s.pending = Empty, DOMAIN s.records \subseteq objects
  PROVE  RefersTo(s, Idle, accepted) /\ PhaseOK(s, Idle, accepted) /\ NamesOnly(s, Idle, objects)
<1>1. /\ Idle.phase = "idle" /\ Idle.heads = {}
      /\ DOMAIN Idle.selected = {} /\ DOMAIN Idle.records = {} /\ DOMAIN Empty = {}
  BY IdleRun, EmptyMap DEF Phases
<1>2. RefersTo(s, Idle, accepted)
  BY <1>1 DEF RefersTo
<1>3. PhaseOK(s, Idle, accepted)
  BY <1>1 DEF PhaseOK
<1>4. NamesOnly(s, Idle, objects)
  BY <1>1 DEF NamesOnly
<1>5. QED
  BY <1>2, <1>3, <1>4

\* The types hold at the start.
LEMMA InitInv == Init => SyncInv
<1> SUFFICES ASSUME Init PROVE SyncInv
  OBVIOUS
<1>1. PICK notes \in Beginnings :
        /\ run = [d \in Devices |-> Idle]
        /\ drawn = DOMAIN notes
        /\ vault = [d \in Devices |-> FilesOf(Shared(notes))]
        /\ edits = 0
        /\ IF notes = Empty
           THEN /\ commits = [id \in {} |-> None]
                /\ state = [d \in Devices |-> EmptyState]
           ELSE /\ commits = [id \in {Root} |->
                     [parents |-> {}, past |-> {Root}, lamport |-> 1,
                      manifest |-> Shared(notes)]]
                /\ state = [d \in Devices |-> SharedState(d, notes)]
  BY Zenon DEF Init
<1>2. /\ Shared(notes) \in MapsTo(Records) /\ DOMAIN Shared(notes) = DOMAIN notes
      /\ DOMAIN notes \subseteq Objects /\ FilesOf(Shared(notes)) \in FileMaps
  BY SharedType, FilesOfType
<1>3. Idle \in Runs
  BY IdleRun DEF Phases
<1>4. /\ drawn \subseteq Objects /\ vault \in [Devices -> FileMaps] /\ edits \in Nat
      /\ run \in [Devices -> Runs]
  BY <1>1, <1>2, <1>3
<1>5. CASE notes = Empty
  <2>1. DOMAIN commits = {} /\ state = [d \in Devices |-> EmptyState]
    BY <1>1, <1>5
  <2>2. GraphOK
    BY <2>1 DEF GraphOK
  <2>3. TypesOK
    BY <1>4, <2>1, <2>2, FirstStates DEF TypesOK
  <2>4. ASSUME NEW d \in Devices
        PROVE  /\ RefersTo(state[d], run[d], DOMAIN commits)
               /\ PhaseOK(state[d], run[d], DOMAIN commits)
               /\ NamesOnly(state[d], run[d], drawn)
    <3>1. /\ EmptyState.known = {} /\ EmptyState.heads = {} /\ EmptyState.prepared = None
          /\ EmptyState.pending = Empty /\ DOMAIN EmptyState.records = {}
      BY EmptyMap DEF EmptyState
    <3>2. /\ RefersTo(EmptyState, Idle, DOMAIN commits)
          /\ PhaseOK(EmptyState, Idle, DOMAIN commits)
          /\ NamesOnly(EmptyState, Idle, drawn)
      BY <3>1, FirstDevices
    <3>3. state[d] = EmptyState /\ run[d] = Idle
      BY <1>1, <2>1
    <3>4. QED
      BY <3>2, <3>3
  <2>5. QED
    BY <2>1, <2>3, <2>4 DEF SyncInv
<1>6. CASE notes # Empty
  <2> DEFINE first == [parents |-> {}, past |-> {Root}, lamport |-> 1,
                       manifest |-> Shared(notes)]
  <2>1. /\ DOMAIN commits = {Root} /\ commits[Root] = first
        /\ state = [d \in Devices |-> SharedState(d, notes)]
    BY <1>1, <1>6
  <2>2. Root \in CommitIds /\ Root[1] \in Nat /\ Root[2] = 1
    BY BeginningsAssumption, IdentifiersAssumption DEF Root, CommitIds
  <2>3. first \in Commits
    BY <1>2, <2>2 DEF Commits
  <2>4. /\ first.parents = {} /\ first.past = {Root} /\ first.lamport = 1
        /\ first.manifest = Shared(notes)
    OBVIOUS
  <2> HIDE DEF first
  <2>5. GraphOK
    <3>1. commits[Root].lamport <= Root[1] + 1 /\ Root[1] <= Root[1] + 1 /\ Root[2] <= Root[1] + 1
          /\ Root[1] + 1 \in Nat
      BY <2>1, <2>2, <2>4
    <3>2. QED
      BY <2>1, <2>2, <2>3, <2>4, <3>1 DEF GraphOK
  <2>6. TypesOK
    BY <1>4, <2>1, <2>5, FirstStates DEF TypesOK
  <2>7. ASSUME NEW d \in Devices
        PROVE  /\ RefersTo(state[d], run[d], DOMAIN commits)
               /\ PhaseOK(state[d], run[d], DOMAIN commits)
               /\ NamesOnly(state[d], run[d], drawn)
    <3> DEFINE s == SharedState(d, notes)
    <3>1. /\ s.known = {Root} /\ s.heads = {Root} /\ s.prepared = None
          /\ s.pending = Empty /\ s.records = Shared(notes)
      BY DEF SharedState, EmptyState
    <3> HIDE DEF s
    <3>2. /\ RefersTo(s, Idle, DOMAIN commits)
          /\ PhaseOK(s, Idle, DOMAIN commits)
          /\ NamesOnly(s, Idle, drawn)
      BY <1>1, <1>2, <2>1, <3>1, FirstDevices
    <3>3. state[d] = s /\ run[d] = Idle
      BY <1>1, <2>1 DEF s
    <3>4. QED
      BY <3>2, <3>3
  <2>8. QED
    BY <1>1, <1>2, <2>1, <2>4, <2>6, <2>7 DEF SyncInv
<1>7. QED
  BY <1>5, <1>6

\* The invariant implies the type invariant that the runs check.
LEMMA InvTypes == SyncInv => SyncTypeOK
<1> SUFFICES ASSUME SyncInv PROVE SyncTypeOK
  OBVIOUS
<1>1. /\ DOMAIN commits \subseteq CommitIds
      /\ \A id \in DOMAIN commits :
           commits[id].parents \subseteq DOMAIN commits /\ commits[id].past \subseteq DOMAIN commits
      /\ drawn \subseteq Objects
      /\ vault \in [Devices -> [Files -> Contents \cup {None}]]
  BY DEF SyncInv, TypesOK, GraphOK, FileMaps
<1>2. ASSUME NEW d \in Devices
      PROVE  /\ run[d].phase \in Phases
             /\ state[d].known \subseteq DOMAIN commits
             /\ state[d].heads \subseteq DOMAIN commits
             /\ state[d].prepared # None => state[d].prepared.id \in CommitIds
             /\ DOMAIN state[d].records \cup DOMAIN state[d].pending \subseteq drawn
             /\ run[d].phase \in {"publishing", "accepted"} => state[d].prepared # None
  BY DeviceFacts, RunFacts, PreparedFacts DEF RefersTo, PhaseOK, NamesOnly
<1>3. QED
  BY <1>1, <1>2 DEF SyncTypeOK

----------------------------------------------------------------------------
\* Devices and their server keep to their types: whatever users, synchronizations and
\* interruptions do, what a device knows, heads and prepares is accepted or its own, and it
\* names only objects that were drawn (state.ts: validateState; pull.ts, engine.ts).
THEOREM SyncTypes == Spec => []SyncTypeOK
<1>1. Init => SyncInv
  BY InitInv
<1>2. SyncInv /\ [Next]_syncVars => SyncInv'
  BY NextKeepsInv
<1>3. SyncInv => SyncTypeOK
  BY InvTypes
<1>4. QED
  BY <1>1, <1>2, <1>3, PTL DEF Spec
=============================================================================
