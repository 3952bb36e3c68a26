----------------------------- MODULE VaultSync -----------------------------
(***************************************************************************)
(* Devices that synchronize one vault through a server                     *)
(* (plugin/src/sync/controller.ts: runOnce): each pulls, reconciles and    *)
(* pushes, again and again, while its user edits notes and while           *)
(* synchronizations are cut off by lost answers and closed applications.   *)
(***************************************************************************)
EXTENDS SyncEngine, PullMerge

CONSTANTS
  Beginnings,     \* the notes the devices may already share, by their objects
  Author,         \* the device that published those notes
  Edits,          \* per device, the kinds of edits its user makes
  MaxEdits,       \* bound: edits of all users together
  MaxInterrupts,  \* bound: synchronizations that are cut off
  MaxCommits,     \* bound: no synchronization begins with more commits
  Reuse           \* whether users give a note the path or the content that
                  \* another has or had

VARIABLES
  edits,      \* edits so far
  interrupts  \* interrupted synchronizations so far

syncVars == <<vars, edits, interrupts>>

\* The notes were the files of a vault, each at a path of its own.
ASSUME BeginningsAssumption ==
  /\ Author \in Devices
  /\ \A notes \in Beginnings :
       /\ DOMAIN notes \subseteq Objects
       /\ IsFiniteSet(DOMAIN notes)
       /\ \A o \in DOMAIN notes : notes[o] \in [path : Files, hash : Contents]
       /\ \A o, other \in DOMAIN notes : notes[o].path = notes[other].path => o = other

ASSUME EditsAssumption ==
  /\ {MaxEdits, MaxInterrupts, MaxCommits} \subseteq Nat
  /\ Edits \in [Devices -> SUBSET {"create", "modify", "move", "delete"}]
  /\ Reuse \in BOOLEAN
  /\ ~Reuse => 1 .. MaxEdits \subseteq Contents

\* The files that records describe.
FilesOf(records) ==
  [f \in Files |->
     IF RecordAt(records, f) = {} THEN None
     ELSE records[CHOOSE o \in RecordAt(records, f) : TRUE].hash]

\* Notes at the beginning, as the first commit made them.
Root == <<Author, 1>>
Shared(notes) ==
  [o \in DOMAIN notes |->
     [path |-> notes[o].path, name |-> notes[o].path, revision |-> 1,
      hash |-> notes[o].hash, tombstone |-> FALSE, blobs |-> Root]]

\* The state of a device that published or pulled the first commit.
SharedState(d, notes) ==
  [EmptyState EXCEPT !.initialized = TRUE, !.sequence = IF d = Author THEN 1 ELSE 0,
                     !.lamport = 1, !.known = {Root}, !.heads = {Root},
                     !.records = Shared(notes)]

\* Either nobody has published anything, or all have the first commit.
Init ==
  \E notes \in Beginnings :
    /\ run = [d \in Devices |-> Idle]
    /\ drawn = DOMAIN notes
    /\ vault = [d \in Devices |-> FilesOf(Shared(notes))]
    /\ edits = 0
    /\ interrupts = 0
    /\ IF notes = Empty
       THEN /\ commits = [id \in {} |-> None]
            /\ state = [d \in Devices |-> EmptyState]
       ELSE /\ commits = [id \in {Root} |->
                 [parents |-> {}, past |-> {Root}, lamport |-> 1,
                  manifest |-> Shared(notes)]]
            /\ state = [d \in Devices |-> SharedState(d, notes)]

----------------------------------------------------------------------------
\* The user of a device, between two synchronizations.

\* The paths the user may give to a note.
Targets(d) ==
  {f \in Paths[d] :
     /\ vault[d][f] = None
     /\ Reuse \/ \A id \in DOMAIN commits :
                   \A entry \in Range(commits[id].manifest) : entry.path # f}

\* The contents a user may write: any, or one that nobody wrote before.
Writable == IF Reuse THEN Contents ELSE {edits + 1}

Edit(d, kind, files) ==
  /\ kind \in Edits[d]
  /\ edits < MaxEdits
  /\ run[d].phase = "idle"
  /\ vault' = [vault EXCEPT ![d] = files]
  /\ edits' = edits + 1
  /\ UNCHANGED <<commits, drawn, state, run, interrupts>>

Create(d) ==
  \E f \in Targets(d), content \in Writable :
    Edit(d, "create", [vault[d] EXCEPT ![f] = content])

Modify(d) ==
  \E f \in Existing(vault[d]), content \in Writable :
    /\ content # vault[d][f]
    /\ Edit(d, "modify", [vault[d] EXCEPT ![f] = content])

Move(d) ==
  \E f \in Existing(vault[d]), target \in Targets(d) :
    Edit(d, "move", [vault[d] EXCEPT ![f] = None, ![target] = vault[d][f]])

Delete(d) ==
  \E f \in Existing(vault[d]) : Edit(d, "delete", [vault[d] EXCEPT ![f] = None])

UserStep(d) == Create(d) \/ Modify(d) \/ Move(d) \/ Delete(d)

\* A lost answer, a timeout, or the end of the application: what is in memory
\* is gone.
Interrupt(d) ==
  /\ run[d].phase # "idle"
  /\ interrupts < MaxInterrupts
  /\ interrupts' = interrupts + 1
  /\ run' = [run EXCEPT ![d] = Idle]
  /\ UNCHANGED <<commits, drawn, vault, state, edits>>

\* The same between two writes of an entry of the pull: the vault keeps those that are done.
ApplyInterrupted(d) ==
  /\ run[d].phase = "applying"
  /\ run[d].todo # {}
  /\ interrupts < MaxInterrupts
  /\ interrupts' = interrupts + 1
  /\ \E files \in BetweenWrites(d, vault[d], Min(run[d].todo)) :
       vault' = [vault EXCEPT ![d] = files]
  /\ run' = [run EXCEPT ![d] = Idle]
  /\ UNCHANGED <<commits, drawn, state, edits>>

\* SyncController.runOnce.
SyncStep(d) ==
  /\ run[d].phase = "idle" => Cardinality(DOMAIN commits) < MaxCommits
  /\ PullStep(d) \/ PushStep(d)
  /\ UNCHANGED <<edits, interrupts>>

Next ==
  \E d \in Devices : UserStep(d) \/ Interrupt(d) \/ ApplyInterrupted(d) \/ SyncStep(d)

Spec == Init /\ [][Next]_syncVars

\* What a synchronization cannot get past: a pull that refuses its snapshot,
\* and, in the model, the bounds on commits and on object identifiers.
Blocked(d) ==
  \/ run[d].phase = "idle" /\ ~PathsUnique(Selected(ServerHeads(commits)))
  \/ run[d].phase = "idle" /\ Cardinality(DOMAIN commits) >= MaxCommits
  \/ run[d].phase = "pulled" /\ Draws(Created(state[d].records, vault[d])) = {}

\* A synchronization that has begun goes on, and the next one begins: the
\* controller starts one every five minutes.  This is the weak fairness of
\* SyncStep(d), whose enabling condition is ~Blocked(d).
Persists(d) == []<><<SyncStep(d)>>_syncVars \/ []<>Blocked(d)

FairSpec == Spec /\ \A d \in Devices : Persists(d)

----------------------------------------------------------------------------
\* The values of the variables.
SyncTypeOK ==
  /\ DOMAIN commits \subseteq CommitIds
  /\ \A id \in DOMAIN commits :
       /\ commits[id].parents \subseteq DOMAIN commits
       /\ commits[id].past \subseteq DOMAIN commits
  /\ drawn \subseteq Objects
  /\ vault \in [Devices -> [Files -> Contents \cup {None}]]
  /\ \A d \in Devices :
       /\ run[d].phase \in Phases
       /\ state[d].known \subseteq DOMAIN commits
       /\ state[d].heads \subseteq DOMAIN commits
       /\ state[d].prepared # None => state[d].prepared.id \in CommitIds
       /\ DOMAIN state[d].records \cup DOMAIN state[d].pending \subseteq drawn
       /\ run[d].phase \in {"publishing", "accepted"} => state[d].prepared # None

\* A device never signs two different commits with one number, whatever was
\* lost before: a number the server has belongs to the prepared commit, and a
\* commit that is being prepared has one the server does not have.
NumbersAreUsedOnce ==
  \A d \in Devices :
    LET prepared == state[d].prepared IN
    /\ prepared # None /\ prepared.id \in DOMAIN commits =>
         commits[prepared.id] = prepared.commit
    /\ prepared = None => NextId(d) \notin DOMAIN commits

\* The Lamport time of a commit exceeds those of its parents, which is what
\* nearestCommonAncestor and the choice of winners rely on.
TimeFollowsHistory ==
  \A id \in DOMAIN commits : \A parent \in commits[id].parents :
    commits[parent].lamport < commits[id].lamport

\* A commit knows every object that one of its parents knows: no device
\* publishes a manifest from which a note has disappeared without a tombstone.
NoObjectIsForgotten ==
  \A id \in DOMAIN commits : \A parent \in commits[id].parents :
    DOMAIN commits[parent].manifest \subseteq DOMAIN commits[id].manifest

Published ==
  {entry.hash : entry \in {e \in UNION {Range(commits[id].manifest) : id \in DOMAIN commits} :
                             ~e.tombstone}}

\* When a synchronization takes a content out of a vault, it is still in
\* another file of that vault or in the history of the server.  The user's own
\* edits are made between synchronizations.
NothingIsLost ==
  [][\A d \in Devices :
       run[d].phase # "idle" =>
         Range(vault[d]) \subseteq Range(vault'[d]) \cup Published']_syncVars

\* A device whose files are those of its records ends the pull of a single head.
EndsUnedited(d) ==
  /\ run[d].phase = "applying"
  /\ run[d].todo = {}
  /\ Cardinality(run[d].heads) = 1
  /\ run[d].local = FilesOf(state[d].records)

\* A path passes from one note to another.
HandsOver(d) ==
  \E o \in ActiveObjects(run[d].selected), other \in DOMAIN state[d].records :
    o # other /\ run[d].selected[o].path = state[d].records[other].path

\* "For one head, the signed manifest is the target snapshot" (docs/synchronization.md): a
\* device without edits ends the pull of a single head with the files of that snapshot, if
\* it remembers no deleted note, which could be taken for another one, and no path passes
\* from one note to another.
TargetIsReached ==
  \A d \in Devices :
    /\ EndsUnedited(d)
    /\ ActiveObjects(state[d].records) = DOMAIN state[d].records
    /\ ~HandsOver(d)
    => vault[d] = FilesOf(run[d].selected)

\* Devices that stop editing and whose synchronizations are no longer cut off
\* end with the same files, with nothing left to publish.
EventuallyTheSame ==
  <>[](\A d, e \in Devices :
         /\ vault[d] = vault[e]
         /\ state[d].pending = Empty
         /\ state[d].prepared = None)
=============================================================================
