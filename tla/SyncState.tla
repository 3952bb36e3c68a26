----------------------------- MODULE SyncState -----------------------------
(***************************************************************************)
(* What the devices of a vault and their server keep: the files of each    *)
(* vault, the persistent state of each plugin (plugin/src/sync/types.ts,   *)
(* state.ts), the memory of a running synchronization, and the commits the *)
(* server accepted.                                                        *)
(*                                                                         *)
(* A file is its canonical content, which stands for its hash as well.     *)
(* The server is the one of VaultHistory: every request is one step.       *)
(***************************************************************************)
EXTENDS Naturals, FiniteSets, Functions

CONSTANTS
  Devices,   \* device identifiers, ordered as commit identifiers are
  Paths,     \* per device, the paths its user gives to notes
  Copies,    \* per device, the paths of the conflict copies it makes
  Contents,  \* canonical contents
  Objects,   \* object identifiers
  None       \* no file, no record, no prepared commit

Files == UNION {Paths[d] \cup Copies[d] : d \in Devices}

ASSUME IdentifiersAssumption == Devices \subseteq Nat /\ Objects \subseteq Nat

ASSUME NamesAssumption ==
  /\ None \notin Contents \cup Files
  /\ \A d, e \in Devices : d # e => Copies[d] \cap Copies[e] = {}

VARIABLES
  commits,  \* server: the accepted commits by identifier
  drawn,    \* the object identifiers drawn so far
  vault,    \* per device, the content of each file
  state,    \* per device, SyncState in IndexedDB
  run       \* per device, the running synchronization

vars == <<commits, drawn, vault, state, run>>

\* A commit is identified by its device and its number on it.
CommitIds == Devices \X (Nat \ {0})

\* A record is a SyncRecord and a manifest entry: path is what the record
\* says, name what the encrypted path blob says, blobs the commit for which
\* its blobs were encrypted.
Records ==
  [path : Files, name : Files, revision : Nat, hash : Contents,
   tombstone : BOOLEAN, blobs : CommitIds]

Kinds == {"create", "modify", "rename", "delete"}

PendingOperations ==
  [kind : Kinds, path : Files, revision : Nat, hash : Contents \cup {None}]

\* Finite maps from objects.
MapsTo(S) == UNION {[dom -> S] : dom \in SUBSET Objects}
Empty == [o \in {} |-> None]

\* past is the commit with its ancestors.
Commits ==
  [parents : SUBSET CommitIds, past : SUBSET CommitIds, lamport : Nat,
   manifest : MapsTo(Records)]

\* completes are the objects whose pending operation the commit carries out
\* and no later scan has replaced: the operationIds that still occur.
PreparedCommits ==
  [id : CommitIds, commit : Commits, completes : SUBSET Objects]

ASSUME PreparedAssumption == None \notin PreparedCommits

SyncStates ==
  [initialized : BOOLEAN, sequence : Nat, lamport : Nat,
   known : SUBSET CommitIds, heads : SUBSET CommitIds,
   records : MapsTo(Records), pending : MapsTo(PendingOperations),
   prepared : PreparedCommits \cup {None}]

EmptyState ==
  [initialized |-> FALSE, sequence |-> 0, lamport |-> 0, known |-> {},
   heads |-> {}, records |-> Empty, pending |-> Empty, prepared |-> None]

Phases == {"idle", "applying", "pulled", "preparing", "publishing", "accepted"}

\* The memory of a synchronization: the files it scanned, the entries it
\* selected, the objects it has left, the records it prepares, and the heads
\* of the server's answer.
Idle ==
  [phase |-> "idle", local |-> Empty, selected |-> Empty, todo |-> {},
   records |-> Empty, heads |-> {}, conflicts |-> Empty]

----------------------------------------------------------------------------
ActiveObjects(records) == {o \in DOMAIN records : ~records[o].tombstone}

\* validateState, and the test of the selected paths in a pull.
PathsUnique(records) ==
  \A o, p \in ActiveObjects(records) : records[o].path = records[p].path => o = p

Existing(files) == {f \in DOMAIN files : files[f] # None}

Put(map, key, value) ==
  [k \in DOMAIN map \cup {key} |-> IF k = key THEN value ELSE map[k]]

Advance(d, next) == run' = [run EXCEPT ![d] = next]

\* A synchronization throws: what it had in memory is gone.
Throw(d) ==
  /\ Advance(d, Idle)
  /\ UNCHANGED <<commits, drawn, vault, state>>

\* The heads of the server.
ServerHeads(graph) ==
  {id \in DOMAIN graph : \A other \in DOMAIN graph : id \notin graph[other].parents}
=============================================================================
