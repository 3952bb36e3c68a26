----------------------------- MODULE CommitStore -----------------------------
(***************************************************************************)
(* The commit graph of the sync server (crates/ll-server, application.rs   *)
(* put_commit, storage/version.rs and the device table of storage/mod.rs). *)
(*                                                                         *)
(* A PutCommit request passes four awaited reads and one immediate SQLite  *)
(* transaction.  Revocations, registrations, other uploads, crashes and    *)
(* abandoned connections happen between any two of them, so each read and  *)
(* the transaction is an action of its own.                                *)
(***************************************************************************)
EXTENDS Naturals, FiniteSets

CONSTANTS
  Devices,     \* device identifiers
  Keys,        \* Ed25519 verifying keys
  Identities,  \* the <<device, key>> pairs that clients may register
  NoKey,       \* the key of a device that was never registered
  Records,     \* the signed commit records clients may ever send
  NoRecord,    \* the record of a worker that serves no request
  Workers,     \* HTTP requests that can be in flight together
  MaxCommits,  \* MAX_COMMITS_PER_VAULT
  MaxHeads,    \* MAX_HEADS
  MaxParents   \* MAX_COMMIT_PARENTS

\* What decode_signed_commit leaves of a record: an identifier, the unsigned
\* fields it was hashed from, and the key that made the signature.
SignedCommit ==
  [id : Nat, device : Devices, sequence : Nat \ {0},
   parents : SUBSET Nat, key : Keys]

Unsigned(c) == <<c.device, c.sequence, c.parents>>

\* The identifier is a hash of the unsigned fields, computed again by the
\* server, so it determines them.  It does not determine the signature.
ASSUME RecordsAssumption ==
  /\ \A c \in Records : c \in SignedCommit
  /\ \A c \in Records :
       IsFiniteSet(c.parents) /\ Cardinality(c.parents) <= MaxParents
  /\ \A c, d \in Records : c.id = d.id => Unsigned(c) = Unsigned(d)

ASSUME IdentitiesAssumption == Identities \subseteq Devices \X Keys

ASSUME BoundsAssumption ==
  /\ MaxCommits \in Nat
  /\ MaxHeads \in Nat
  /\ MaxParents \in Nat
  /\ NoKey \notin Keys
  /\ NoRecord \notin Records

VARIABLES
  status,      \* devices.revoked_at: a row is absent, active or revoked
  publicKey,   \* devices.public_key
  commits,     \* table commits: the signed record and its generation
  edges,       \* table commit_parents: <<commit_id, parent_id>>
  heads,       \* table heads
  up,          \* whether the server process runs
  request,     \* the PutCommit request each worker serves
  revoking,    \* targets of the RevokeDevice requests past require_device
  registered   \* history: every (device, key) pair ever registered

deviceVars == <<status, publicKey, registered>>
graphVars == <<commits, edges, heads>>
vars == <<status, publicKey, commits, edges, heads, up, request, revoking,
          registered>>

Row == [record : Records, generation : Nat]
Steps == {"idle", "received", "authorized", "verified", "checked",
          "stored", "refused"}
Request == [step : Steps, session : Devices \cup {NoKey},
            record : Records \cup {NoRecord}, reply : SUBSET Nat]

Idle == [step |-> "idle", session |-> NoKey, record |-> NoRecord,
         reply |-> {}]

----------------------------------------------------------------------------
\* Queries over the tables.

Stored == {row.record : row \in commits}
StoredIds == {row.record.id : row \in commits}
Generations(ids) == {row.generation : row \in {r \in commits : r.record.id \in ids}}
SequencesOf(d) ==
  {row.record.sequence : row \in {r \in commits : r.record.device = d}}

\* n is one more than the maximum of S, or first when S is empty.
Follows(n, S, first) ==
  /\ \A m \in S : m < n
  /\ IF S = {} THEN n = first ELSE \E m \in S : n = m + 1

Active(d) == status[d] = "active"

\* The childless commits of a graph, as repair_heads selects them.
Childless(ids, arcs) == {i \in ids : \A arc \in arcs : arc[2] # i}

----------------------------------------------------------------------------
\* Devices.

\* RegisterDevice inserts a row or authorizes the device again.
Register(d, k) ==
  /\ up
  /\ status' = [status EXCEPT ![d] = "active"]
  /\ publicKey' = [publicKey EXCEPT ![d] = k]
  /\ registered' = registered \cup {<<d, k>>}
  /\ UNCHANGED <<commits, edges, heads, up, request, revoking>>

\* RevokeDevice on the session of s: the check of the caller ...
RevokeBegin(s, t) ==
  /\ up
  /\ Active(s)
  /\ revoking' = revoking \cup {t}
  /\ UNCHANGED <<status, publicKey, commits, edges, heads, up, request,
                 registered>>

\* Mutant of RevokeFinish: the row is inserted when it is absent.
RevokeAnyDevice(t) ==
  /\ up
  /\ t \in revoking
  /\ revoking' = revoking \ {t}
  /\ status' = [status EXCEPT ![t] = "revoked"]
  /\ UNCHANGED <<publicKey, commits, edges, heads, up, request, registered>>

\* ... and, in a later transaction, the update of the target's row, which
\* changes nothing when the row is absent or revoked already.
RevokeFinish(t) ==
  /\ up
  /\ t \in revoking
  /\ revoking' = revoking \ {t}
  /\ status' = IF Active(t) THEN [status EXCEPT ![t] = "revoked"] ELSE status
  /\ UNCHANGED <<publicKey, commits, edges, heads, up, request, registered>>

----------------------------------------------------------------------------
\* PutCommit.

Goto(w, step) == request' = [request EXCEPT ![w].step = step]

\* A request arrives on the session of a device that authenticated once; the
\* session outlives a revocation.
Submit(w, s, c) ==
  /\ up
  /\ request[w].step = "idle"
  /\ status[s] # "absent"
  /\ request' = [request EXCEPT ![w] = [step |-> "received", session |-> s,
                                        record |-> c, reply |-> {}]]
  /\ UNCHANGED <<status, publicKey, commits, edges, heads, up, revoking,
                 registered>>

\* One awaited check of a request: it moves on when the check succeeds and is
\* refused otherwise.
Check(w, from, to, holds) ==
  /\ up
  /\ request[w].step = from
  /\ Goto(w, IF holds THEN to ELSE "refused")
  /\ UNCHANGED <<status, publicKey, commits, edges, heads, up, revoking,
                 registered>>

\* Application::require_device.
RequireDevice(w) ==
  Check(w, "received", "authorized", Active(request[w].session))

\* Mutant of VerifySignature: the signature is not compared with the key.
VerifyDeviceOnly(w) ==
  Check(w, "authorized", "verified", Active(request[w].session))

\* The device row is read a second time, and the signature is verified with
\* the key of that read.
VerifySignature(w) ==
  Check(w, "authorized", "verified",
        /\ Active(request[w].session)
        /\ request[w].record.key = publicKey[request[w].session])

\* The first half of accept_commit, before the transaction.
CheckSession(w) ==
  Check(w, "verified", "checked",
        /\ Active(request[w].session)
        /\ request[w].record.device = request[w].session)

\* The tests of a commit that is not stored, in the transaction.
Acceptable(c) ==
  /\ Cardinality(commits) < MaxCommits
  /\ commits = {} <=> c.parents = {}
  /\ Follows(c.sequence, SequencesOf(c.device), 1)
  /\ c.parents \subseteq StoredIds

\* Mutant of HeadsWith: the parents remain heads.
HeadsWithParents(c) == heads \cup {c.id}

HeadsWith(c) == (heads \ c.parents) \cup {c.id}

\* Mutant of Insert: the device is not checked again in the transaction.
InsertUnchecked(w) ==
  LET c == request[w].record IN
  /\ up
  /\ request[w].step = "checked"
  /\ c.id \notin StoredIds
  /\ Acceptable(c)
  /\ Cardinality(HeadsWith(c)) <= MaxHeads
  /\ \E g \in 0 .. MaxCommits :
       /\ Follows(g, Generations(c.parents), 0)
       /\ commits' = commits \cup {[record |-> c, generation |-> g]}
  /\ edges' = edges \cup {<<c.id, p>> : p \in c.parents}
  /\ heads' = HeadsWith(c)
  /\ request' = [request EXCEPT ![w].step = "stored", ![w].reply = HeadsWith(c)]
  /\ UNCHANGED <<status, publicKey, up, revoking, registered>>

\* The transaction inserts a commit, its edges and the new head.
Insert(w) ==
  LET c == request[w].record IN
  /\ up
  /\ request[w].step = "checked"
  /\ Active(request[w].session)
  /\ c.id \notin StoredIds
  /\ Acceptable(c)
  /\ Cardinality(HeadsWith(c)) <= MaxHeads
  /\ \E g \in 0 .. MaxCommits :
       /\ Follows(g, Generations(c.parents), 0)
       /\ commits' = commits \cup {[record |-> c, generation |-> g]}
  /\ edges' = edges \cup {<<c.id, p>> : p \in c.parents}
  /\ heads' = HeadsWith(c)
  /\ request' = [request EXCEPT ![w].step = "stored", ![w].reply = HeadsWith(c)]
  /\ UNCHANGED <<status, publicKey, up, revoking, registered>>

\* Mutant of Replay: the identifier alone makes a duplicate.
ReplayById(w) ==
  /\ up
  /\ request[w].step = "checked"
  /\ Active(request[w].session)
  /\ request[w].record.id \in StoredIds
  /\ request' = [request EXCEPT ![w].step = "stored", ![w].reply = heads]
  /\ UNCHANGED <<status, publicKey, commits, edges, heads, up, revoking,
                 registered>>

\* The transaction finds the exact record and answers with the present heads.
Replay(w) ==
  /\ up
  /\ request[w].step = "checked"
  /\ Active(request[w].session)
  /\ request[w].record \in Stored
  /\ request' = [request EXCEPT ![w].step = "stored", ![w].reply = heads]
  /\ UNCHANGED <<status, publicKey, commits, edges, heads, up, revoking,
                 registered>>

\* Mutant of Refuse: the tests of a new commit come before the duplicate test.
RefuseFirst(w) ==
  LET c == request[w].record IN
  /\ up
  /\ request[w].step = "checked"
  /\ \/ ~Active(request[w].session)
     \/ c.id \in StoredIds /\ c \notin Stored
     \/ ~Acceptable(c) \/ Cardinality(HeadsWith(c)) > MaxHeads
  /\ Goto(w, "refused")
  /\ UNCHANGED <<status, publicKey, commits, edges, heads, up, revoking,
                 registered>>

\* The transaction rolls back: the device was revoked meanwhile, the stored
\* record has other signature bytes, the commit fails a test, or the new head
\* set exceeds its limit.
Refuse(w) ==
  LET c == request[w].record IN
  /\ up
  /\ request[w].step = "checked"
  /\ \/ ~Active(request[w].session)
     \/ c.id \in StoredIds /\ c \notin Stored
     \/ /\ c.id \notin StoredIds
        /\ ~Acceptable(c) \/ Cardinality(HeadsWith(c)) > MaxHeads
  /\ Goto(w, "refused")
  /\ UNCHANGED <<status, publicKey, commits, edges, heads, up, revoking,
                 registered>>

\* The response leaves, or is lost with its connection.
Answer(w) ==
  /\ up
  /\ request[w].step \in {"stored", "refused"}
  /\ request' = [request EXCEPT ![w] = Idle]
  /\ UNCHANGED <<status, publicKey, commits, edges, heads, up, revoking,
                 registered>>

\* The request timeout or a closed connection drops the handler's future at
\* an await.  A transaction handed to the blocking pool runs on.
Abandon(w) ==
  /\ up
  /\ request[w].step \in {"received", "authorized", "verified"}
  /\ request' = [request EXCEPT ![w] = Idle]
  /\ UNCHANGED <<status, publicKey, commits, edges, heads, up, revoking,
                 registered>>

----------------------------------------------------------------------------
\* The process.

\* The tables survive a crash, the requests do not.
Crash ==
  /\ up
  /\ up' = FALSE
  /\ request' = [w \in Workers |-> Idle]
  /\ revoking' = {}
  /\ UNCHANGED <<status, publicKey, commits, edges, heads, registered>>

\* Storage::initialize recomputes the head table from the edges.
Restart ==
  /\ ~up
  /\ up' = TRUE
  /\ heads' = Childless(StoredIds, edges)
  /\ UNCHANGED <<status, publicKey, commits, edges, request, revoking,
                 registered>>

----------------------------------------------------------------------------
Init ==
  /\ status = [d \in Devices |-> "absent"]
  /\ publicKey = [d \in Devices |-> NoKey]
  /\ commits = {}
  /\ edges = {}
  /\ heads = {}
  /\ up = FALSE
  /\ request = [w \in Workers |-> Idle]
  /\ revoking = {}
  /\ registered = {}

DeviceNext ==
  \/ \E i \in Identities : Register(i[1], i[2])
  \/ \E s, t \in Devices : RevokeBegin(s, t)
  \/ \E t \in Devices : RevokeFinish(t)

RequestNext ==
  \E w \in Workers :
    \/ \E s \in Devices, c \in Records : Submit(w, s, c)
    \/ RequireDevice(w)
    \/ VerifySignature(w)
    \/ CheckSession(w)
    \/ Insert(w)
    \/ Replay(w)
    \/ Refuse(w)
    \/ Answer(w)
    \/ Abandon(w)

Next == DeviceNext \/ RequestNext \/ Crash \/ Restart

Spec == Init /\ [][Next]_vars

----------------------------------------------------------------------------
(***************************************************************************)
(* Properties.                                                             *)
(***************************************************************************)

\* Every variable keeps its type, and a device has a key exactly if it has a
\* row: no revocation of an unknown device leaves one that is no key's.
TypeOK ==
  /\ status \in [Devices -> {"absent", "active", "revoked"}]
  /\ publicKey \in [Devices -> Keys \cup {NoKey}]
  /\ \A d \in Devices : status[d] = "absent" <=> publicKey[d] = NoKey
  /\ commits \subseteq Row
  /\ edges \subseteq Nat \X Nat
  /\ heads \subseteq Nat
  /\ up \in BOOLEAN
  /\ request \in [Workers -> Request]
  /\ revoking \subseteq Devices
  /\ registered \subseteq Identities

\* While the server runs, the incrementally maintained head table is what a
\* recomputation from the edges would give: no childless commit is missing
\* and no commit with a child is left, whatever order uploads raced in.
HeadsAreChildless == heads = Childless(StoredIds, edges)

\* The graph clients download is rooted and acyclic: the parents of a commit
\* are stored with smaller generations, one of them with the generation just
\* below, and exactly one commit, of generation 0, has no parent.
GraphWellFounded ==
  /\ \A row \in commits : \A p \in row.record.parents :
       \E parent \in commits :
         parent.record.id = p /\ parent.generation < row.generation
  /\ \A row \in commits :
       IF row.record.parents = {}
       THEN row.generation = 0
       ELSE \E parent \in commits :
              /\ parent.record.id \in row.record.parents
              /\ row.generation = parent.generation + 1
  /\ commits # {} =>
       \E root \in commits :
         \A row \in commits : row.record.parents = {} <=> row = root

\* The commits of a device are numbered 1, 2, 3, ... without a gap or a
\* repetition, although its requests race with each other, are retried and
\* survive restarts.
SequencesContiguous ==
  /\ \A row \in commits : \A n \in 1 .. row.record.sequence :
       n \in SequencesOf(row.record.device)
  /\ \A row, other \in commits :
       /\ row.record.device = other.record.device
       /\ row.record.sequence = other.record.sequence
       => row = other

\* The vault and its head table stay within the limits for which responses
\* are encoded, so that load_heads never fails on a stored graph.
WithinLimits ==
  /\ Cardinality(commits) <= MaxCommits
  /\ Cardinality(heads) <= MaxHeads

\* The graph of the tables is sound: its heads are exactly its ends, it is rooted and
\* acyclic, every device's commits are numbered without a gap, and responses that carry
\* it can be encoded, in whatever order uploads, retries and restarts came.
GraphIsSound ==
  HeadsAreChildless /\ GraphWellFounded /\ SequencesContiguous /\ WithinLimits

\* A stored commit was signed with a key its device has had registered, also
\* when registrations and revocations race with the checks of the request.
SignedByRegisteredKey ==
  \A row \in commits : <<row.record.device, row.record.key>> \in registered

\* A worker that is about to answer "stored" answers for a stored commit, and
\* the heads it answers with are stored too.
StoredRepliesAreTrue ==
  \A w \in Workers :
    request[w].step = "stored" =>
      /\ request[w].record \in Stored
      /\ request[w].reply \subseteq StoredIds

\* No step removes or rewrites a stored commit or one of its edges.
CommitsAreImmutable ==
  [][/\ commits \subseteq commits'
     /\ edges \subseteq edges'
     /\ \A row \in commits, new \in commits' :
          row.record.id = new.record.id => row = new]_vars

\* A commit enters the graph only while its device is active: a revocation
\* that lands after the checks of a request still stops it.
RevokedDeviceAddsNothing ==
  [][\A row \in commits' \ commits : Active(row.record.device)]_vars

\* The repair of the head table at startup changes nothing: no crash leaves
\* a table that needs it.
RepairChangesNothing == [][~up /\ up' => heads' = heads]_vars

\* An exact duplicate of a stored commit, sent by a device that is active when
\* the transaction runs, is never refused by it, whatever was stored since.
DuplicatesAreAccepted ==
  [][\A w \in Workers :
       /\ request[w].step = "checked"
       /\ request'[w].step = "refused"
       /\ Active(request[w].session)
       => request[w].record \notin Stored]_vars

\* The tables and their racing requests implement the abstract history: at
\* every moment the graph is one that atomic, authorized appends produce.
History == INSTANCE VaultHistory WITH
  authorized <- {d \in Devices : Active(d)},
  history <- Stored,
  frontier <- heads
ImplementsHistory == History!Spec
=============================================================================
