# Learning Loop: a verification project in TLA+

Learning Loop synchronises an Obsidian vault between devices through a server
that stores only ciphertext. This directory holds TLA+ models of the parts of
the system that decide whether notes are lost, TLC configurations that check
them on small instances, and TLAPS proofs of the most important results.

Paths below are relative to the repository. `server` is
`crates/ll-server/src`, `plugin` is `plugin/src`.

## 1. The system

A device runs an Obsidian plugin (`plugin`) with a WASM core that encrypts,
signs and speaks the Noise protocol. It exchanges framed, encrypted requests
with a single server process (`server`), which keeps an SQLite database and two
directories of files. There is no push: a device learns of others by polling.

| Component | State | Operations | Interacts with |
|---|---|---|---|
| Commit store, device registry (`server/storage/version.rs`, `mod.rs`, `application.rs`) | tables devices, commits, commit_parents, heads | register, revoke, put_commit, repair_heads | requests of all devices, each a chain of awaited reads and one transaction |
| Change feed (`version.rs` changes, `plugin/sync/pull.ts`) | the client's known commits and trusted keys | changes, heads; pages of a pull | the commit store, between any two of its steps |
| Object store (`server/storage/blob.rs`) | tables uploads and blobs, files in uploads/ and objects/ | begin, append, commit, get | upload loop of `plugin/sync/engine.ts` |
| Sync engine (`plugin/sync/engine.ts`, `reconcile.ts`, `state.ts`, `cache.ts`) | records, pending operations, prepared commit, staged ciphertexts in IndexedDB | reconcile, push, publishPrepared, cleanup | the vault, the object and commit stores |
| Pull (`plugin/sync/pull.ts`, `merge.ts`, `paths.ts`) | the vault and the records | loadSnapshot, selectEntries, applyEntry, conflict copies, text merge | the change feed, the vault, the engine's state |
| Controller (`plugin/sync/controller.ts`, `echo.ts`) | timers, the running synchronisation, the echo window | events, debounce, two attempts, session set-up | all of the plugin |
| Session and transport (`server/state.rs`, `session.rs`, `http.rs`, `plugin/transport`, `crates/ll-client`) | sessions, phases, sequence numbers, the client's channel | handshake, envelope, cancellation, expiry; connect, exchange, close | every request passes through it |
| Rate limiter (`server/rate_limit.rs`) | per-address windows, failures and blocks | handshake, failure, success | the store of sessions, the session's authentication |
| Enrolment (`mod.rs` put_vault_key_envelope, `controller.ts` configure) | the vault key envelope, the settings of a client | found or join a vault, come back to it | sessions, the device registry |
| Server start (`server.rs`, `storage/mod.rs`, `crates/ll-crypto/src/identity.rs`) | two identity files, the storage key, metadata | initialize, listen | other processes on the same directory, crashes |
| Wire protocol (`crates/ll-protocol`, `ll-crypto/src/noise.rs`) | none | encode and decode messages, frames, records | both ends of every exchange |
| Version records (`crates/ll-versioning`, `ll-crypto/src/object.rs`, `vault.rs`) | none | manifests, commit bodies, signed commits, objects, wrapped keys | push and pull |
| Version graph (`crates/ll-versioning/src/graph.rs`) | an index of commits | insert, recovered heads, common ancestor, missing | its own tests only |
| Canonical paths and text (`crates/ll-canonical`, `plugin/sync/paths.ts`) | none | parse, collisions, suggestions, canonical text | scans, pulls |
| Learning service (`plugin/learning`) | properties of notes, overrides that wait for metadata | create, review, update | the vault |
| Others | | user interface, configuration, test kit | |

`PROJECT.json` lists every component with what is modelled of it, and every
hazard at its line of code.

### What makes it hard

* **Interleaving on the server.** A request awaits several database reads
  before its transaction; whatever it read may be stale by then. Handlers are
  dropped at any await when a connection closes or the two-minute timeout
  expires, while a closure given to the blocking pool runs to its end.
* **Crashes.** Files, directory entries and rows become durable at different
  moments. The client's state (IndexedDB), the vault's files and the server
  are three stores that no transaction spans.
* **Retries.** Every operation is retried after a lost answer, so each has to
  be idempotent: uploads by offset and hash, commits by their identifier.
* **Concurrent devices.** The history is a graph with several heads; each
  device merges what it finds and may be revoked at any moment.
* **Limits.** Commits, heads, parents, known commits, uploads and sessions are
  all bounded, some of these bounds in conflict with each other.
* **Encodings.** Identifiers and signatures are over bytes, so one meaning must
  have one encoding, and whatever steers a decryption must be authenticated.

### What correct means, per component

* Commit store: an append-only, rooted, acyclic graph; heads are its childless
  commits; numbers of a device without gaps; only active devices add to it; an
  exact duplicate is accepted.
* Change feed: what a device accepts is closed under parents, verified with a
  trusted key, complete when the pull ends, and eventually everything.
* Object store: a recorded object keeps its name for ever and, unless its upload lost a
  handler whose closure ran on, its content; what is acknowledged is durable with the same
  exception; a partial upload can always be finished.
* Sync engine: a number signs one commit, whatever was lost before; a manifest
  never loses a note without a tombstone; what was published is not pending.
* Pull: devices that stop editing converge; no content leaves a vault that is
  not kept in a copy or in the history; an unedited device ends with the files
  of the snapshot it pulled.
* Session: a stored session on which nothing is being done has answered what it counted;
  an answer has the number of its request; a request is admitted in its phase only.
* Enrolment: one key founds the vault; who keeps settings has that key and a
  registered device; every set-up ends if it is tried again.
* Rate limiter: failures are not forgotten while sessions last; one address does
  not fill the store; whoever knows the password gets in in the end.
* Server start: one identity and one vault are ever shown; a crash after that
  never leaves the server unable to start.
* Formats: what is written is read; a damaged record is never read as the one it
  was; what opens is what was sealed; the largest messages, but for the list of devices,
  fit every layer.
* Version graph: what the library computes from records alone is what the server's
  tables say, in any order with parents first.
* Paths and text: two paths clash exactly if they cannot both be created; every
  spelling is one path; canonical text keeps the lines.
* Controller (planned): an edit is eventually synchronised, although echoes of
  the plugin's own writes are ignored.

## 2. The modules

### CommitStore — the commit graph and the device registry

A `PutCommit` request passes `require_device` (`RequireDevice`), a second read
of the device row with the verification of the signature (`VerifySignature`),
the first check of `accept_commit` (`CheckSession`), and one immediate SQLite
transaction, which ends in `Insert`, `Replay` or `Refuse`; then it answers.
`Abandon` drops its handler at an await, `Crash` ends the process, and
`Restart` recomputes the heads as `repair_heads` does. `Register`,
`RevokeBegin` and `RevokeFinish` change the device table in between.

| Variable | Code |
|---|---|
| `status`, `publicKey` | `devices.revoked_at`, `devices.public_key` |
| `commits`, `edges`, `heads` | tables `commits`, `commit_parents`, `heads` |
| `request` | the local variables of `Application::put_commit` and `accept_commit` |
| `revoking` | `RevokeDevice` requests past `require_device` |
| `registered` | history variable: keys ever registered, never read by an action |

A record is an identifier, the unsigned fields and the key that signed it.
`RecordsAssumption` says that the identifier determines the unsigned fields (it
is their hash, recomputed by `verify_signed_commit`) and that the decoder bounds
the parents; it does not determine the signature, so that one commit may arrive
with two. `Refuse` stands for all errors of the transaction.

`VaultHistory` is the abstract specification: an atomic, append-only history
with a frontier. `ImplementsHistory` maps the tables to it.

### CommitFeed — how a device learns the graph

Extends CommitStore with the first half of `PullEngine.pullVerified`: the list
of active devices, pages of `Storage::changes` in (generation, identifier)
order, the checks of each row, `GetHeads`, and the saved state. The server goes
on between any two requests. `Interrupt` is any failure that leaves the state
as it was; `Publish` is the device's own accepted commit.

`CommitProofs` holds the proofs about the store, the feed and the library's graph.

What happens between `PullHeads` and `PullEnd`, the merge, is one step here: it
neither reads the server nor changes what is known.

### ObjectStore — resumable uploads

Every await and every effect on disk of `append_upload_chunk` and
`commit_upload` is an action. A file is a sequence of chunks; `file` is what a
reader sees and `disk` what a crash leaves for sure; `synced` and `renamed` are
the directory entries of objects/, before and after the last `fsync` of the
directory. `Crash` keeps any prefix of the unsynced renames and loses, keeps or
tears unsynced chunks. A `Task` is a request; `guarded` says that its handler,
and with it the upload's lock, lives. With `Cancellable` the handler may be
dropped while the closure runs on (`Drop`); an upload to which this has happened is in
the history variable `orphaned`, which no guard reads. The client is `uploadCiphertext`:
begin, append at the offset answered, commit. It may begin with any ciphertext at any
time, one that is confirmed already included, as the engine does after a failed push.

Assumed: `fsync` of a file makes its own directory entry durable, as the
journaling file systems of Linux do; hashes do not collide; upload identifiers
are not used twice while something refers to them, and are of finitely many, as
identifiers of sixteen bytes are.

`BlobsAreIntact` and `ReceivedIsDurable` leave out the uploads in `orphaned`, whose
files a closure without the lock may still write to: nothing holds of these but that
names and offsets are kept (`ConfirmedIsNamed`, `OffsetsAdvance`). `PublishedIsForGood`,
which leaves out nothing, fails (see section 3).

`BlobPromise` is the abstract specification: objects become readable for ever,
and only then are confirmed. `ImplementsPromise` maps the store to it, with an orphan's
object counted as readable once it is recorded; `ObjectStoreProofs` proves it.

### SyncState, SyncEngine, PullMerge, VaultSync — whole devices

`SyncState` declares what the devices and their server keep; `SyncEngine` and
`PullMerge` are the two halves of a synchronization, and `VaultSync` composes
them with the users who edit the vaults.

| Variable | Code |
|---|---|
| `vault` | the files of a device (`VaultPort`) |
| `state` | its `SyncState` in IndexedDB |
| `run` | the local variables of `runOnce`: the scan, the selected entries, what is left to do |
| `commits` | the server's accepted commits; its checks are those of CommitStore |
| `drawn` | the object identifiers drawn, which are random and so never repeat |
| `edits`, `interrupts` | counters of the bounds, read by nothing else but the contents of new edits |

A synchronization is `PullStart`, one `ApplyEntry` per object, `PullSave`,
`Reconcile`, one `Prepare` per operation, `Sign`, `PutCommit`,
`PublishPrepared`; each is an atomic effect on one of the three stores, and the
steps of different devices interleave. `Interrupt` may come between any two of
them: a lost answer, a timeout, a second attempt, a closed application. An entry takes
several writes to the vault, which the code awaits one by one; but for a user who edits
meanwhile (see below) nothing else reads or writes this vault, so they are one step
unless they are cut off. `ApplyInterrupted` cuts them off: it leaves the files of any
moment between two of them (`BetweenWrites`), copies of the entries that lost included,
and ends the synchronization.

What the data is reduced to:

* a file is its canonical content, which is its hash; a note has one line, so
  `mergeText` only chooses between sides that are equal or unchanged;
* a record carries the path it says and the name its encrypted path blob says,
  which the code lets differ, and in place of its blobs the commit that made
  them;
* the names of conflict copies are taken from a pool per device. A name is
  unused if no file, no record and no selected entry of the device has it and
  the scan has not seen it, so a long run may take one again that a timestamp
  would not repeat: more behaviours, not fewer. One resolution gives its copies
  names that differ. TLC stops with an error if the pool is ever too small;
* the Markdown record beside each conflict copy is a file like any other and is
  left out, as are unreadable files, folders and clashes of portable paths;
* the server's answers to one pull are taken at one moment (CommitFeed has them
  apart), uploads are part of `Prepare` (ObjectStore has them apart);
* commits are ordered by device and number where the code compares their
  hashes, objects by the numbers that stand for them: random in the code, so
  some order;
* users edit between the synchronizations of their device only. What an edit
  meanwhile does is described below, not checked.

`BeginningsAssumption` says that the vault that an author brings consists of finitely
many notes, each at a path of its own, as the files of a vault are;
`PreparedAssumption`, that the absence of a prepared commit is none. `VaultSyncTypes`
proves the types of all of this, `VaultSyncProofs` what the devices make of the history
and that a pull reaches its target, `VaultContentsProofs` that contents are not lost.

### SecureSession, Enrolment, VaultPromise — sessions and who sets up a vault

`SecureSession` is the server's half. A message that arrives finds its session
in the store and queues for its lock (`Arrive`), is refused out of sequence
(`Reject`), is counted and dispatched up to the first await (`Begin`), performed
in the database and answered (`Perform...`). Two steps because a handler may be
dropped in between (`Drop`): its guard removes the session, and the write it may
have handed to the blocking pool lands later (`Land`).

`Enrolment` adds the clients: `Connect`, the steps of `configure` (`Proceed`), and
the loop of a configured device, with one request at a time in flight, as the
plugin has it. A channel whose exchange fails is closed and never used again.

| Variable | Code |
|---|---|
| `stored` | the keys of `SessionStore` |
| `sessions` | the sessions themselves, which a handler may hold after the store has let go |
| `handlers` | requests that have looked up a session, in the order in which they get its lock |
| `detached` | database writes whose handler is gone |
| `devices`, `envelope` | table devices, `META_VAULT_KEY_ENVELOPE` |
| `net`, `answers`, `open` | messages in both directions and the channels that clients still have |
| `clients` | channel, progress of `configure`, settings |

Noise is an ideal cipher: a message is authentic, and its nonce is its number,
so a message that is lost, repeated or out of order does not decrypt and closes
the session. The code compares the sequence number once more, which then never
differs; both tests are `InSequence`. Handles and identifiers are random in the
code; here the smallest that nothing refers to is taken, which is a renaming. A
key has the number of the device that made it.

`VaultPromise` is the abstract specification: nobody has a key before the vault
is founded, the first key stays, and who holds a key holds that one for ever.
`EnrolmentProofs` proves it of the two modules.

### ServerStart, LoginLimits, ServerLife — a server from its first start on

`ServerStart` has one action per effect on the data directory: does a file
exist, read it, create it (`create_new`), fill and synchronise it; then the one
transaction on the database, and the listener. Several processes run it at once
and each may end anywhere. The storage key is created with the same three steps;
what it holds matters to nobody. The directory entry of a file is taken to be
durable with its content.

`LoginLimits` is the limiter and the store of sessions in time: `allow_handshake`
(retention, capacity, block, window, budget), failures and successes, expiry.
Times are kept as distances from now, each cut where the code no longer tells the
difference. `LimitsAssumption` states what the constants of the code satisfy and
the properties need; `PowersAssumption` is a fact of arithmetic, that powers of two
are numbers and grow, which the provers do not know.

`ServerLife` composes the two: a server is started, tried by several addresses,
ends and is started again, which forgets the limits and the sessions.
`ServerLifeProofs` has the proofs about all three.

### Cbor, WireProtocol, EncryptedObject, VersionRecords, Formats — what is written

A record is a sequence of CBOR tokens, a token a kind, a number, an optional
content and whether its form is the shortest. A schema is a sequence of fields;
`Write` and `Read` are the encoders and decoders that the code has field by field,
and `IsExact` its comparison of the decoded record's encoding with the input.

`WireProtocol` has the schema of every request and response, the version and suite
checks, and the sizes of the five layers a message passes. `EncryptedObject` has
objects and wrapped vault keys, `VersionRecords` manifests, commit bodies and
signed commits with all their checks. Encryption, hashes, key derivation and
signatures are terms: a byte string is known by the way it was made, and opens
only with the same key, nonce and associated data.

`Formats` takes samples of each shape, lets storage or a network damage them (a
token lost, repeated, changed, in a longer form, or taken from another record of
the format), and reads the result; it also runs the sizes, the calibration of the
key derivation, paths and texts through their operators. `FormatsProofs` has the proofs
about texts and sizes.

### VersionGraph, CommitIndex — the graph of the library

`VersionGraph` is `CommitGraph` of ll-versioning as operators. It is a library: nothing
but its own tests calls it, and the merges of the clients find their base with
`nearestCommonAncestor` of `pull.ts`, which is `BaseOf` of `PullMerge`.

`CommitIndex` sets the library beside the tables of CommitStore, over all that are
reachable. A part of the tables is a set of commits with their parents among them.
`IndexAgrees` says that inserting one more commit, in whatever order it comes, makes of
any part the next larger one, with its generation and with the heads that nobody's
parent is, and refuses what lacks a parent; and that what a part lacks, in the order of
`missing_from`, completes it. From one insertion to the next this covers every order in
which parents come first. `AncestorIsLatest` says what `common_ancestor` finds. A list
that the code sorts is `InOrder`: at each place stands the one member that so many
others precede.

### PortablePath — names of files and texts

A character is one of each kind that the code tells apart: letters in both cases,
composed and decomposed, one that folds to two, forbidden and control characters,
dot and space, and one that stands for a reserved device name.

The `MC` modules only give constants.

### Mutants

Definitions with a comment "Mutant of X" are faulty variants of X that no
specification uses: replacing X by one of them makes a property fail, which
shows that the property depends on that piece of the code. `PROJECT.json`
names the pair for every property.

## 3. What is checked

| Run | Instance | Shows |
|---|---|---|
| `CommitRace.cfg` | 2 devices, 3 registrable identities (one device with two keys), 6 records, 2 requests in flight, at most 3 commits and 2 heads; 577,323 states | races of checks, transactions, revocations, registrations, drops and crashes; implements VaultHistory |
| `CommitGraph.cfg` | 1 request at a time, 10 records, at most 6 commits and 2 heads; 57,226 states | the graph is sound (`GraphIsSound`) through forks, merges of two and three heads, gaps, children before parents, both limits; the library's graph agrees with the tables whichever commit comes next |
| `Feed.cfg` | CommitStore with 4 records and a puller, pages of 2, known limit 3; 585,813 states | safety and liveness of a pull against a growing graph |
| `ObjectSharing.cfg` | 2 devices with the same object, 2 requests, 2 uploads; 481,300 states | implements BlobPromise |
| `ObjectDropped.cfg` | 1 device, 2 chunks, droppable handlers, 3 uploads; 1,345,358 states | objects are whole and what is received durable through crashes and retries, orphans excepted; names and offsets are kept without exception |
| `ObjectLiveness.cfg` | 1 device with 1 upload slot, objects of 2 chunks and of 1, 3 uploads; 676,396 states | of two objects that are taken up again and again each is confirmed |
| `VaultSafety.cfg` | 2 devices, empty server or a shared note, 2 edits of any kind with paths and contents used again, 1 interruption, between steps or between two writes, 4 commits; 1,660,200 states | nothing is lost, numbers sign once, time follows history, no note is forgotten, an unedited device reaches its target |
| `VaultConverges.cfg` | an author (create, modify, move) and a reader (modify), 3 edits of fresh contents and names; 816,976 states | both end with the same files and nothing pending |
| `Session.cfg` | 2 clients that set up one vault, 3 handles, 2 stored sessions, 4 messages a session, 1 thing that goes wrong; 595,887 states | sessions stay in step; the vault is founded once; set-ups end |
| `ServerLife.cfg` | 2 processes with 2 passwords, 1 crash, 3 addresses for a table of 2, 2 handshakes a window, 4 attempts of others; 471,850 states | one identity and password; starts again; limits hold and let a patient client in |
| `Formats.cfg` | 2 samples of each message and 18 records of the six stored formats, one damage each, two where keys bind the parts; all paths of up to 4 and vaults of up to 5 characters, texts of up to 6; 466,742 states | encodings, envelopes, limits, paths and texts |

Properties that answer one question are checked as one: `GraphIsSound`,
`IndexAgrees`, `EncodingsAreExact`, `AcceptedIsWhatWasMade`, `ProducedIsAccepted`,
`PathsAreExact`, `SessionsAreInStep`, `ServedIsOne`, `LimitsHold` and
`StaysReachable` are conjunctions of named parts, each stated on its own.
`CommitsAreImmutable`, `RevokedDeviceAddsNothing` and `RepairChangesNothing` are
proved and appear in no run: `ImplementsHistory` implies the first two, and the
heads that a restart recomputes are those of `GraphIsSound`.

Two requests are the smallest number that race, and no property relates the
steps of more than two; two devices suffice for a signer that is not the
submitter and for a fork; three commits for a fork below a root or a merge of
two children with their root left out; the wider `CommitGraph` reaches merges of
merges. Two chunks are the smallest object in which a chunk is acknowledged
before the last. Three upload identifiers, where a device retries, let a finished
upload, a running one and an abandoned one exist together; in `ObjectSharing` each of
the two devices has one.

In the runs of whole devices two edits are enough for a fork of the history
(each device publishes one), and four commits for the merge of the fork to be
published and pulled. `VaultSafety` lets an edit take a path or a content that
another note has or had, which is where the code's guesses by hash and by path
can err. Three objects are the shared note and one from each user, or a
conflict copy. Synchronizations that never settle (see below) make the state
space infinite; `MaxCommits` ends them. In `VaultConverges` three edits let one
user edit again while the copies of the first conflict are on their way; no
path or content is used twice, four objects are as many as the run ever needs
and the bound of 20 commits is never reached, or the property would fail.

In `Session` three handles are the two sessions the store holds and one that is
still spoken of; five identities are what two clients use up when one attempt of
each fails. A set-up of a founder takes four messages, so that the fifth, the
first ping, meets the limit of the session. One thing that goes wrong (a loss, a
repetition, a dropped handler, a crash, an expiry, a revocation, a changed
address) already leaves detached writes, abandoned sessions and devices without a
vault; two at once exceed TLC's time.

In `ServerLife` a table of two addresses for three fills, two failures reach the
cap of the counter, and a delay outlasts a window. `LimitsAssumption` keeps the
relations of the real constants: (half an hour / a minute + 1) * 30 sessions of
one address are fewer than 1024, and neither a block nor a session outlives the
hour for which an address is remembered. Starting and serving share nothing, so
clients come when no other process is starting (`Serving`).

In `Formats` a damage at each token of each sample is what a decoder can react to;
pairs of damages are needed where two parts vouch for each other (nonce and
ciphertext, wrapped key and object). Numbers of 32 and 64 bits are sampled at
their least and greatest value, TLC's greatest integer standing for theirs. Sizes
are those around one, two and sixteen Noise records and around the transport's
limit. `ProducedIsAccepted` compares three pairs of limits, which its comment names; two
pairs that do not agree are in the list below. A text is compared with its canonical form
character by character, so that two texts have one canonical form exactly if they differ
in line ends or the mark only. Up to four characters make every segment that two of the
rules meet in.

The limits (`MaxCommits`, `MaxHeads`, `PageSize`, `MaxKnown`, `MaxActive`,
`MaxPerDevice`) are the code's constants made small enough to be reached.
Symmetry is used for workers, tasks, upload identifiers and devices, which are
only compared, and never in a run with a liveness property.

### Fairness

* A pull that can take a step takes one (`FairFeedSpec`): `SyncController`
  starts a pull every five minutes, and each of its awaits ends with an answer
  or a timeout. Nothing is assumed of the server's other clients, and
  `EventuallyKnowsAll` is conditional: the server is up, the device is active
  and no longer interrupted, no signer stays revoked and the graph has at most
  one commit more than the known commits a request may carry.
* Server tasks run until they answer and an upload loop goes on
  (`FairSpec` of ObjectStore): blocking closures have no await and locks are
  fair mutexes. Nothing makes a client begin an upload: `EventuallyConfirmed` is about a
  ciphertext that a device takes up again and again, once attempts are no longer cut
  off. The engine does so while the operation that staged it is pending; an operation
  that a new scan makes encrypts anew, and what it leaves behind keeps its slot.
* A device's synchronization goes on and is started again (`FairSpec` of
  VaultSync), as the five-minute timer of `plugin/main.ts` does. It is written
  out as "steps again and again, or is again and again blocked", which is weak
  fairness: `Blocked` is the negation of the step's enabling condition. Edits
  are bounded and so stop; the run has no interruptions.

* Sessions (`FairSpec` of Enrolment): what arrives is served and what the database
  began it ends, because the runtime polls every task; sessions that nobody uses
  expire. A client answers, notices a failed call, connects and pings again and
  again: not by a timer of its own, but because every event of the vault and every
  command of the user starts `syncNow` or `configure` once more. Nothing is
  assumed of losses; they are bounded.
* Server life (`FairSpec` of ServerLife): a process that has begun goes on, time
  passes, the client that knows the password keeps knocking (`WF`). Strong
  fairness is assumed of two decisions outside the code: an administrator starts
  the server again with the password of its first start, and the patient client
  uses a session it gets, although each may expire first.
  `Formats` and the runs of the commit store state safety only.

`CHECK_DEADLOCK FALSE` is set where the system may stop: bounded numbers of edits,
commits, faults or characters are used up, and every client is done.

### A disagreement between the code and what the repository says of it

`ObjectOrphanPublished.cfg` is a run that TLC must find violated: an append whose
handler was dropped runs on without its lock and truncates the file after a retry
has published it as an object. (Before the publication it truncates the file below
the offset that the retry has recorded, and every later append of that upload
fails.)

Met while modelling, and not given a run:

* commits of a revoked device are refused by every pull that has not seen them
  before (`pull.ts:123`), so a new device never recovers the graph, which ADR
  0004 (`0004-encrypted-commit-dag.md:33`) says it does. `EventuallyKnowsAll`
  therefore assumes that no signer stays revoked;
* a device sends all commits it knows with every page and the server refuses more
  than 2048 (`version.rs:190`), far below the number a vault may hold;
  `EventuallyKnowsAll` assumes no larger graph;
* `locateLocal` looks for the file of a deleted note too (`pull.ts:682`): a device
  that remembers the deletion takes the only file with that content for it,
  removes it and writes a conflict copy. `TargetIsReached` is what remains true:
  without remembered deletions, and when no path passes from one note to another
  in one pull, an unedited device ends with the files of the snapshot;
* the protocol says that the signature is verified within the transaction that
  inserts the commit (`protocol/protocol.md:183`); it is verified before, with
  a key that a new registration may have replaced. `RevokedDeviceAddsNothing`
  (proved) shows that the transaction's own check is enough against revocation, and
  `SignedByRegisteredKey` that the key was at least a registered one;
* the protocol says that a duplicate of a commit gets the original result, but a
  replay is answered with the heads of the moment (`version.rs:80`);
* after a push that fails behind a scan with a new note, the next scan draws a
  second identifier for it; both creates stay pending (`reconcile.ts:190`), the
  path is assigned twice and every later update of the state throws;
* a new note that is edited or deleted between scan and push leaves a create
  that no push can carry out (`engine.ts:278`);
* two devices that both begin from an empty server prepare two first commits;
  the second is refused for ever and never replaced (`engine.ts:122`);
* two notes created at one path make the pulls of all devices throw
  (`pull.ts:607`), where `docs/synchronization.md:81` promises a copy;
* a note created again where one was deleted, with the same content, is removed
  by the next pull (`pull.ts:294`);
* a chain of renames pulled at once (q to r, then p to q) moves the first
  note's file by the second rename, since the scan is not kept up to date
  (`pull.ts:191`), and the first note is then published as deleted;
* with deletions, or with renames on both devices, three edits can leave two
  devices exchanging conflict copies and renames for ever;
* an interrupted pull leaves files without records, which become copies or
  bring deleted notes back;
* an edit while a pull is applied may be overwritten without a copy;
* the protocol says that a session is discarded after any record failure; a request
  that already waited for its lock is still served (`state.rs:161`), and its answer,
  if another was cut off before it, carries another number than its client expects,
  which refuses it. `AnswersInOrder` so speaks of stored sessions;
* set-ups that fail after registration, and the loser of two first set-ups, leave
  devices behind that nobody uses and the list of devices shows;
* the list of devices is the one response without a limit where it is made; the
  decoder refuses more than 1024 (`codec.rs:541`);
* the first start of all, cut off between the creation and the content of a key
  file, leaves a directory on which every later start fails (`identity.rs:109`);
* a commit body may have 256 KiB (`manifest.rs`), but so may its encrypted form
  (`commit.rs:162`): one of some 2,900 creations is encoded and then refused;
* an object of 512 MiB is sealed (`object.rs:101`), but its envelope is longer than the
  server takes (`limits.rs:16`);
* partial uploads never expire (`blob.rs:77`): contents that a device encrypts anew leave
  their slots taken, of which it has 32;
* the back-off of 256 seconds is never reached, as the counter stops at a delay of
  128 (`rate_limit.rs:64`); a block keeps out handshakes only, and sessions opened
  before it may still try;
* a suggested name that is cut to its limit may end in a dot or a space, which is
  invalid (`path.rs:231`); `SuggestionsAreAccepted` leaves the cut out;
* canonical text is not idempotent for a text that begins with two byte order marks
  (`content.rs:21`), which `tests/properties.rs:6` says of all texts;
* `portablePathConflictGroups` loses members of a group when a repeated name comes
  after its descendants (`paths.ts:30`); what it keeps is still creatable.

## 4. What is proved

`CommitProofs` proves, for every set of devices, keys, records and workers and for
all limits, that CommitStore satisfies

* its invariants `TypeOK`, `GraphIsSound` (`HeadsAreChildless`,
  `GraphWellFounded`, `SequencesContiguous`, `WithinLimits`),
  `SignedByRegisteredKey`, `StoredRepliesAreTrue`;
* its action properties `CommitsAreImmutable`, `RevokedDeviceAddsNothing`,
  `DuplicatesAreAccepted`, `RepairChangesNothing`;
* the refinement `ImplementsHistory`;
* of the library's graph over its tables, `IndexAgrees` and `AncestorIsLatest`, and
  `GraphInEveryOrder`: whatever list of stored commits has parents first, inserting it
  from nothing gives the parents, generations and heads of that part of the tables;

and, for every set of pulling devices and every page size too, that CommitFeed satisfies
`FeedTypeOK`, `KnownIsClosed`, `ParentsBeforeChildren`, `OnlyTrustedCommits` and
`AcceptedHeadsMeanComplete`.

`ObjectStoreProofs` proves, for every set of devices, ciphertexts, sizes, requests
and uploads, and whether handlers are dropped or not, `TypeOK`, `ConfirmedIsNamed`,
`OffsetsAdvance`, `ReceivedIsDurable`, `BlobsAreIntact` and the refinement
`ImplementsPromise`. The exception that the last three make of orphaned uploads is
needed: `ObjectOrphanPublished` shows what happens without it. Whatever loses no handler
in the middle is covered beside orphans that share its object, its device and its
directory.

`EnrolmentProofs` proves, for every number of clients, sessions and faults,
`SessionsAreInStep`, `ConfiguredIsRegistered` and the refinement `VaultIsFoundedOnce`.
`ServerLifeProofs` proves `ServedIsOne` and `DirectoryIsForGood` for every set of
processes and passwords, and `LimitsHold` and `FailuresKeepTheBlock` for every set of
addresses and all limits that stand to one another as `LimitsAssumption` says.

`VaultSyncTypes` and `VaultSyncProofs` prove, for every set of devices, files, contents
and objects and any number of edits and interruptions, `SyncTypeOK`,
`NumbersAreUsedOnce`, `TimeFollowsHistory`, `NoObjectIsForgotten` and `TargetIsReached`.
`VaultContentsProofs` proves `NothingIsLost` under the hypothesis that every device has
infinitely many names for conflict copies. That is what the code has: `preserveBytes`
makes a name of the time and the device, and `uniquePath` counts on (" 2", " 3", ...)
until no file has it. TLC's runs have a pool of names for each device instead, and
would stop in a state in which it is used up; none is.

`FormatsProofs` proves `CanonicalTextKeepsLines` for texts of every length, and
`WhatIsEncryptedArrives`, a part of `ProducedIsAccepted`, for messages of every size.

None of these needs fairness. The proofs use only the assumptions that the modules
state of their constants, which TLC evaluates in every run of the module:
`RecordsAssumption`, `IdentitiesAssumption` and `BoundsAssumption` of CommitStore and
CommitFeed; `SizeAssumption`, `UploadsAssumption` and `RowsAssumption` of ObjectStore;
`SessionAssumption`; `StartAssumption`, `LimitsAssumption` and `PowersAssumption`;
`IdentifiersAssumption`, `NamesAssumption`, `PreparedAssumption`,
`BeginningsAssumption` and `EditsAssumption` of whole devices; `SizesAssumption` of
Formats. The theorem modules of
the library on finite sets, functions, sequences and well-founded relations are the
only facts taken from elsewhere.

### Commits and their feed

The inductive invariant `IInv` adds to the properties themselves what they do
not say but depend on:

* `IdsUnique` and `EdgesMatch`: identifiers are primary keys and the edge table
  holds the parents of the stored commits and nothing else. Without it the
  head repair, which reads the edges, could not be compared with the
  incremental heads, which use the record's parents.
* `RequestInv`: what a request has established when it reaches a step: a
  verified request has a key that was registered, a checked one a record of its
  own session's device. This carries the reads before the transaction into it.
* `KeysRegistered`: the key of an active device is in the history, so the
  comparison in `VerifySignature` yields `RequestInv`.

The only hard step is `InsertGraphInv`. A new commit is childless because its
identifier is no stored one and so, by `GraphWellFounded`, no parent; its
parents stop being heads and no other commit does; its generation exceeds those
of its parents by `Follows`; it continues its device's numbers. The action
properties follow from `AddedRows`, which says what any step may add to the
graph. For the refinement, `FrontierIsChildless` identifies the abstract
frontier with the childless commits, `InsertAppends` shows that an insertion is
an abstract `Append`, and `StepRefines` sends every other step to an
authorization, a revocation or a stutter.

For the feed, `FeedInv` is `IInv`, the properties themselves and
`GenerationsBounded`. `NewRows` says that the server only adds commits with new
identifiers, so that what is closed stays closed (`ClosedForGood`) whatever happens
between two pages. `PagesAreOrdered` is the heart: a parent that the client does
not know has a smaller generation than its child, so the order of pages puts it
before the child, on the page or on an earlier one, in which case it is known.
`HeadsReachAll` gives completeness: were a commit missing from a closed set that
holds every head, then of the missing commits one has the greatest generation
(by the well-foundedness of the natural numbers, since generations are bounded);
it is no head, so it has a child, which is missing too and has a greater one.

### The graph of the library

`GraphIsSound` makes the tables a graph with one root whose generations count from it
(`TablesAreWhole`); everything else follows from that. `Ancestors` collects level after
level as often as there are commits: a level that is not empty has a commit of its own
(`AncestorsFacts`), so this is often enough. The order of `missing_from`, by generation
and then by identifier, is a strict order in which parents come first, so the place of a
commit is the number of those before it (`OrderedFacts`). A part of the graph that is
closed under parents has the root, its own heads and the tables' generations
(`PartFacts`, `RootsAreFirst`); any commit that has its parents there extends such a part
to another (`PartGrows`), and any other, or a repeated one, leaves it as it is
(`PartTakes`). So a list that has parents first leads from any part to the part with its
commits too (`PartsInOrder`): from nothing in every order, which is
`EveryOrderGivesTheGraph`, and to the tables in the order of `missing_from`
(`RestIsIndexed`). The common ancestor has the greatest generation of those shared, so
none that is shared is behind it.

### The object store

`StoreInv` holds whatever is dropped. It says of clients and requests that the one
answer a client waits for comes from one request of its own (`LoopInv`), of rows that
requests and clients speak of the ciphertext of their upload (`RowInv`), and of names
how far a commit has come: renamed, placed, recorded, confirmed (`NameInv`), each
resting on the one before, through any crash.

`LockedInv` adds what the lock of an upload gives to those that are not orphaned: one
request works on such an upload (`LockInv`); a file is a part or has one place among the
objects (`PlaceInv`), so that no append writes to a published object; what an append
or a commit has established when it reaches a step (`WorkInv`); published files are
whole and synchronised (`NamedAreWhole`) and the rest has no gap in what its row counts
(`ReceivedIsSound`). Dropped handlers do not disturb this: a request writes to the file
of its own upload only (`WorkElsewhere`), a request whose handler is gone works on an
orphan, and an upload is an orphan until nothing refers to it and its identifier is
given away again (`OrphansStay`). A commit may find the object already there and confirm
a file of another upload, an orphan's even; `Readable` is therefore about the file, and
not about the upload that is confirmed.

For the refinement a blob is recorded by an abstract `Publish` and confirmed by the
answer to its commit; all other steps stutter.

### Sessions and enrolment

`EnrolmentInv` has three parts. `TypeInv`: handlers, answers and channels belong to
sessions that exist, and a channel to one client. `CountInv`: on a session that is
still stored, the server has answered all it has counted but for a request that it has
begun, and answers are in order; a handler that is dropped takes its session with it,
so the gap it leaves is never met. `VaultInv`: what a request, a detached write and an
answer on their way stand for, and what each phase of `configure` has earned. It is
needed because a founder whose envelope comes second learns so only from the answer,
and because a client configures itself from answers alone: an answer says what the
database still says when it arrives, since no envelope is ever replaced and no device
ever becomes absent again. `SessionsAreInStep` follows from the first two parts,
`ConfiguredIsRegistered` and `VaultIsFoundedOnce` from the first and the third.

### A server's start and its limiter

`StartInv` says what a process has found or made of the files when it reaches a step
(`FilesFound`), that a file is written by the one process whose `create_new` succeeded
(`OneWriter`), and that whoever is ready has the vault and the password of the
directory (`ReadyAgrees`). A process that ends in the middle of a file leaves it torn,
and no later start passes it, so what is served is what was served before.

`LimiterInv` bounds a block by the delay of its failures and keeps the block and the
age of its entry within the retention, so that an entry is not dropped, nor its block
shortened by the delay of a later failure, while it lasts.

For `LimitsHold`, `Counted` relates the sessions of an address to its entry: if there are,
from a live session on, as many more than this window has counted as n windows allow, then
that session is older than this window by n windows. As a session lives only for a number
of windows whose handshakes do not fill the store, one address does not fill it. An
address is forgotten only when none of its sessions is live, because it was seen when each
of them was opened and the retention is longer than a session; so whoever may still fail is
remembered.

### Whole devices

`SyncInv` is more than types. A device knows and heads only accepted commits
(`RefersTo`); what `run` holds belongs to its phase (`PhaseOK`); records, operations and
entries name drawn objects only (`NamesOnly`); and times and numbers of the finitely
many accepted commits have a bound (`GraphOK`). The bound is what makes the choices of
the code choices: `Least` and `Greatest` are CHOOSE, and `selectEntries` and
`nearestCommonAncestor` take the entry or the ancestor with the highest time, then the
highest commit. `HighestExists`, `WinnerIsOne` and `SelectionType` show that there is
one, by the well-foundedness of the natural numbers.

`HistoryInv` adds two parts. `Numbers`: a commit of a device has a number that the device
has used, or the next one, and then it is the commit that the device has prepared;
therefore an answer that is lost, a scan and a restart all lead to the same commit again.
`Covered`: from the pull to the signature, the records of a device name every object that
its heads name and its time is not before theirs, and the same holds of a prepared commit
and its parents, however long it waits. Only `PutCommit` adds to the graph, and what it
adds is a prepared commit (`PutCommitKeepsHistory`); all other steps leave the graph
alone and change one device (`HistoryOneDevice`).

`ContentInv` says why what a synchronization writes over is safe. `Kept`: the contents of
a device's records and of the entries that it has selected are published, those of the
tombstones that it prepares too, and so are they when the commit is prepared and not yet
accepted. `Follows`: where the scan saw a file there is, while entries are applied, what
the scan saw, nothing, or something published, so that a file may be judged by the scan
that is no longer up to date. Where the scan saw nothing a file that is there now is a
copy, or was put there by an entry, and no entry writes over it. Then each way of
applying an entry is shown to take nothing away (`Saves`): `MoveSaves` for a file that
makes way for another, whose own content has to have been published or copied before
(`Spare`), `TombstoneSaves`, `CreationSaves`, `ChangesSaves`, and `CopiesSave` for the
copies of all entries that lost at once, which needs as many unused names as there are
entries (`NamesForAll`). What is there between two writes takes nothing away either
(`BetweenWritesSave`): each of them is reached by copies first, then by moves of what has
been copied (`RenameSaves`). The files, the commits and the drawn objects stay finitely many,
so endless names are never all in use (`CopiesAreFresh`). Commits only join the graph, so
what is published stays so (`PublishedGrows`), and a tombstone keeps the content of the
record that it takes the place of (`PrepareKeepsContents`).

`TargetInv` says where a pull into an unedited vault stands: its files are those of
`Halfway`, the records of the objects that are left and the selected entries of the
others. It needs that records, and the entries of one head, have paths of their own, and
that a single head names every object that any commit names: the latest commit that names
an object and whose children do not has no child, so it is the head. Then no entry loses
to another, none has a copy to make, and applying one exchanges one file of `Halfway`.

### Texts and records

`canonicalize_text` and the sizes of records are folds of the library, which are
recursive functions on sets of places. `FoldsExist` shows that they are defined for every
number of items, and `FoldedFacts` that they take one item after the other; both are
about any of the three folds. `IsWritten` is then the invariant over the characters of a
text: every character but a line feed after a carriage return has a place of its own in
what is written, in the order of the text, and stands there as itself or as the line feed
that it becomes; and what is written begins with a byte order mark exactly if the text
does after its first (`CanonicalIsKept`, `MarkIsRemoved`). `Remainder` and
`RecordsCarryTheMessage` do the arithmetic of records.

Induction over numbers is done by the least counterexample, from the well-foundedness of
the natural numbers (`LeastNumber`, `NoneIsLeast`): the library's induction theorems take
an operator as a parameter, which the provers used cannot instantiate. Liveness under
fairness and ENABLED are beyond these provers and stay with TLC.

## 5. What is only model-checked, and what is not modelled

Only model-checked, on the instances of section 3:

* liveness: `EventuallyKnowsAll` of the feed, `EventuallyConfirmed` of uploads,
  `SynchronisesAtLast` and `EventuallyTheSame` of sessions and devices,
  `StaysReachable` of the server;
* encodings, envelopes and signed records (`EncodingsAreExact`, `AcceptedIsWhatWasMade`):
  they are about samples of each of some sixty shapes and every way of damaging one, which
  is a matter of evaluation and not of induction;
* `LargestMessagesFit` and `CalibratedKeyUnlocks` of `ProducedIsAccepted`: values of
  constants, which TLC computes;
* `PathsAreExact`: a path is folded, composed and compared by several recursions over its
  characters and over the list of paths; no invariant of theirs is stated yet.

Not modelled, and why:

* the learning service: it depends on when Obsidian's metadata cache reports a
  change, which the repository does not contain;
* user interface, settings, Obsidian's interface: input and output;
* the parsing of configuration and command line, release scripts, test kit: no
  concurrent or persistent state of their own;
* the tables of Unicode, CBOR at the level of bytes, and the inside of ciphers,
  hashes and signatures: external to the repository, taken as ideal functions;
* the Noise handshake as messages, and password proofs: steps that succeed or fail;
* `get_blob`, `get_commit`, lists, statistics and logging: they change nothing;
* SQLite's busy errors when two processes start at once: an error ends a start,
  which a crash at that step does too.

The staging of ciphertexts, the line-by-line text merge, and the timers and echoes
of the controller are planned.

## 6. Plan

In order of what a user could lose:

1. **CommitStore, VaultHistory**, **VersionGraph**, **CommitIndex** — done, all proved.
2. **CommitFeed** — done, its safety proved.
3. **ObjectStore, BlobPromise** — done, its safety proved.
4. **SyncEngine**, **PullMerge**, **VaultSync** — done for one-line notes and
   edits between synchronizations, its safety proved. Next: edits during a
   synchronization, the staging of ciphertexts.
5. **SecureSession, Enrolment, VaultPromise** and **ServerStart, LoginLimits,
   ServerLife** — done, their safety proved.
6. **Cbor, WireProtocol, EncryptedObject, VersionRecords, PortablePath, Formats** —
   done; texts and sizes proved. Next: an invariant of the composition of paths, for
   `PathsAreExact`.
7. **Controller**: debounce, single flight, second attempt, echo window; then
   `mergeText` against a reference definition over bounded inputs.
8. **LearningService**: pending property updates and metadata events; the
   review schedule.
