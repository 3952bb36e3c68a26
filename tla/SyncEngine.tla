----------------------------- MODULE SyncEngine -----------------------------
(***************************************************************************)
(* The second half of a synchronization (plugin/src/sync/reconcile.ts and  *)
(* engine.ts): the vault is compared with the records, the differences     *)
(* become pending operations, and a push publishes them as one commit.     *)
(*                                                                         *)
(* The upload of a ciphertext, a resumable protocol of its own, is part of *)
(* the step that prepares its operation: see ObjectStore.                  *)
(***************************************************************************)
EXTENDS SyncState, FiniteSetsExt

----------------------------------------------------------------------------
\* Reconciler.scan.

RecordAt(records, f) ==
  {o \in ActiveObjects(records) : records[o].path = f}

\* Files and records without a partner at their path.
NewFiles(records, files) == {f \in Existing(files) : RecordAt(records, f) = {}}
MissingObjects(records, files) ==
  {o \in ActiveObjects(records) : files[records[o].path] = None}

Modified(records, files) ==
  {o \in ActiveObjects(records) : files[records[o].path] \notin {None, records[o].hash}}

\* A missing record and a new file with the same content are one renamed
\* file, when there are no other candidates for that content.
Renames(records, files) ==
  {pair \in MissingObjects(records, files) \X NewFiles(records, files) :
     /\ records[pair[1]].hash = files[pair[2]]
     /\ \A o \in MissingObjects(records, files) :
          records[o].hash = files[pair[2]] => o = pair[1]
     /\ \A f \in NewFiles(records, files) :
          files[f] = files[pair[2]] => f = pair[2]}

Created(records, files) ==
  NewFiles(records, files) \ {pair[2] : pair \in Renames(records, files)}

Deleted(records, files) ==
  MissingObjects(records, files) \ {pair[1] : pair \in Renames(records, files)}

Operation(kind, path, revision, hash) ==
  [kind |-> kind, path |-> path, revision |-> revision, hash |-> hash]

\* The operations of a scan; created maps new objects to new files.
Scanned(s, files, created) ==
  LET r == s.records
      next(o) == r[o].revision + 1
      renamed == {pair[1] : pair \in Renames(r, files)}
      target(o) == (CHOOSE pair \in Renames(r, files) : pair[1] = o)[2]
      deleted == IF s.initialized THEN Deleted(r, files) ELSE {}
  IN
  [o \in Modified(r, files) \cup renamed \cup deleted \cup DOMAIN created |->
     CASE o \in DOMAIN created ->
            Operation("create", created[o], 1, files[created[o]])
       [] o \in Modified(r, files) ->
            Operation("modify", r[o].path, next(o), files[r[o].path])
       [] o \in renamed ->
            Operation("rename", target(o), next(o), files[target(o)])
       [] o \in deleted ->
            Operation("delete", r[o].path, next(o), None)]

\* mergeWithPending: the operations of earlier scans stay, unless the new one
\* has found an operation for the same object.
Merged(pending, scanned) ==
  [o \in DOMAIN pending \cup DOMAIN scanned |->
     IF o \in DOMAIN scanned THEN scanned[o] ELSE pending[o]]

\* Mutant of NextOfPush: a push goes on with nothing to publish.
NextOfPushAlways(d, pending) ==
  IF DOMAIN pending = {} THEN [Idle EXCEPT !.phase = "publishing"]
  ELSE [Idle EXCEPT !.phase = "preparing", !.todo = DOMAIN pending,
                    !.records = state[d].records]

\* How a push begins: with a commit that was prepared before, with nothing to
\* do, or with the preparation of every pending operation.
NextOfPush(d, pending) ==
  IF state[d].prepared # None THEN [Idle EXCEPT !.phase = "publishing"]
  ELSE IF DOMAIN pending = {} THEN Idle
  ELSE [Idle EXCEPT !.phase = "preparing", !.todo = DOMAIN pending,
                    !.records = state[d].records]

\* A new object with a random identifier for every new file.
Draws(files) ==
  {created \in UNION {[ids -> files] :
      ids \in {set \in SUBSET (Objects \ drawn) : Cardinality(set) = Cardinality(files)}} :
     IsInjective(created)}

\* SyncEngine.reconcile and the beginning of SyncEngine.push.
Reconcile(d) ==
  LET s == state[d] IN
  /\ run[d].phase = "pulled"
  /\ \E created \in Draws(Created(s.records, vault[d])) :
       LET scanned == Scanned(s, vault[d], created)
           pending == Merged(s.pending, scanned)
           prepared == IF s.prepared = None THEN None
                       ELSE [s.prepared EXCEPT !.completes = @ \ DOMAIN scanned]
       IN
       /\ state' = [state EXCEPT ![d] = [s EXCEPT !.pending = pending, !.prepared = prepared]]
       /\ Advance(d, NextOfPush(d, pending))
       /\ drawn' = drawn \cup DOMAIN created
  /\ UNCHANGED <<commits, vault>>

----------------------------------------------------------------------------
\* SyncEngine.push.

NextId(d) == <<d, state[d].sequence + 1>>

\* The blobs an operation reuses must be there, and the file must still be
\* what the scan saw.
Preparable(d, op, o) ==
  LET known == o \in DOMAIN run[d].records
      old == run[d].records[o]
  IN
  CASE op.kind = "create" -> vault[d][op.path] = op.hash
    [] op.kind = "modify" -> vault[d][op.path] = op.hash /\ known
    [] op.kind = "rename" -> vault[d][op.path] = op.hash /\ known /\ ~old.tombstone
    [] op.kind = "delete" -> known

\* The record an operation leads to: new blobs for a new path or content.
RecordOf(d, op, o) ==
  LET old == run[d].records[o] IN
  CASE op.kind = "delete" ->
         [old EXCEPT !.path = op.path, !.revision = op.revision, !.tombstone = TRUE]
    [] OTHER ->
         [path |-> op.path,
          name |-> IF op.kind = "modify" THEN old.name ELSE op.path,
          revision |-> op.revision, hash |-> op.hash, tombstone |-> FALSE,
          blobs |-> NextId(d)]

\* prepareOperation of the next operation in the order of the identifiers,
\* with the upload of its blobs.
Prepare(d) ==
  LET o == Min(run[d].todo)
      op == state[d].pending[o]
  IN
  /\ run[d].phase = "preparing"
  /\ run[d].todo # {}
  /\ IF Preparable(d, op, o)
     THEN /\ Advance(d, [run[d] EXCEPT !.todo = @ \ {o},
                                       !.records = Put(@, o, RecordOf(d, op, o))])
          /\ UNCHANGED <<commits, drawn, vault, state>>
     ELSE Throw(d)

\* The manifest is uploaded, the commit signed and made persistent.  Its
\* parents are the heads of the last pull or publication.
Sign(d) ==
  LET s == state[d]
      commit == [parents |-> s.heads,
                 past |-> {NextId(d)} \cup UNION {commits[id].past : id \in s.heads},
                 lamport |-> s.lamport + 1,
                 manifest |-> run[d].records]
  IN
  /\ run[d].phase = "preparing"
  /\ run[d].todo = {}
  /\ state' = [state EXCEPT ![d].prepared =
                 [id |-> NextId(d), commit |-> commit, completes |-> DOMAIN s.pending]]
  /\ Advance(d, [Idle EXCEPT !.phase = "publishing"])
  /\ UNCHANGED <<commits, drawn, vault>>

\* What put_commit of the server accepts: see CommitStore.
Acceptable(id, commit) ==
  \/ id \in DOMAIN commits /\ commits[id] = commit
  \/ /\ id \notin DOMAIN commits
     /\ commit.parents \subseteq DOMAIN commits
     /\ DOMAIN commits = {} <=> commit.parents = {}
     /\ \A n \in 1 .. (id[2] - 1) : <<id[1], n>> \in DOMAIN commits

\* remote.putCommit: the same bytes as at every earlier attempt.
PutCommit(d) ==
  LET prepared == state[d].prepared IN
  /\ run[d].phase = "publishing"
  /\ IF Acceptable(prepared.id, prepared.commit)
     THEN /\ commits' = Put(commits, prepared.id, prepared.commit)
          /\ Advance(d, [Idle EXCEPT !.phase = "accepted", !.heads = ServerHeads(commits')])
          /\ UNCHANGED <<drawn, vault, state>>
     ELSE Throw(d)

\* Mutant of PublishPrepared: the sequence number is not advanced.
PublishPreparedAgain(d) ==
  LET s == state[d] IN
  /\ run[d].phase = "accepted"
  /\ state' = [state EXCEPT ![d] =
       [s EXCEPT !.initialized = TRUE,
                 !.lamport = s.prepared.commit.lamport,
                 !.known = @ \cup {s.prepared.id},
                 !.heads = run[d].heads,
                 !.records = s.prepared.commit.manifest,
                 !.pending = Restrict(@, DOMAIN @ \ s.prepared.completes),
                 !.prepared = None]]
  /\ Advance(d, Idle)
  /\ UNCHANGED <<commits, drawn, vault>>

\* Mutant of PublishPrepared: the published operations stay pending.
PublishPreparedPending(d) ==
  LET s == state[d] IN
  /\ run[d].phase = "accepted"
  /\ state' = [state EXCEPT ![d] =
       [s EXCEPT !.initialized = TRUE,
                 !.sequence = s.prepared.id[2],
                 !.lamport = s.prepared.commit.lamport,
                 !.known = @ \cup {s.prepared.id},
                 !.heads = run[d].heads,
                 !.records = s.prepared.commit.manifest,
                 !.prepared = None]]
  /\ Advance(d, Idle)
  /\ UNCHANGED <<commits, drawn, vault>>

\* publishPrepared after the answer.  A state with a path twice is refused.
PublishPrepared(d) ==
  LET s == state[d] IN
  /\ run[d].phase = "accepted"
  /\ IF PathsUnique(s.prepared.commit.manifest)
     THEN /\ state' = [state EXCEPT ![d] =
               [s EXCEPT !.initialized = TRUE,
                         !.sequence = s.prepared.id[2],
                         !.lamport = s.prepared.commit.lamport,
                         !.known = @ \cup {s.prepared.id},
                         !.heads = run[d].heads,
                         !.records = s.prepared.commit.manifest,
                         !.pending = Restrict(@, DOMAIN @ \ s.prepared.completes),
                         !.prepared = None]]
          /\ Advance(d, Idle)
          /\ UNCHANGED <<commits, drawn, vault>>
     ELSE Throw(d)

PushStep(d) ==
  \/ Reconcile(d)
  \/ Prepare(d)
  \/ Sign(d)
  \/ PutCommit(d)
  \/ PublishPrepared(d)
=============================================================================
