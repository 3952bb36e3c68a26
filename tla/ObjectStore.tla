----------------------------- MODULE ObjectStore -----------------------------
(***************************************************************************)
(* Resumable uploads of encrypted objects: the upload and object tables,   *)
(* the uploads/ and objects/ directories and the blocking tasks of         *)
(* crates/ll-server storage/blob.rs, driven by the retrying upload loop of *)
(* plugin/src/sync/engine.ts (uploadCiphertext).                           *)
(*                                                                         *)
(* A file is a sequence of chunks.  What was written and what a crash is   *)
(* sure to leave are kept apart, for file contents and for the renames in  *)
(* objects/.  fsync of a file is taken to make its own directory entry     *)
(* durable, as the journaling file systems of Linux do.                    *)
(***************************************************************************)
EXTENDS Naturals, Sequences, FiniteSets

CONSTANTS
  Devices,      \* the devices that upload
  Blobs,        \* the ciphertexts, named by their hash
  Size,         \* the number of chunks of each ciphertext
  Chunks,       \* what a device may send as a chunk: "good" or "bad"
  Uploads,      \* upload identifiers
  None,         \* no upload, no blob, no row, no directory entry
  Tasks,        \* requests that can be in flight together
  MaxActive,    \* MAX_ACTIVE_UPLOADS
  MaxPerDevice, \* MAX_ACTIVE_UPLOADS_PER_DEVICE
  Cancellable   \* whether a handler may be dropped while it serves a request

ASSUME SizeAssumption == Size \in [Blobs -> Nat \ {0}]

ASSUME UploadsAssumption ==
  /\ IsFiniteSet(Uploads)
  /\ None \notin Uploads \cup Blobs
  /\ Chunks \subseteq {"good", "bad"}
  /\ MaxActive \in Nat
  /\ MaxPerDevice \in Nat
  /\ Cancellable \in BOOLEAN

UploadRow == [device : Devices, blob : Blobs, received : Nat]

ASSUME RowsAssumption == None \notin UploadRow

VARIABLES
  active,    \* the devices that are registered and not revoked
  uploads,   \* table uploads
  blobs,     \* table blobs
  parts,     \* the entries of uploads/
  synced,    \* the entries of objects/ that survive a crash
  renamed,   \* per blob, the files renamed to it since
  file,      \* the content of each file
  disk,      \* the part of it that was synced
  task,      \* the request each task serves
  client,    \* the upload loop of each device
  confirmed, \* history: the <<device, blob>> pairs answered with a blob id
  orphaned   \* history: the uploads with a handler that was dropped while its closure ran

storeVars == <<uploads, blobs, parts, synced, renamed, file, disk>>
vars == <<active, storeVars, task, client, confirmed, orphaned>>

Bytes == {"good", "bad", "hole"}

Steps == {"idle", "queued", "started", "loaded", "open", "trimmed",
          "written", "synced", "verified", "renamed", "placed", "recorded"}

\* guarded: the handler's future, which holds the lock of the upload, lives.
\* awaited: the client still waits for the response.
Task == [step : Steps, op : {"append", "commit"}, device : Devices,
         upload : Uploads, blob : Blobs, offset : Nat, chunk : Chunks, guarded : BOOLEAN,
         awaited : BOOLEAN]
IdleTask == [step |-> "idle", upload |-> None]

\* gaveUp: an attempt of the loop was cut off and its caller has not retried.
Client == [phase : {"idle", "gaveUp", "ready", "waiting"},
           upload : Uploads \cup {None}, blob : Blobs \cup {None}, offset : Nat]
Resting(phase) == [phase |-> phase, upload |-> None, blob |-> None, offset |-> 0]

----------------------------------------------------------------------------
\* Files and directories.

\* The file that objects/ names b, if any.
Object(b) == IF renamed[b] = <<>> THEN synced[b] ELSE renamed[b][Len(renamed[b])]

\* seek(at) and write_all of one chunk; a gap reads as zeros.
WriteAt(s, at, chunk) ==
  [i \in 1 .. (IF Len(s) > at THEN Len(s) ELSE at + 1) |->
     IF i = at + 1 THEN chunk ELSE IF i \in DOMAIN s THEN s[i] ELSE "hole"]

Truncated(s, length) == SubSeq(s, 1, length)

\* verify_file: the length and the BLAKE3 hash are those of b.
Verifies(s, b) == s = [i \in 1 .. Size[b] |-> "good"]

\* Unsynced chunks may all be there after a crash, or not, or be torn.
AfterCrash(u) ==
  {disk[u], file[u],
   [i \in DOMAIN file[u] |->
      IF i \in DOMAIN disk[u] THEN disk[u][i] ELSE "hole"]}

----------------------------------------------------------------------------
\* Upload rows.

Live == {u \in Uploads : uploads[u] # None}
UploadsOf(d) == {u \in Live : uploads[u].device = d}
Matching(d, b) == {u \in UploadsOf(d) : uploads[u].blob = b}

\* A random identifier collides with no row, object or request.  Part files
\* without a row, which crashes leave and nothing ever reads or removes, do not
\* keep their identifier from standing for a new one.
Unused ==
  {u \in Uploads \ Live :
     /\ \A b \in Blobs : u # synced[b] /\ \A i \in DOMAIN renamed[b] : u # renamed[b][i]
     /\ \A t \in Tasks : task[t].upload # u
     /\ \A d \in Devices : client[d].upload # u}

SlotsLeft(d) ==
  /\ Cardinality(Live) < MaxActive
  /\ Cardinality(UploadsOf(d)) < MaxPerDevice

----------------------------------------------------------------------------
\* The client's loop.

Rests(d) == client[d].phase \in {"idle", "gaveUp"}

Allocated(d, b, u, offset) ==
  client' = [client EXCEPT ![d] =
               [phase |-> "ready", upload |-> u, blob |-> b, offset |-> offset]]

\* BeginUpload finds the row of an earlier attempt and answers its offset.
Resume(d, b, u) ==
  /\ d \in active
  /\ Rests(d)
  /\ u \in Matching(d, b)
  /\ Allocated(d, b, u, uploads[u].received)
  /\ UNCHANGED <<active, storeVars, task, confirmed, orphaned>>

\* BeginUpload creates an empty, synced file and inserts a row.
Allocate(d, b, u) ==
  /\ d \in active
  /\ Rests(d)
  /\ Matching(d, b) = {}
  /\ SlotsLeft(d)
  /\ u \in Unused
  /\ uploads' = [uploads EXCEPT ![u] = [device |-> d, blob |-> b, received |-> 0]]
  /\ parts' = parts \cup {u}
  /\ file' = [file EXCEPT ![u] = <<>>]
  /\ disk' = [disk EXCEPT ![u] = <<>>]
  /\ Allocated(d, b, u, 0)
  /\ orphaned' = orphaned \ {u}
  /\ UNCHANGED <<active, blobs, synced, renamed, task, confirmed>>

\* The loop sends the next chunk, or the commit after the last one.  The
\* request passes require_active_device and waits for the upload's lock.
Send(d, t) ==
  /\ d \in active
  /\ client[d].phase = "ready"
  /\ task[t].step = "idle"
  /\ \E chunk \in Chunks :
       task' = [task EXCEPT ![t] =
         [step |-> "queued", device |-> d, upload |-> client[d].upload,
          blob |-> client[d].blob,
          op |-> IF client[d].offset < Size[client[d].blob] THEN "append" ELSE "commit",
          offset |-> client[d].offset, chunk |-> chunk, guarded |-> TRUE,
          awaited |-> TRUE]]
  /\ client' = [client EXCEPT ![d].phase = "waiting"]
  /\ UNCHANGED <<active, storeVars, confirmed, orphaned>>

\* The loop ends without an answer: a timeout, a lost response, a closed
\* application, a revoked device.  The server does not notice.
GiveUp(d) ==
  /\ ~Rests(d)
  /\ client' = [client EXCEPT ![d] = Resting("gaveUp")]
  /\ task' = [t \in Tasks |->
                IF task[t].step # "idle" /\ task[t].device = d
                THEN [task[t] EXCEPT !.awaited = FALSE] ELSE task[t]]
  /\ UNCHANGED <<active, storeVars, confirmed, orphaned>>

----------------------------------------------------------------------------
\* Tasks: what they have in common.

At(t, step, op) == task[t].step = step /\ task[t].op = op

Goto(t, step) ==
  /\ task' = [task EXCEPT ![t].step = step]
  /\ UNCHANGED <<active, client, confirmed, orphaned>>

\* Mutant of Respond: a late response is taken over by a loop that is over.
RespondLate(t, next) ==
  /\ task' = [task EXCEPT ![t] = IdleTask]
  /\ client' = [client EXCEPT ![task[t].device] = next]

\* A response: the client, if it waits, takes over the next state.
Respond(t, next) ==
  /\ task' = [task EXCEPT ![t] = IdleTask]
  /\ client' = IF task[t].awaited
               THEN [client EXCEPT ![task[t].device] = next] ELSE client

\* An error response ends the attempt.
Error(t) ==
  /\ Respond(t, Resting("idle"))
  /\ UNCHANGED <<active, storeVars, confirmed, orphaned>>

Holds(t) == task[t].guarded /\ task[t].step \notin {"idle", "queued"}

\* Mutant of Acquire: the upload is not locked.
AcquireFreely(t) ==
  /\ task[t].step = "queued"
  /\ Goto(t, "started")
  /\ UNCHANGED storeVars

\* lock_upload, and the blocking closure is handed to its pool.
Acquire(t) ==
  /\ task[t].step = "queued"
  /\ \A other \in Tasks :
       task[other].step # "idle" /\ Holds(other) => task[other].upload # task[t].upload
  /\ Goto(t, "started")
  /\ UNCHANGED storeVars

\* A closed connection or the request timeout drops the handler's future and
\* with it the lock.  A blocking closure that was started runs on.
Drop(t) ==
  /\ Cancellable
  /\ task[t].step # "idle"
  /\ task[t].guarded
  /\ task' = [task EXCEPT ![t] =
                IF task[t].step = "queued" THEN IdleTask
                ELSE [task[t] EXCEPT !.guarded = FALSE, !.awaited = FALSE]]
  /\ orphaned' = IF task[t].step = "queued" THEN orphaned ELSE orphaned \cup {task[t].upload}
  /\ client' = IF task[t].awaited
               THEN [client EXCEPT ![task[t].device] = Resting("gaveUp")] ELSE client
  /\ UNCHANGED <<active, storeVars, confirmed>>

\* load_upload: the row of this identifier and this device.
Row(t) == uploads[task[t].upload]
HasRow(t) == Row(t) # None /\ Row(t).device = task[t].device

----------------------------------------------------------------------------
\* append_upload_chunk.

LoadAppend(t) ==
  /\ At(t, "started", "append")
  /\ IF /\ HasRow(t)
        /\ Row(t).received = task[t].offset
        /\ task[t].offset + 1 <= Size[task[t].blob]
     THEN Goto(t, "loaded") /\ UNCHANGED storeVars
     ELSE Error(t)

\* The file is opened by its path in uploads/; later steps use the handle.
OpenPart(t) ==
  /\ At(t, "loaded", "append")
  /\ IF task[t].upload \in parts
     THEN Goto(t, "open") /\ UNCHANGED storeVars
     ELSE Error(t)

\* Mutant of Trim: a file that is not exactly as long as the offset is corrupt.
TrimStrict(t) ==
  LET u == task[t].upload IN
  /\ At(t, "open", "append")
  /\ IF Len(file[u]) # task[t].offset
     THEN Error(t)
     ELSE Goto(t, "trimmed") /\ UNCHANGED storeVars

\* A tail beyond the offset, left by a crash, is cut off and the file synced.
Trim(t) ==
  LET u == task[t].upload
      at == task[t].offset
      content == IF Len(file[u]) > at THEN Truncated(file[u], at) ELSE file[u]
  IN
  /\ At(t, "open", "append")
  /\ IF Len(file[u]) < at
     THEN Error(t)
     ELSE /\ file' = [file EXCEPT ![u] = content]
          /\ disk' = [disk EXCEPT ![u] = IF Len(file[u]) > at THEN content ELSE @]
          /\ Goto(t, "trimmed")
          /\ UNCHANGED <<uploads, blobs, parts, synced, renamed>>

Write(t) ==
  /\ At(t, "trimmed", "append")
  /\ file' = [file EXCEPT ![task[t].upload] = WriteAt(@, task[t].offset, task[t].chunk)]
  /\ Goto(t, "written")
  /\ UNCHANGED <<uploads, blobs, parts, synced, renamed, disk>>

\* Mutant of SyncData: nothing is synced.
SyncNothing(t) ==
  /\ At(t, "written", "append")
  /\ Goto(t, "synced")
  /\ UNCHANGED storeVars

SyncData(t) ==
  /\ At(t, "written", "append")
  /\ disk' = [disk EXCEPT ![task[t].upload] = file[task[t].upload]]
  /\ Goto(t, "synced")
  /\ UNCHANGED <<uploads, blobs, parts, synced, renamed, file>>

\* Mutant of Advance: the row is updated wherever it stands.
AdvanceBlindly(t) ==
  LET u == task[t].upload
      next == task[t].offset + 1
  IN
  /\ At(t, "synced", "append")
  /\ IF uploads[u] # None
     THEN /\ uploads' = [uploads EXCEPT ![u].received = next]
          /\ Respond(t, [client[task[t].device] EXCEPT !.phase = "ready", !.offset = next])
          /\ UNCHANGED <<active, blobs, parts, synced, renamed, file, disk, confirmed, orphaned>>
     ELSE Error(t)

\* The row moves on if it is still at the offset; the response carries the
\* new one.
Advance(t) ==
  LET u == task[t].upload
      next == task[t].offset + 1
  IN
  /\ At(t, "synced", "append")
  /\ IF uploads[u] # None /\ uploads[u].received = task[t].offset
     THEN /\ uploads' = [uploads EXCEPT ![u].received = next]
          /\ Respond(t, [client[task[t].device] EXCEPT !.phase = "ready", !.offset = next])
          /\ UNCHANGED <<active, blobs, parts, synced, renamed, file, disk, confirmed, orphaned>>
     ELSE Error(t)

----------------------------------------------------------------------------
\* commit_upload.

LoadCommit(t) ==
  /\ At(t, "started", "commit")
  /\ IF HasRow(t) /\ Row(t).received = Size[task[t].blob]
     THEN Goto(t, "loaded") /\ UNCHANGED storeVars
     ELSE Error(t)

\* fsync of the object or of its directory: its entry survives a crash.
SyncEntry(b) ==
  /\ synced' = [synced EXCEPT ![b] = Object(b)]
  /\ renamed' = [renamed EXCEPT ![b] = <<>>]

\* The object exists: it is verified and synced instead of the upload.
VerifyObject(t) ==
  LET b == task[t].blob IN
  /\ At(t, "loaded", "commit")
  /\ Object(b) # None
  /\ IF Verifies(file[Object(b)], b)
     THEN /\ disk' = [disk EXCEPT ![Object(b)] = file[Object(b)]]
          /\ SyncEntry(b)
          /\ Goto(t, "placed")
          /\ UNCHANGED <<uploads, blobs, parts, file>>
     ELSE Error(t)

\* Mutant of VerifyPart: only the length of the part is compared.
VerifyLength(t) ==
  LET u == task[t].upload IN
  /\ At(t, "loaded", "commit")
  /\ Object(task[t].blob) = None
  /\ IF u \in parts /\ Len(file[u]) = Size[task[t].blob]
     THEN /\ disk' = [disk EXCEPT ![u] = file[u]]
          /\ Goto(t, "verified")
          /\ UNCHANGED <<uploads, blobs, parts, synced, renamed, file>>
     ELSE Error(t)

VerifyPart(t) ==
  LET u == task[t].upload IN
  /\ At(t, "loaded", "commit")
  /\ Object(task[t].blob) = None
  /\ IF u \in parts /\ Verifies(file[u], task[t].blob)
     THEN /\ disk' = [disk EXCEPT ![u] = file[u]]
          /\ Goto(t, "verified")
          /\ UNCHANGED <<uploads, blobs, parts, synced, renamed, file>>
     ELSE Error(t)

\* An object that another upload placed meanwhile is replaced.
Rename(t) ==
  LET u == task[t].upload IN
  /\ At(t, "verified", "commit")
  /\ IF u \in parts
     THEN /\ parts' = parts \ {u}
          /\ renamed' = [renamed EXCEPT ![task[t].blob] = Append(@, u)]
          /\ Goto(t, "renamed")
          /\ UNCHANGED <<uploads, blobs, synced, file, disk>>
     ELSE Error(t)

\* Mutant of SyncParent: the directory is not synced.
SkipSyncParent(t) ==
  /\ At(t, "renamed", "commit")
  /\ Goto(t, "placed")
  /\ UNCHANGED storeVars

SyncParent(t) ==
  /\ At(t, "renamed", "commit")
  /\ SyncEntry(task[t].blob)
  /\ Goto(t, "placed")
  /\ UNCHANGED <<uploads, blobs, parts, file, disk>>

\* One transaction inserts the blob row and deletes the upload row.
Record(t) ==
  /\ At(t, "placed", "commit")
  /\ blobs' = blobs \cup {task[t].blob}
  /\ uploads' = [uploads EXCEPT ![task[t].upload] = None]
  /\ Goto(t, "recorded")
  /\ UNCHANGED <<parts, synced, renamed, file, disk>>

\* A remaining part file is removed and the blob identifier answered.
RemovePart(t) ==
  /\ At(t, "recorded", "commit")
  /\ parts' = parts \ {task[t].upload}
  /\ Respond(t, Resting("idle"))
  /\ confirmed' = IF task[t].awaited
                  THEN confirmed \cup {<<task[t].device, task[t].blob>>}
                  ELSE confirmed
  /\ UNCHANGED <<active, uploads, blobs, synced, renamed, file, disk, orphaned>>

----------------------------------------------------------------------------
\* The environment.

Register(d) ==
  /\ active' = active \cup {d}
  /\ UNCHANGED <<storeVars, task, client, confirmed, orphaned>>

Revoke(d) ==
  /\ active' = active \ {d}
  /\ UNCHANGED <<storeVars, task, client, confirmed, orphaned>>

\* A crash and the next start.  The tables survive; of the unsynced renames of
\* a blob some first ones do; the files of the others are parts again.
Crash ==
  /\ \E kept \in [Blobs -> 0 .. Cardinality(Uploads)] :
       /\ \A b \in Blobs : kept[b] <= Len(renamed[b])
       /\ synced' = [b \in Blobs |->
                       IF kept[b] = 0 THEN synced[b] ELSE renamed[b][kept[b]]]
       /\ parts' = parts \cup UNION
            {{renamed[b][i] : i \in (kept[b] + 1) .. Len(renamed[b])} : b \in Blobs}
  /\ renamed' = [b \in Blobs |-> <<>>]
  /\ file' \in [Uploads -> UNION {AfterCrash(u) : u \in Uploads}]
  /\ \A u \in Uploads : file'[u] \in AfterCrash(u)
  /\ disk' = file'
  /\ task' = [t \in Tasks |-> IdleTask]
  /\ client' = [d \in Devices |-> Resting("gaveUp")]
  /\ UNCHANGED <<active, uploads, blobs, confirmed, orphaned>>

----------------------------------------------------------------------------
Init ==
  /\ active = {}
  /\ uploads = [u \in Uploads |-> None]
  /\ blobs = {}
  /\ parts = {}
  /\ synced = [b \in Blobs |-> None]
  /\ renamed = [b \in Blobs |-> <<>>]
  /\ file = [u \in Uploads |-> <<>>]
  /\ disk = [u \in Uploads |-> <<>>]
  /\ task = [t \in Tasks |-> IdleTask]
  /\ client = [d \in Devices |-> Resting("idle")]
  /\ confirmed = {}
  /\ orphaned = {}

BeginUpload(d) ==
  \E b \in Blobs, u \in Uploads : Resume(d, b, u) \/ Allocate(d, b, u)

AppendStep(t) ==
  LoadAppend(t) \/ OpenPart(t) \/ Trim(t) \/ Write(t) \/ SyncData(t) \/ Advance(t)

CommitStep(t) ==
  \/ LoadCommit(t) \/ VerifyObject(t) \/ VerifyPart(t) \/ Rename(t)
  \/ SyncParent(t) \/ Record(t) \/ RemovePart(t)

ServerStep == \E t \in Tasks : Acquire(t) \/ AppendStep(t) \/ CommitStep(t)

Next ==
  \/ \E d \in Devices :
       \/ BeginUpload(d)
       \/ \E t \in Tasks : Send(d, t)
       \/ GiveUp(d)
       \/ Register(d)
       \/ Revoke(d)
  \/ ServerStep
  \/ \E t \in Tasks : Drop(t)
  \/ Crash

Spec == Init /\ [][Next]_vars

\* Tasks run until they answer, and a loop that has an upload sends what is next.
\* Nothing makes a device begin an upload.
FairSpec ==
  /\ Spec
  /\ WF_vars(ServerStep)
  /\ \A d \in Devices : WF_vars(\E t \in Tasks : Send(d, t))

----------------------------------------------------------------------------
(***************************************************************************)
(* Properties.                                                             *)
(***************************************************************************)

\* Every variable keeps its type, and a client has an upload only while its loop runs:
\* no late response revives a loop that is over.
TypeOK ==
  /\ active \subseteq Devices
  /\ uploads \in [Uploads -> UploadRow \cup {None}]
  /\ blobs \subseteq Blobs
  /\ parts \subseteq Uploads
  /\ synced \in [Blobs -> Uploads \cup {None}]
  /\ renamed \in [Blobs -> Seq(Uploads)]
  /\ file \in [Uploads -> Seq(Bytes)]
  /\ disk \in [Uploads -> Seq(Bytes)]
  /\ task \in [Tasks -> Task \cup {IdleTask}]
  /\ client \in [Devices -> Client]
  /\ \A d \in Devices : Rests(d) <=> client[d].upload = None
  /\ confirmed \subseteq Devices \X Blobs
  /\ orphaned \subseteq Uploads

\* Reading a published object returns the whole ciphertext that was hashed: no
\* other upload of it, no retry and no crash leaves a row without its file, or
\* with a shorter or a different one.  The one exception is a file that was
\* uploaded while a handler of its upload was dropped with its closure running:
\* the closure works on without the lock, and may still write to the file.
BlobsAreIntact ==
  \A b \in blobs :
    /\ Object(b) # None
    /\ Object(b) \notin orphaned => Verifies(file[Object(b)], b)

\* What an upload row counts as received is on disk, without gaps, so that an
\* append at that offset is possible after any crash; with the same exception.
ReceivedIsDurable ==
  \A u \in Live \ orphaned :
    /\ uploads[u].received <= Len(disk[u])
    /\ \A i \in 1 .. uploads[u].received : disk[u][i] # "hole"

\* Reading a published object returns the whole ciphertext, whatever handlers
\* were dropped.
PublishedIsForGood ==
  \A b \in blobs : Object(b) # None /\ Verifies(file[Object(b)], b)

\* A blob identifier is answered only for a recorded object whose directory
\* entry outlives every crash, even if handlers are dropped half way.
ConfirmedIsNamed ==
  \A p \in confirmed : p[2] \in blobs /\ synced[p[2]] # None

\* A chunk is counted once, however many requests carry it: the offset of an
\* upload never jumps, never goes back and never passes the announced size.
OffsetsAdvance ==
  [][\A u \in Live : uploads'[u] # None =>
       /\ uploads'[u].received \in {uploads[u].received, uploads[u].received + 1}
       /\ uploads'[u].received <= Size[uploads[u].blob]]_vars

\* The objects that are recorded and can be read.  Of one whose file an orphaned
\* closure may still write to, the row is all that is promised.
Readable ==
  {b \in blobs : /\ Object(b) # None
                 /\ Object(b) \in orphaned \/ Verifies(file[Object(b)], b)}

\* The tables, directories and tasks implement a store of immutable objects
\* that confirms an object only once it can be read for ever, an orphan's
\* object excepted, of which the row and the name stay.
Promise == INSTANCE BlobPromise WITH readable <- Readable, promised <- confirmed
ImplementsPromise == Promise!Spec

Undisturbed(d) == <>[](d \in active /\ client[d].phase # "gaveUp")

\* Once its attempts are not cut off any more, a device that takes up the upload
\* of a ciphertext again and again has it confirmed, from whatever partial
\* uploads the earlier attempts left behind: no part file, torn, too long or
\* already published, refuses it for ever.
EventuallyConfirmed ==
  \A d \in Devices, b \in Blobs :
    Undisturbed(d) /\ []<>(client[d].blob = b) => <>(<<d, b>> \in confirmed)
=============================================================================
