-------------------------- MODULE ObjectStoreProofs --------------------------
(***************************************************************************)
(* Proofs about ObjectStore for every set of devices, ciphertexts, uploads *)
(* and requests in flight, whether handlers may be dropped or not.  What   *)
(* is confirmed keeps its name and offsets advance one by one.  The lock   *)
(* of an upload none of whose handlers was dropped with its closure        *)
(* running keeps its part file, what it has received stays on the disk,    *)
(* and what it has published stays whole, whatever becomes of the others.  *)
(***************************************************************************)
EXTENDS ObjectStore, FiniteSetTheorems, SequenceTheorems, TLAPS

Busy(t) == task[t].step # "idle"

TaskTypeOK == task \in [Tasks -> Task \cup {IdleTask}]
ClientTypeOK == client \in [Devices -> Client]

\* A client in its loop has an upload, and one that rests has none.
ClientsMeant ==
  \A d \in Devices :
    /\ Rests(d) => client[d].upload = None
    /\ ~Rests(d) => client[d].upload # None /\ client[d].blob # None

\* A response is awaited by the client that waits for it, and by one request of a device
\* at most.
AwaitedIsWaitedFor ==
  /\ \A t \in Tasks : Busy(t) /\ task[t].awaited =>
       /\ client[task[t].device].phase = "waiting"
       /\ client[task[t].device].upload = task[t].upload
       /\ client[task[t].device].blob = task[t].blob
  /\ \A t, o \in Tasks :
       Busy(t) /\ Busy(o) /\ task[t].awaited /\ task[o].awaited /\ task[t].device = task[o].device
         => t = o

LoopInv == TaskTypeOK /\ ClientTypeOK /\ ClientsMeant /\ AwaitedIsWaitedFor

----------------------------------------------------------------------------
\* Tasks and clients: what the steps of the loop and of requests have in common.

\* The fields of a request that is served.
LEMMA TaskFields ==
  ASSUME TaskTypeOK, NEW t \in Tasks, Busy(t)
  PROVE  /\ task[t] \in Task
         /\ task[t].step \in Steps
         /\ task[t].op \in {"append", "commit"}
         /\ task[t].device \in Devices
         /\ task[t].upload \in Uploads
         /\ task[t].blob \in Blobs
         /\ task[t].offset \in Nat
         /\ task[t].chunk \in Chunks
         /\ task[t].guarded \in BOOLEAN
         /\ task[t].awaited \in BOOLEAN
<1>1. task[t] \in Task
  BY DEF TaskTypeOK, Busy, IdleTask
<1>2. QED
  BY <1>1 DEF Task

\* Everything of a request but its step and who waits for it.
SameRequest(t) ==
  /\ task'[t].op = task[t].op
  /\ task'[t].device = task[t].device
  /\ task'[t].upload = task[t].upload
  /\ task'[t].blob = task[t].blob
  /\ task'[t].offset = task[t].offset
  /\ task'[t].chunk = task[t].chunk

\* A request goes to its next step.
LEMMA GotoEffect ==
  ASSUME TaskTypeOK, NEW t \in Tasks, Busy(t), NEW step \in Steps, Goto(t, step)
  PROVE  /\ TaskTypeOK'
         /\ task'[t].step = step
         /\ SameRequest(t)
         /\ task'[t].awaited = task[t].awaited
         /\ task'[t].guarded = task[t].guarded
         /\ \A o \in Tasks \ {t} : task'[o] = task[o]
         /\ client' = client
         /\ active' = active
         /\ confirmed' = confirmed
<1> DEFINE new == [task[t] EXCEPT !.step = step]
<1>1. task[t] \in Task
  BY TaskFields
<1>2. /\ new \in Task
      /\ new.step = step
      /\ new.op = task[t].op
      /\ new.device = task[t].device
      /\ new.upload = task[t].upload
      /\ new.blob = task[t].blob
      /\ new.offset = task[t].offset
      /\ new.chunk = task[t].chunk
      /\ new.guarded = task[t].guarded
      /\ new.awaited = task[t].awaited
  BY <1>1 DEF Task
<1>3. task' = [task EXCEPT ![t] = new] /\ UNCHANGED <<active, client, confirmed>>
  BY DEF Goto
<1> HIDE DEF new
<1>4. task'[t] = new /\ (\A o \in Tasks \ {t} : task'[o] = task[o]) /\ TaskTypeOK'
  BY <1>2, <1>3 DEF TaskTypeOK
<1>5. QED
  BY <1>2, <1>3, <1>4 DEF SameRequest

\* A request is answered: it is over, and its client, if it waits, goes on.
LEMMA RespondEffect ==
  ASSUME TaskTypeOK, NEW t \in Tasks, NEW next, Respond(t, next)
  PROVE  /\ TaskTypeOK'
         /\ ~Busy(t)'
         /\ \A o \in Tasks \ {t} : task'[o] = task[o]
         /\ client' = client \/ (/\ task[t].awaited
                                 /\ client' = [client EXCEPT ![task[t].device] = next])
BY DEF Respond, TaskTypeOK, IdleTask, Busy

\* What a client is after a step: as it was, at rest, or one chunk further.
Advances(d, offset) == [client[d] EXCEPT !.phase = "ready", !.offset = offset]

\* An upload begins, from a row of before or anew.
Begins(d, b, u) == Resume(d, b, u) \/ Allocate(d, b, u)

\* The steps as they are for clients and requests.
LoopForms ==
  \/ UNCHANGED <<task, client>>
  \/ \E d \in Devices, b \in Blobs, u \in Uploads, offset \in Nat :
       Rests(d) /\ Begins(d, b, u) /\ Allocated(d, b, u, offset) /\ UNCHANGED task
  \/ \E d \in Devices, t \in Tasks : Send(d, t)
  \/ \E d \in Devices : GiveUp(d)
  \/ \E t \in Tasks : Drop(t)
  \/ \E t \in Tasks, step \in Steps \ {"idle", "queued"} :
       Busy(t) /\ (task[t].step = "queued" => Acquire(t)) /\ Goto(t, step)
  \/ \E t \in Tasks : Busy(t) /\ Respond(t, Resting("idle"))
  \/ \E t \in Tasks : /\ Busy(t)
                      /\ Respond(t, Advances(task[t].device, task[t].offset + 1))
  \/ /\ task' = [t \in Tasks |-> IdleTask]
     /\ client' = [d \in Devices |-> Resting("gaveUp")]

TablesTypeOK ==
  /\ active \subseteq Devices
  /\ uploads \in [Uploads -> UploadRow \cup {None}]
  /\ blobs \subseteq Blobs
  /\ confirmed \subseteq Devices \X Blobs

\* Every step is one of these.
LEMMA StepLoopForms ==
  ASSUME TablesTypeOK, [Next]_vars
  PROVE  LoopForms
<1>1. ASSUME NEW d \in Devices, NEW b \in Blobs, NEW u \in Uploads,
             Resume(d, b, u) \/ Allocate(d, b, u)
      PROVE  LoopForms
  <2>1. CASE Resume(d, b, u)
    <3>1. uploads[u].received \in Nat
      <4>1. uploads[u] # None
        BY <2>1 DEF Resume, Matching, UploadsOf, Live
      <4>2. uploads[u] \in UploadRow
        BY <4>1 DEF TablesTypeOK
      <4>3. QED
        BY <4>2 DEF UploadRow
    <3>2. Rests(d) /\ Allocated(d, b, u, uploads[u].received) /\ UNCHANGED task
      BY <2>1 DEF Resume
    <3>3. QED
      BY <2>1, <3>1, <3>2 DEF LoopForms, Begins
  <2>2. CASE Allocate(d, b, u)
    <3>1. Rests(d) /\ Allocated(d, b, u, 0) /\ UNCHANGED task
      BY <2>2 DEF Allocate
    <3>2. QED
      BY <2>2, <3>1 DEF LoopForms, Begins
  <2>3. QED
    BY <1>1, <2>1, <2>2
<1>2. ASSUME NEW t \in Tasks, NEW step \in Steps \ {"idle", "queued"}, Busy(t),
             task[t].step = "queued" => Acquire(t), Goto(t, step)
      PROVE  LoopForms
  BY <1>2 DEF LoopForms
<1>3. ASSUME NEW t \in Tasks, Busy(t), Error(t)
      PROVE  LoopForms
  BY <1>3 DEF LoopForms, Error
<1>4. ASSUME NEW t \in Tasks, Acquire(t)
      PROVE  LoopForms
  <2>1. Goto(t, "started") /\ Busy(t) /\ "started" \in Steps \ {"idle", "queued"}
    BY <1>4 DEF Acquire, Busy, Steps
  <2>2. QED
    BY <1>2, <1>4, <2>1
<1>5. ASSUME NEW t \in Tasks, AppendStep(t)
      PROVE  LoopForms
  <2>1. Busy(t) /\ task[t].step # "queued"
    BY <1>5 DEF AppendStep, LoadAppend, OpenPart, Trim, Write, SyncData, Advance, At, Busy
  <2>2. {"loaded", "open", "trimmed", "written", "synced"} \subseteq Steps \ {"idle", "queued"}
    BY DEF Steps
  <2>3. CASE Advance(t)
    BY <1>3, <2>1, <2>3 DEF Advance, LoopForms, Advances
  <2>4. CASE LoadAppend(t) \/ OpenPart(t) \/ Trim(t)
    BY <1>2, <1>3, <2>1, <2>2, <2>4 DEF LoadAppend, OpenPart, Trim
  <2>5. CASE Write(t) \/ SyncData(t)
    BY <1>2, <2>1, <2>2, <2>5 DEF Write, SyncData
  <2>6. QED
    BY <1>5, <2>3, <2>4, <2>5 DEF AppendStep
<1>6. ASSUME NEW t \in Tasks, CommitStep(t)
      PROVE  LoopForms
  <2>1. Busy(t) /\ task[t].step # "queued"
    BY <1>6 DEF CommitStep, LoadCommit, VerifyObject, VerifyPart, Rename, SyncParent, Record,
                RemovePart, At, Busy
  <2>2. {"loaded", "placed", "verified", "renamed", "recorded"} \subseteq
          Steps \ {"idle", "queued"}
    BY DEF Steps
  <2>3. CASE LoadCommit(t) \/ VerifyObject(t) \/ VerifyPart(t) \/ Rename(t)
    BY <1>2, <1>3, <2>1, <2>2, <2>3 DEF LoadCommit, VerifyObject, VerifyPart, Rename
  <2>4. CASE SyncParent(t) \/ Record(t)
    BY <1>2, <2>1, <2>2, <2>4 DEF SyncParent, Record
  <2>5. CASE RemovePart(t)
    BY <2>1, <2>5 DEF RemovePart, LoopForms
  <2>6. QED
    BY <1>6, <2>3, <2>4, <2>5 DEF CommitStep
<1>7. CASE Crash
  BY <1>7 DEF Crash, LoopForms
<1>8. ASSUME NEW d \in Devices, Register(d) \/ Revoke(d)
      PROVE  LoopForms
  BY <1>8 DEF Register, Revoke, LoopForms
<1>9. CASE UNCHANGED vars
  BY <1>9 DEF vars, LoopForms
<1>10. CASE \/ \E d \in Devices, t \in Tasks : Send(d, t)
            \/ \E d \in Devices : GiveUp(d)
            \/ \E t \in Tasks : Drop(t)
  BY <1>10 DEF LoopForms
<1>11. QED
  BY <1>1, <1>4, <1>5, <1>6, <1>7, <1>8, <1>9, <1>10 DEF Next, BeginUpload, ServerStep

\* Where requests come from: each was there before, or its client has just sent it.
TasksCome ==
  \A t \in Tasks : Busy(t)' =>
    \/ Busy(t) /\ SameRequest(t) /\ (task'[t].awaited => task[t].awaited)
    \/ /\ task'[t].step = "queued" /\ task'[t].guarded = TRUE
       /\ \E d \in Devices : /\ client[d].phase = "ready"
                             /\ client[d].upload # None /\ client[d].blob # None
                             /\ task'[t].device = d
                             /\ task'[t].upload = client[d].upload
                             /\ task'[t].blob = client[d].blob

\* Where clients come from: what they upload is as before, or nothing, or newly begun.
ClientsCome ==
  \A d \in Devices :
    \/ client'[d].upload = None
    \/ client'[d].upload = client[d].upload /\ client'[d].blob = client[d].blob
    \/ \E b \in Blobs, u \in Uploads, offset \in Nat :
         Begins(d, b, u) /\ Allocated(d, b, u, offset)

\* A request that a client sends is of its upload.
LEMMA SendEffect ==
  ASSUME LoopInv, NEW d \in Devices, NEW t \in Tasks, Send(d, t)
  PROVE  /\ LoopInv'
         /\ TasksCome
         /\ ClientsCome
<1> DEFINE op == IF client[d].offset < Size[client[d].blob] THEN "append" ELSE "commit"
           new(chunk) == [step |-> "queued", device |-> d, upload |-> client[d].upload,
                          blob |-> client[d].blob, op |-> op, offset |-> client[d].offset,
                          chunk |-> chunk, guarded |-> TRUE, awaited |-> TRUE]
           waiting == [client[d] EXCEPT !.phase = "waiting"]
<1>1. /\ client[d].phase = "ready" /\ ~Busy(t)
      /\ \E chunk \in Chunks : task' = [task EXCEPT ![t] = new(chunk)]
      /\ client' = [client EXCEPT ![d].phase = "waiting"]
  BY DEF Send, Busy
<1>2. PICK chunk \in Chunks : task' = [task EXCEPT ![t] = new(chunk)]
  BY <1>1
<1>3. /\ client[d] \in Client
      /\ client[d].upload \in Uploads /\ client[d].blob \in Blobs /\ client[d].offset \in Nat
      /\ client[d].upload # None /\ client[d].blob # None
  BY <1>1 DEF LoopInv, ClientTypeOK, ClientsMeant, Rests, Client
<1> DEFINE sent == new(chunk)
<1>4. /\ sent \in Task
      /\ sent.step = "queued" /\ sent.device = d /\ sent.upload = client[d].upload
      /\ sent.blob = client[d].blob /\ sent.awaited = TRUE /\ sent.guarded = TRUE
  <2>1. op \in {"append", "commit"}
    OBVIOUS
  <2> HIDE DEF op
  <2>2. QED
    BY <1>3, <2>1 DEF Task, Steps
<1> HIDE DEF sent
<1>5. task'[t] = sent /\ (\A o \in Tasks \ {t} : task'[o] = task[o]) /\ TaskTypeOK'
  BY <1>2, <1>4 DEF sent, LoopInv, TaskTypeOK
<1>6. /\ waiting \in Client /\ waiting.phase = "waiting"
      /\ waiting.upload = client[d].upload /\ waiting.blob = client[d].blob
  BY <1>3 DEF Client
<1>7. client' = [client EXCEPT ![d] = waiting]
  BY <1>1 DEF LoopInv, ClientTypeOK
<1> HIDE DEF waiting
<1>8. client'[d] = waiting /\ (\A o \in Devices \ {d} : client'[o] = client[o]) /\ ClientTypeOK'
  BY <1>6, <1>7 DEF LoopInv, ClientTypeOK
<1>9. ClientsMeant'
  BY <1>3, <1>6, <1>8 DEF LoopInv, ClientsMeant, Rests
<1>10. \A o \in Tasks \ {t} : Busy(o)' => Busy(o) /\ SameRequest(o)
  BY <1>5 DEF Busy, SameRequest
<1>11. \A o \in Tasks : Busy(o) /\ task[o].awaited => task[o].device # d
  BY <1>1 DEF LoopInv, AwaitedIsWaitedFor
<1>12. AwaitedIsWaitedFor'
  <2>1. ASSUME NEW o \in Tasks, Busy(o)', task'[o].awaited
        PROVE  /\ client'[task'[o].device].phase = "waiting"
               /\ client'[task'[o].device].upload = task'[o].upload
               /\ client'[task'[o].device].blob = task'[o].blob
    <3>1. CASE o = t
      BY <1>4, <1>5, <1>6, <1>8, <3>1
    <3>2. CASE o # t
      <4>1. Busy(o) /\ task'[o] = task[o] /\ task[o].awaited /\ task[o].device # d
        BY <1>5, <1>10, <1>11, <2>1, <3>2
      <4>2. task[o].device \in Devices
        BY <4>1, TaskFields DEF LoopInv
      <4>3. QED
        BY <1>8, <4>1, <4>2 DEF LoopInv, AwaitedIsWaitedFor
    <3>3. QED
      BY <3>1, <3>2
  <2>2. ASSUME NEW o \in Tasks, NEW p \in Tasks, Busy(o)', Busy(p)', task'[o].awaited,
               task'[p].awaited, task'[o].device = task'[p].device
        PROVE  o = p
    <3>1. \A q \in Tasks \ {t} : Busy(q)' /\ task'[q].awaited => task'[q].device # d
      BY <1>5, <1>10, <1>11
    <3>2. CASE o = t \/ p = t
      BY <1>4, <1>5, <2>2, <3>1, <3>2
    <3>3. CASE o # t /\ p # t
      BY <1>5, <1>10, <2>2, <3>3 DEF LoopInv, AwaitedIsWaitedFor
    <3>4. QED
      BY <3>2, <3>3
  <2>3. QED
    BY <2>1, <2>2 DEF AwaitedIsWaitedFor
<1>13. TasksCome
  BY <1>1, <1>3, <1>4, <1>5, <1>10 DEF TasksCome
<1>14. ClientsCome
  BY <1>6, <1>8 DEF ClientsCome
<1>15. QED
  BY <1>5, <1>8, <1>9, <1>12, <1>13, <1>14 DEF LoopInv

\* Who waits for what, after a step in which requests keep what they are about: if it is
\* still awaited, its client still waits for it.
LEMMA AwaitedStays ==
  ASSUME LoopInv,
         \A t \in Tasks : Busy(t)' =>
           /\ Busy(t) /\ SameRequest(t)
           /\ task'[t].awaited =>
                /\ task[t].awaited
                /\ client'[task[t].device] = client[task[t].device]
  PROVE  AwaitedIsWaitedFor'
<1>1. ASSUME NEW t \in Tasks, Busy(t)', task'[t].awaited
      PROVE  /\ Busy(t) /\ task[t].awaited
             /\ task'[t].device = task[t].device
             /\ task'[t].upload = task[t].upload
             /\ task'[t].blob = task[t].blob
             /\ client'[task[t].device] = client[task[t].device]
  BY <1>1 DEF SameRequest
<1>2. QED
  BY <1>1 DEF LoopInv, AwaitedIsWaitedFor

\* A client that rests, or goes one chunk further, is one.
LEMMA RestingFields ==
  ASSUME NEW phase \in {"idle", "gaveUp"}
  PROVE  /\ Resting(phase) \in Client
         /\ Resting(phase).phase = phase
         /\ Resting(phase).upload = None
BY DEF Resting, Client

\* A client that goes one chunk further keeps its upload.
LEMMA AdvancesFields ==
  ASSUME LoopInv, NEW d \in Devices, NEW offset \in Nat
  PROVE  /\ Advances(d, offset) \in Client
         /\ Advances(d, offset).phase = "ready"
         /\ Advances(d, offset).upload = client[d].upload
         /\ Advances(d, offset).blob = client[d].blob
<1>1. client[d] \in Client
  BY DEF LoopInv, ClientTypeOK
<1>2. QED
  BY <1>1 DEF Advances, Client

\* One client changes: it rests, or has an upload and a ciphertext.
LEMMA ClientChanges ==
  ASSUME LoopInv, NEW d \in Devices, NEW new \in Client,
         client' = [client EXCEPT ![d] = new],
         new.phase \in {"idle", "gaveUp"} => new.upload = None,
         new.phase \notin {"idle", "gaveUp"} => new.upload # None /\ new.blob # None
  PROVE  /\ ClientTypeOK' /\ ClientsMeant'
         /\ client'[d] = new
         /\ \A o \in Devices \ {d} : client'[o] = client[o]
BY DEF LoopInv, ClientTypeOK, ClientsMeant, Rests

\* A request ends, and its client goes on as it is told.
LEMMA AnswerKeepsLoop ==
  ASSUME LoopInv, NEW t \in Tasks, Busy(t), NEW next \in Client, Respond(t, next),
         next.phase \in {"idle", "gaveUp"} => next.upload = None,
         task[t].awaited /\ next.phase \notin {"idle", "gaveUp"} =>
           /\ next.upload # None /\ next.blob # None
           /\ next.upload = client[task[t].device].upload
           /\ next.blob = client[task[t].device].blob
  PROVE  LoopInv' /\ TasksCome /\ ClientsCome
<1> DEFINE d == task[t].device
<1>0. TaskTypeOK /\ d \in Devices
  BY TaskFields DEF LoopInv
<1>1. /\ TaskTypeOK'
      /\ ~Busy(t)'
      /\ \A o \in Tasks \ {t} : task'[o] = task[o]
      /\ client' = client \/ (task[t].awaited /\ client' = [client EXCEPT ![d] = next])
  BY <1>0, RespondEffect
<1>2. \A o \in Tasks : Busy(o)' =>
        /\ o # t /\ Busy(o) /\ SameRequest(o)
        /\ task'[o].awaited => task[o].awaited
  BY <1>1 DEF Busy, SameRequest
<1>3. TasksCome
  BY <1>2 DEF TasksCome
<1>4. CASE client' = client
  <2>1. AwaitedIsWaitedFor'
    BY <1>2, <1>4, AwaitedStays
  <2>2. QED
    BY <1>1, <1>3, <1>4, <2>1 DEF LoopInv, ClientTypeOK, ClientsMeant, Rests, ClientsCome
<1>5. CASE task[t].awaited /\ client' = [client EXCEPT ![d] = next]
  <2>1. /\ ClientTypeOK' /\ ClientsMeant'
        /\ client'[d] = next
        /\ \A o \in Devices \ {d} : client'[o] = client[o]
    BY <1>0, <1>5, ClientChanges
  <2>2. ASSUME NEW o \in Tasks, Busy(o)', task'[o].awaited
        PROVE  client'[task[o].device] = client[task[o].device]
    <3>1. o # t /\ Busy(o) /\ task[o].awaited
      BY <1>2, <2>2
    <3>2. task[o].device # d /\ task[o].device \in Devices
      BY <1>0, <1>5, <3>1, TaskFields DEF LoopInv, AwaitedIsWaitedFor
    <3>3. QED
      BY <2>1, <3>2
  <2>3. AwaitedIsWaitedFor'
    BY <1>2, <2>2, AwaitedStays
  <2>4. ClientsCome
    BY <1>5, <2>1 DEF ClientsCome
  <2>5. QED
    BY <1>1, <1>3, <2>1, <2>3, <2>4 DEF LoopInv
<1>6. QED
  BY <1>1, <1>4, <1>5

\* Every step keeps clients and requests in step, and begins no upload but by Resume and
\* Allocate.
LEMMA StepLoop ==
  ASSUME UploadsAssumption, TablesTypeOK, LoopInv, [Next]_vars
  PROVE  LoopInv' /\ TasksCome /\ ClientsCome
<1>0. TaskTypeOK /\ ClientTypeOK /\ ClientsMeant /\ None \notin Uploads /\ None \notin Blobs
  BY DEF LoopInv, UploadsAssumption
<1>1. CASE UNCHANGED <<task, client>>
  <2>1. \A t \in Tasks : Busy(t)' => Busy(t) /\ SameRequest(t)
    BY <1>1 DEF Busy, SameRequest
  <2>2. AwaitedIsWaitedFor'
    BY <1>1, <2>1, AwaitedStays
  <2>3. QED
    BY <1>0, <1>1, <2>1, <2>2
       DEF LoopInv, TaskTypeOK, ClientTypeOK, ClientsMeant, Rests, TasksCome, ClientsCome
<1>2. ASSUME NEW d \in Devices, NEW b \in Blobs, NEW u \in Uploads, NEW offset \in Nat,
             Rests(d), Begins(d, b, u), Allocated(d, b, u, offset), UNCHANGED task
      PROVE  LoopInv' /\ TasksCome /\ ClientsCome
  <2> DEFINE new == [phase |-> "ready", upload |-> u, blob |-> b, offset |-> offset]
  <2>1. /\ new \in Client /\ new.phase = "ready" /\ new.upload # None /\ new.blob # None
        /\ client' = [client EXCEPT ![d] = new]
    BY <1>0, <1>2 DEF Client, Allocated
  <2> HIDE DEF new
  <2>2. /\ ClientTypeOK' /\ ClientsMeant'
        /\ client'[d] = new
        /\ \A o \in Devices \ {d} : client'[o] = client[o]
    BY <2>1, ClientChanges
  <2>3. \A t \in Tasks : Busy(t)' => Busy(t) /\ SameRequest(t)
    BY <1>2 DEF Busy, SameRequest
  <2>4. \A t \in Tasks : Busy(t) /\ task[t].awaited =>
          task[t].device # d /\ task[t].device \in Devices
    BY <1>0, <1>2, TaskFields DEF LoopInv, AwaitedIsWaitedFor, Rests
  <2>5. AwaitedIsWaitedFor'
    BY <1>2, <2>2, <2>3, <2>4, AwaitedStays
  <2>6. TaskTypeOK' /\ TasksCome
    BY <1>0, <1>2, <2>3 DEF TaskTypeOK, TasksCome
  <2>7. ClientsCome
    BY <1>2, <2>2 DEF ClientsCome
  <2>8. QED
    BY <2>2, <2>5, <2>6, <2>7 DEF LoopInv
<1>3. ASSUME NEW d \in Devices, NEW t \in Tasks, Send(d, t)
      PROVE  LoopInv' /\ TasksCome /\ ClientsCome
  BY <1>3, SendEffect
<1>4. ASSUME NEW d \in Devices, GiveUp(d)
      PROVE  LoopInv' /\ TasksCome /\ ClientsCome
  <2> DEFINE new == Resting("gaveUp")
  <2>1. client' = [client EXCEPT ![d] = new] /\ new \in Client /\ new.phase = "gaveUp"
        /\ new.upload = None
    BY <1>4, RestingFields DEF GiveUp
  <2> HIDE DEF new
  <2>2. /\ ClientTypeOK' /\ ClientsMeant'
        /\ client'[d] = new
        /\ \A o \in Devices \ {d} : client'[o] = client[o]
    BY <2>1, ClientChanges
  <2>3. ASSUME NEW t \in Tasks
        PROVE  /\ task'[t] \in Task \cup {IdleTask}
               /\ Busy(t)' =>
                    /\ Busy(t) /\ SameRequest(t)
                    /\ task'[t].awaited => task[t].awaited /\ task[t].device # d
    <3>1. task'[t] = IF Busy(t) /\ task[t].device = d
                     THEN [task[t] EXCEPT !.awaited = FALSE] ELSE task[t]
      BY <1>4 DEF GiveUp, Busy
    <3>2. CASE Busy(t) /\ task[t].device = d
      <4>1. task[t] \in Task /\ task'[t] = [task[t] EXCEPT !.awaited = FALSE]
        BY <1>0, <3>1, <3>2, TaskFields
      <4>2. QED
        BY <3>2, <4>1 DEF Task, SameRequest, Busy
    <3>3. CASE ~(Busy(t) /\ task[t].device = d)
      BY <1>0, <3>1, <3>3 DEF TaskTypeOK, Busy, SameRequest
    <3>4. QED
      BY <3>2, <3>3
  <2>4. TaskTypeOK'
    <3>1. task' = [t \in Tasks |-> task'[t]]
      BY <1>4 DEF GiveUp
    <3>2. QED
      BY <2>3, <3>1 DEF TaskTypeOK
  <2>5. AwaitedIsWaitedFor'
    <3>1. ASSUME NEW t \in Tasks, Busy(t)', task'[t].awaited
          PROVE  client'[task[t].device] = client[task[t].device]
      <4>1. task[t].device \in Devices /\ task[t].device # d
        BY <1>0, <2>3, <3>1, TaskFields
      <4>2. QED
        BY <2>2, <4>1
    <3>2. QED
      BY <2>3, <3>1, AwaitedStays
  <2>6. TasksCome /\ ClientsCome
    BY <2>1, <2>2, <2>3 DEF TasksCome, ClientsCome
  <2>7. QED
    BY <2>2, <2>4, <2>5, <2>6 DEF LoopInv
<1>5. ASSUME NEW t \in Tasks, Drop(t)
      PROVE  LoopInv' /\ TasksCome /\ ClientsCome
  <2> DEFINE d == task[t].device
             next == Resting("gaveUp")
             new == IF task[t].step = "queued" THEN IdleTask
                    ELSE [task[t] EXCEPT !.guarded = FALSE, !.awaited = FALSE]
  <2>0. Busy(t) /\ d \in Devices /\ task[t] \in Task
    BY <1>0, <1>5, TaskFields DEF Drop, Busy
  <2>1. /\ task' = [task EXCEPT ![t] = new]
        /\ client' = IF task[t].awaited THEN [client EXCEPT ![d] = next] ELSE client
        /\ next \in Client /\ next.phase = "gaveUp" /\ next.upload = None
    BY <1>5, RestingFields DEF Drop
  <2>2. /\ new \in Task \cup {IdleTask}
        /\ new.step # "idle" =>
             /\ new.op = task[t].op /\ new.device = task[t].device
             /\ new.upload = task[t].upload /\ new.blob = task[t].blob
             /\ new.offset = task[t].offset /\ new.chunk = task[t].chunk
             /\ new.awaited = FALSE
    BY <2>0 DEF Task, IdleTask
  <2> HIDE DEF new, next
  <2>3. /\ TaskTypeOK'
        /\ task'[t] = new
        /\ \A o \in Tasks \ {t} : task'[o] = task[o]
    BY <1>0, <2>1, <2>2 DEF TaskTypeOK
  <2>4. \A o \in Tasks : Busy(o)' =>
          /\ Busy(o) /\ SameRequest(o)
          /\ task'[o].awaited => o # t /\ task[o].awaited
    BY <2>0, <2>2, <2>3 DEF Busy, SameRequest
  <2>5. CASE client' = client
    <3>1. AwaitedIsWaitedFor'
      BY <2>4, <2>5, AwaitedStays
    <3>2. QED
      BY <1>0, <2>3, <2>4, <2>5, <3>1
         DEF LoopInv, ClientTypeOK, ClientsMeant, Rests, ClientsCome, TasksCome
  <2>6. CASE task[t].awaited /\ client' = [client EXCEPT ![d] = next]
    <3>1. /\ ClientTypeOK' /\ ClientsMeant'
          /\ client'[d] = next
          /\ \A o \in Devices \ {d} : client'[o] = client[o]
      BY <2>0, <2>1, <2>6, ClientChanges
    <3>2. ASSUME NEW o \in Tasks, Busy(o)', task'[o].awaited
          PROVE  client'[task[o].device] = client[task[o].device]
      <4>1. o # t /\ Busy(o) /\ task[o].awaited
        BY <2>4, <3>2
      <4>2. task[o].device # d /\ task[o].device \in Devices
        BY <1>0, <2>0, <2>6, <4>1, TaskFields DEF LoopInv, AwaitedIsWaitedFor
      <4>3. QED
        BY <3>1, <4>2
    <3>3. AwaitedIsWaitedFor'
      BY <2>4, <3>2, AwaitedStays
    <3>4. TasksCome /\ ClientsCome
      BY <2>1, <2>4, <3>1 DEF TasksCome, ClientsCome
    <3>5. QED
      BY <2>3, <3>1, <3>3, <3>4 DEF LoopInv
  <2>7. QED
    BY <2>1, <2>5, <2>6
<1>6. ASSUME NEW t \in Tasks, NEW step \in Steps \ {"idle", "queued"}, Busy(t), Goto(t, step)
      PROVE  LoopInv' /\ TasksCome /\ ClientsCome
  <2>1. /\ TaskTypeOK'
        /\ SameRequest(t)
        /\ task'[t].awaited = task[t].awaited
        /\ \A o \in Tasks \ {t} : task'[o] = task[o]
        /\ client' = client
    BY <1>0, <1>6, GotoEffect
  <2>2. \A o \in Tasks : Busy(o)' =>
          /\ Busy(o) /\ SameRequest(o) /\ task'[o].awaited = task[o].awaited
    BY <1>6, <2>1 DEF Busy, SameRequest
  <2>3. AwaitedIsWaitedFor'
    BY <2>1, <2>2, AwaitedStays
  <2>4. QED
    BY <1>0, <2>1, <2>2, <2>3
       DEF LoopInv, ClientTypeOK, ClientsMeant, Rests, TasksCome, ClientsCome
<1>7. ASSUME NEW t \in Tasks, Busy(t), Respond(t, Resting("idle"))
      PROVE  LoopInv' /\ TasksCome /\ ClientsCome
  <2>1. PICK next \in Client : next = Resting("idle") /\ next.phase = "idle" /\ next.upload = None
    BY RestingFields
  <2>2. QED
    BY <1>7, <2>1, AnswerKeepsLoop
<1>8. ASSUME NEW t \in Tasks, Busy(t),
             Respond(t, Advances(task[t].device, task[t].offset + 1))
      PROVE  LoopInv' /\ TasksCome /\ ClientsCome
  <2>0. task[t].device \in Devices /\ task[t].offset + 1 \in Nat
    BY <1>0, <1>8, TaskFields
  <2>1. PICK next \in Client : next = Advances(task[t].device, task[t].offset + 1)
    BY <2>0, AdvancesFields
  <2>2. /\ next.phase = "ready"
        /\ next.upload = client[task[t].device].upload
        /\ next.blob = client[task[t].device].blob
    BY <2>0, <2>1, AdvancesFields
  <2>3. task[t].awaited => next.upload # None /\ next.blob # None
    BY <1>0, <1>8, <2>0, <2>2 DEF LoopInv, AwaitedIsWaitedFor, ClientsMeant, Rests
  <2>4. Respond(t, next)
    BY <1>8, <2>1
  <2>5. QED
    BY <1>8, <2>2, <2>3, <2>4, AnswerKeepsLoop
<1>9. CASE /\ task' = [t \in Tasks |-> IdleTask]
           /\ client' = [d \in Devices |-> Resting("gaveUp")]
  <2>1. \A t \in Tasks : ~Busy(t)'
    BY <1>9 DEF Busy, IdleTask
  <2>2. \A d \in Devices : client'[d] \in Client /\ client'[d].phase = "gaveUp"
                           /\ client'[d].upload = None
    BY <1>9, RestingFields
  <2>3. TaskTypeOK' /\ ClientTypeOK'
    BY <1>9, <2>2 DEF TaskTypeOK, ClientTypeOK
  <2>4. QED
    BY <2>1, <2>2, <2>3
       DEF LoopInv, ClientsMeant, Rests, AwaitedIsWaitedFor, TasksCome, ClientsCome
<1>10. QED
  BY <1>1, <1>2, <1>3, <1>4, <1>5, <1>6, <1>7, <1>8, <1>9, StepLoopForms DEF LoopForms

----------------------------------------------------------------------------
\* What a step does to the store: nothing, while requests begin, wait or fail,
Steady ==
  \A t \in Tasks : Busy(t)' =>
    \/ Busy(t) /\ SameRequest(t) /\ task'[t].step = task[t].step
    \/ task'[t].step \in {"queued", "started"}

Quiet == UNCHANGED <<storeVars, confirmed>> /\ Steady

\* or it is one of these, in each of which a request does what it set out to do.
LoadsAppend(t) ==
  /\ At(t, "started", "append")
  /\ HasRow(t)
  /\ Row(t).received = task[t].offset
  /\ task[t].offset + 1 <= Size[task[t].blob]
  /\ Goto(t, "loaded")
  /\ UNCHANGED storeVars

LoadsCommit(t) == At(t, "started", "commit") /\ Goto(t, "loaded") /\ UNCHANGED storeVars

Opens(t) ==
  /\ At(t, "loaded", "append")
  /\ task[t].upload \in parts
  /\ Goto(t, "open")
  /\ UNCHANGED storeVars

\* The content that a part is cut to.
CutTo(u, at) == IF Len(file[u]) > at THEN Truncated(file[u], at) ELSE file[u]

Trims(t) ==
  LET u == task[t].upload
      at == task[t].offset
  IN /\ At(t, "open", "append")
     /\ ~(Len(file[u]) < at)
     /\ file' = [file EXCEPT ![u] = CutTo(u, at)]
     /\ disk' = [disk EXCEPT ![u] = IF Len(file[u]) > at THEN CutTo(u, at) ELSE disk[u]]
     /\ Goto(t, "trimmed")
     /\ UNCHANGED <<uploads, blobs, parts, synced, renamed>>

Moves(t) ==
  LET u == task[t].upload
      next == task[t].offset + 1
  IN /\ At(t, "synced", "append")
     /\ uploads[u] # None
     /\ uploads[u].received = task[t].offset
     /\ uploads' = [uploads EXCEPT ![u] = [uploads[u] EXCEPT !.received = next]]
     /\ Respond(t, Advances(task[t].device, next))
     /\ UNCHANGED <<active, blobs, parts, synced, renamed, file, disk, confirmed, orphaned>>

Finds(t) ==
  LET b == task[t].blob
  IN /\ At(t, "loaded", "commit")
     /\ Object(b) # None
     /\ Verifies(file[Object(b)], b)
     /\ disk' = [disk EXCEPT ![Object(b)] = file[Object(b)]]
     /\ SyncEntry(b)
     /\ Goto(t, "placed")
     /\ UNCHANGED <<uploads, blobs, parts, file>>

Checks(t) ==
  LET u == task[t].upload
  IN /\ At(t, "loaded", "commit")
     /\ u \in parts
     /\ Verifies(file[u], task[t].blob)
     /\ disk' = [disk EXCEPT ![u] = file[u]]
     /\ Goto(t, "verified")
     /\ UNCHANGED <<uploads, blobs, parts, synced, renamed, file>>

Renames(t) ==
  LET u == task[t].upload
      b == task[t].blob
  IN /\ At(t, "verified", "commit")
     /\ u \in parts
     /\ parts' = parts \ {u}
     /\ renamed' = [renamed EXCEPT ![b] = Append(renamed[b], u)]
     /\ Goto(t, "renamed")
     /\ UNCHANGED <<uploads, blobs, synced, file, disk>>

Works(t) ==
  \/ LoadsAppend(t) \/ Opens(t) \/ Trims(t) \/ Write(t) \/ SyncData(t) \/ Moves(t)
  \/ LoadsCommit(t) \/ Finds(t) \/ Checks(t) \/ Renames(t) \/ SyncParent(t) \/ Record(t)
  \/ RemovePart(t)

\* A request that works is served.
LEMMA WorkerIsBusy ==
  ASSUME NEW t \in Tasks, Works(t)
  PROVE  Busy(t)
BY DEF Works, LoadsAppend, Opens, Trims, Write, SyncData, Moves, LoadsCommit, Finds, Checks,
       Renames, SyncParent, Record, RemovePart, At, Busy

\* A request that works goes on by itself, to the step after its work, or is over.
LEMMA WorkerMoves ==
  ASSUME TaskTypeOK, NEW t \in Tasks, Works(t)
  PROVE  /\ \A o \in Tasks \ {t} : task'[o] = task[o]
         /\ Busy(t)' => SameRequest(t) /\ task'[t].guarded = task[t].guarded
         /\ LoadsAppend(t) \/ LoadsCommit(t) => task'[t].step = "loaded"
         /\ Opens(t) => task'[t].step = "open"
         /\ Trims(t) => task'[t].step = "trimmed"
         /\ Write(t) => task'[t].step = "written"
         /\ SyncData(t) => task'[t].step = "synced"
         /\ Checks(t) => task'[t].step = "verified"
         /\ Renames(t) => task'[t].step = "renamed"
         /\ Finds(t) \/ SyncParent(t) => task'[t].step = "placed"
         /\ Record(t) => task'[t].step = "recorded"
         /\ Moves(t) \/ RemovePart(t) => ~Busy(t)'
<1>1. Busy(t)
  BY WorkerIsBusy
<1>2. ASSUME NEW step \in Steps, Goto(t, step)
      PROVE  /\ \A o \in Tasks \ {t} : task'[o] = task[o]
             /\ SameRequest(t) /\ task'[t].guarded = task[t].guarded
             /\ task'[t].step = step
  BY <1>1, <1>2, GotoEffect
<1>3. ASSUME NEW next, Respond(t, next)
      PROVE  (\A o \in Tasks \ {t} : task'[o] = task[o]) /\ ~Busy(t)'
  BY <1>3, RespondEffect
<1>4. /\ LoadsAppend(t) \/ LoadsCommit(t) => Goto(t, "loaded")
      /\ Opens(t) => Goto(t, "open")
      /\ Trims(t) => Goto(t, "trimmed")
      /\ Write(t) => Goto(t, "written")
      /\ SyncData(t) => Goto(t, "synced")
  BY DEF LoadsAppend, LoadsCommit, Opens, Trims, Write, SyncData
<1>5. /\ Checks(t) => Goto(t, "verified")
      /\ Renames(t) => Goto(t, "renamed")
      /\ Finds(t) \/ SyncParent(t) => Goto(t, "placed")
      /\ Record(t) => Goto(t, "recorded")
  BY DEF Checks, Renames, Finds, SyncParent, Record
<1>6. Moves(t) \/ RemovePart(t) => \E next : Respond(t, next)
  BY DEF Moves, RemovePart
<1>7. {"loaded", "open", "trimmed", "written", "synced", "verified", "renamed", "placed",
       "recorded"} \subseteq Steps
  BY DEF Steps
<1>8. \/ \E step \in Steps : Goto(t, step)
      \/ \E next : Respond(t, next)
  BY <1>4, <1>5, <1>6, <1>7 DEF Works
<1>9. /\ \A o \in Tasks \ {t} : task'[o] = task[o]
      /\ Busy(t)' => SameRequest(t) /\ task'[t].guarded = task[t].guarded
  BY <1>2, <1>3, <1>8
<1>10. /\ LoadsAppend(t) \/ LoadsCommit(t) => task'[t].step = "loaded"
       /\ Opens(t) => task'[t].step = "open"
       /\ Trims(t) => task'[t].step = "trimmed"
       /\ Write(t) => task'[t].step = "written"
       /\ SyncData(t) => task'[t].step = "synced"
  BY <1>2, <1>4, <1>7
<1>11. /\ Checks(t) => task'[t].step = "verified"
       /\ Renames(t) => task'[t].step = "renamed"
       /\ Finds(t) \/ SyncParent(t) => task'[t].step = "placed"
       /\ Record(t) => task'[t].step = "recorded"
  BY <1>2, <1>5, <1>7
<1>12. Moves(t) \/ RemovePart(t) => ~Busy(t)'
  BY <1>3, <1>6
<1>13. QED
  BY <1>9, <1>10, <1>11, <1>12

\* Every step is quiet, begins an upload, does a work, or is a crash.
LEMMA StepStoreForms ==
  ASSUME TablesTypeOK, LoopInv, [Next]_vars
  PROVE  \/ Quiet
         \/ \E d \in Devices, b \in Blobs, u \in Uploads : Allocate(d, b, u)
         \/ \E t \in Tasks : Works(t)
         \/ Crash
<1>0. TaskTypeOK
  BY DEF LoopInv
<1>1. ASSUME NEW t \in Tasks, Busy(t), Error(t)
      PROVE  Quiet
  <2>1. ~Busy(t)' /\ \A o \in Tasks \ {t} : task'[o] = task[o]
    BY <1>0, <1>1, RespondEffect DEF Error
  <2>2. Steady
    BY <2>1 DEF Steady, SameRequest, Busy
  <2>3. QED
    BY <1>1, <2>2 DEF Error, Quiet
<1>2. ASSUME NEW t \in Tasks, AppendStep(t)
      PROVE  Quiet \/ Works(t)
  <2>1. Busy(t) /\ task[t].upload \in Uploads /\ task[t] \in Task
    <3>1. Busy(t)
      BY <1>2 DEF AppendStep, LoadAppend, OpenPart, Trim, Write, SyncData, Advance, At, Busy
    <3>2. QED
      BY <1>0, <3>1, TaskFields
  <2>2. CASE LoadAppend(t)
    BY <1>1, <2>1, <2>2 DEF LoadAppend, LoadsAppend, Works
  <2>3. CASE OpenPart(t)
    BY <1>1, <2>1, <2>3 DEF OpenPart, Opens, Works
  <2>4. CASE Trim(t)
    <3>1. CASE Len(file[task[t].upload]) < task[t].offset
      BY <1>1, <2>1, <2>4, <3>1 DEF Trim
    <3>2. CASE ~(Len(file[task[t].upload]) < task[t].offset)
      <4>1. Trims(t)
        BY <2>4, <3>2 DEF Trim, Trims, CutTo
      <4>2. QED
        BY <4>1 DEF Works
    <3>3. QED
      BY <3>1, <3>2
  <2>5. CASE Write(t) \/ SyncData(t)
    BY <2>5 DEF Works
  <2>6. CASE Advance(t)
    <3> DEFINE u == task[t].upload
               next == task[t].offset + 1
    <3>1. CASE uploads[u] # None /\ uploads[u].received = task[t].offset
      <4>1. uploads' = [uploads EXCEPT ![u].received = next]
        BY <2>6, <3>1 DEF Advance
      <4>2. uploads' = [uploads EXCEPT ![u] = [uploads[u] EXCEPT !.received = next]]
        BY <4>1
      <4>3. Moves(t)
        BY <2>6, <3>1, <4>2 DEF Advance, Moves, Advances
      <4>4. QED
        BY <4>3 DEF Works
    <3>2. CASE ~(uploads[u] # None /\ uploads[u].received = task[t].offset)
      BY <1>1, <2>1, <2>6, <3>2 DEF Advance
    <3>3. QED
      BY <3>1, <3>2
  <2>7. QED
    BY <1>2, <2>2, <2>3, <2>4, <2>5, <2>6 DEF AppendStep
<1>3. ASSUME NEW t \in Tasks, CommitStep(t)
      PROVE  Quiet \/ Works(t)
  <2>1. Busy(t)
    BY <1>3 DEF CommitStep, LoadCommit, VerifyObject, VerifyPart, Rename, SyncParent, Record,
                RemovePart, At, Busy
  <2>2. CASE LoadCommit(t)
    BY <1>1, <2>1, <2>2 DEF LoadCommit, LoadsCommit, Works
  <2>3. CASE VerifyObject(t)
    BY <1>1, <2>1, <2>3 DEF VerifyObject, Finds, Works
  <2>4. CASE VerifyPart(t)
    BY <1>1, <2>1, <2>4 DEF VerifyPart, Checks, Works
  <2>5. CASE Rename(t)
    BY <1>1, <2>1, <2>5 DEF Rename, Renames, Works
  <2>6. CASE SyncParent(t) \/ Record(t) \/ RemovePart(t)
    BY <2>6 DEF Works
  <2>7. QED
    BY <1>3, <2>2, <2>3, <2>4, <2>5, <2>6 DEF CommitStep
<1>4. ASSUME UNCHANGED <<storeVars, confirmed, task>>
      PROVE  Quiet
  BY <1>4 DEF Quiet, Steady, SameRequest, Busy
<1>5. ASSUME NEW d \in Devices, NEW b \in Blobs, NEW u \in Uploads, Resume(d, b, u)
      PROVE  Quiet
  BY <1>4, <1>5 DEF Resume
<1>6. ASSUME NEW d \in Devices, NEW t \in Tasks, Send(d, t)
      PROVE  Quiet
  <2>1. /\ UNCHANGED <<storeVars, confirmed>>
        /\ (\A o \in Tasks \ {t} : task'[o] = task[o])
        /\ task'[t].step = "queued"
    BY <1>0, <1>6 DEF Send, TaskTypeOK
  <2>2. QED
    BY <2>1 DEF Quiet, Steady, SameRequest, Busy
<1>7. ASSUME NEW d \in Devices, GiveUp(d)
      PROVE  Quiet
  <2>1. UNCHANGED <<storeVars, confirmed>>
    BY <1>7 DEF GiveUp
  <2>2. ASSUME NEW t \in Tasks, Busy(t)'
        PROVE  Busy(t) /\ SameRequest(t) /\ task'[t].step = task[t].step
    <3>1. task'[t] = IF Busy(t) /\ task[t].device = d
                     THEN [task[t] EXCEPT !.awaited = FALSE] ELSE task[t]
      BY <1>7 DEF GiveUp, Busy
    <3>2. CASE Busy(t)
      <4>1. task[t] \in Task
        BY <1>0, <3>2, TaskFields
      <4>2. QED
        BY <3>1, <3>2, <4>1 DEF Task, SameRequest
    <3>3. CASE ~Busy(t)
      BY <2>2, <3>1, <3>3 DEF Busy
    <3>4. QED
      BY <3>2, <3>3
  <2>3. QED
    BY <2>1, <2>2 DEF Quiet, Steady
<1>8. ASSUME NEW t \in Tasks, Drop(t)
      PROVE  Quiet
  <2> DEFINE new == IF task[t].step = "queued" THEN IdleTask
                    ELSE [task[t] EXCEPT !.guarded = FALSE, !.awaited = FALSE]
  <2>1. /\ UNCHANGED <<storeVars, confirmed>>
        /\ task'[t] = new
        /\ \A o \in Tasks \ {t} : task'[o] = task[o]
        /\ Busy(t)
    BY <1>0, <1>8 DEF Drop, TaskTypeOK, Busy
  <2>2. task[t] \in Task
    BY <1>0, <2>1, TaskFields
  <2>3. new.step # "idle" =>
          /\ new.step = task[t].step
          /\ new.op = task[t].op /\ new.device = task[t].device
          /\ new.upload = task[t].upload /\ new.blob = task[t].blob
          /\ new.offset = task[t].offset /\ new.chunk = task[t].chunk
    BY <2>2 DEF Task, IdleTask
  <2> HIDE DEF new
  <2>4. QED
    BY <2>1, <2>3 DEF Quiet, Steady, SameRequest, Busy
<1>9. ASSUME NEW t \in Tasks, Acquire(t)
      PROVE  Quiet
  <2>1. Busy(t) /\ "started" \in Steps /\ Goto(t, "started") /\ UNCHANGED storeVars
    BY <1>9 DEF Acquire, Busy, Steps
  <2>2. /\ task'[t].step = "started" /\ UNCHANGED confirmed
        /\ \A o \in Tasks \ {t} : task'[o] = task[o]
    BY <1>0, <2>1, GotoEffect
  <2>3. QED
    BY <2>1, <2>2 DEF Quiet, Steady, SameRequest, Busy
<1>10. ASSUME NEW d \in Devices, Register(d) \/ Revoke(d)
       PROVE  Quiet
  BY <1>4, <1>10 DEF Register, Revoke
<1>11. CASE UNCHANGED vars
  BY <1>4, <1>11 DEF vars
<1>12. QED
  BY <1>2, <1>3, <1>5, <1>6, <1>7, <1>8, <1>9, <1>10, <1>11
     DEF Next, BeginUpload, ServerStep

----------------------------------------------------------------------------
\* Files and directories.

FilesTypeOK ==
  /\ parts \subseteq Uploads
  /\ synced \in [Blobs -> Uploads \cup {None}]
  /\ renamed \in [Blobs -> Seq(Uploads)]
  /\ file \in [Uploads -> Seq(Bytes)]
  /\ disk \in [Uploads -> Seq(Bytes)]

\* The first n chunks of s are there, and none of them is a gap.
Sound(s, n) == n <= Len(s) /\ \A i \in 1 .. n : s[i] # "hole"

\* A chunk that is written leaves what is before it.
LEMMA WriteAtEffect ==
  ASSUME UploadsAssumption, NEW s \in Seq(Bytes), NEW at \in Nat, NEW chunk \in Chunks
  PROVE  /\ WriteAt(s, at, chunk) \in Seq(Bytes)
         /\ Sound(s, at) => Sound(WriteAt(s, at, chunk), at + 1)
<1> DEFINE n == IF Len(s) > at THEN Len(s) ELSE at + 1
           value(i) == IF i = at + 1 THEN chunk ELSE IF i \in DOMAIN s THEN s[i] ELSE "hole"
           content == [i \in 1 .. n |-> value(i)]
<1>1. Len(s) \in Nat /\ DOMAIN s = 1 .. Len(s) /\ \A i \in 1 .. Len(s) : s[i] \in Bytes
  BY LenProperties, ElementOfSeq
<1>2. n \in Nat /\ n >= at + 1 /\ n >= Len(s)
  BY <1>1
<1>3. chunk \in Bytes /\ chunk # "hole"
  BY DEF UploadsAssumption, Bytes
<1>4. \A i \in 1 .. n : value(i) \in Bytes
  BY <1>1, <1>3 DEF Bytes
<1>5. WriteAt(s, at, chunk) = content
  BY DEF WriteAt
<1> HIDE DEF n
<1>6. content \in Seq(Bytes) /\ Len(content) = n
  <2> HIDE DEF value
  <2>1. content \in [1 .. n -> Bytes]
    BY <1>4
  <2>2. QED
    BY <1>2, <2>1, LenProperties
<1>7. ASSUME Sound(s, at)
      PROVE  Sound(content, at + 1)
  <2>1. at <= Len(s) /\ \A i \in 1 .. at : s[i] # "hole"
    BY <1>7 DEF Sound
  <2>2. \A i \in 1 .. (at + 1) : i \in 1 .. n /\ content[i] # "hole"
    BY <1>1, <1>2, <1>3, <2>1
  <2>3. QED
    BY <1>2, <1>6, <2>2 DEF Sound
<1>8. QED
  BY <1>5, <1>6, <1>7

\* A part is cut to an offset that it reaches: it keeps what is before.
LEMMA CutEffect ==
  ASSUME NEW u, file[u] \in Seq(Bytes), NEW at \in Nat, ~(Len(file[u]) < at)
  PROVE  /\ CutTo(u, at) \in Seq(Bytes)
         /\ Sound(file[u], at) => Sound(CutTo(u, at), at)
<1>1. /\ Len(file[u]) \in Nat
      /\ \A i \in 1 .. Len(file[u]) : file[u][i] \in Bytes
  BY LenProperties, ElementOfSeq
<1>2. CASE Len(file[u]) > at
  <2> DEFINE content == SubSeq(file[u], 1, at)
  <2>1. CutTo(u, at) = content
    BY <1>2 DEF CutTo, Truncated
  <2>2. 1 \in Int /\ at \in Int /\ \A i \in 1 .. at : file[u][i] \in Bytes
    BY <1>1, <1>2
  <2>3. /\ content \in Seq(Bytes)
        /\ Len(content) = IF 1 <= at THEN at - 1 + 1 ELSE 0
        /\ \A i \in 1 .. (at - 1 + 1) : content[i] = file[u][1 + i - 1]
    BY <2>2, SubSeqProperties
  <2> HIDE DEF content
  <2>4. Len(content) = at /\ \A i \in 1 .. at : content[i] = file[u][i]
    BY <2>3
  <2>5. QED
    BY <2>1, <2>3, <2>4 DEF Sound
<1>3. CASE ~(Len(file[u]) > at)
  BY <1>3 DEF CutTo
<1>4. QED
  BY <1>2, <1>3

\* A crash keeps what was synced: a file of which all was is as it was.
LEMMA AfterCrashEffect ==
  ASSUME FilesTypeOK, NEW u \in Uploads, NEW s \in AfterCrash(u)
  PROVE  /\ s \in Seq(Bytes)
         /\ disk[u] = file[u] => s = file[u]
         /\ \A n \in Nat : Sound(disk[u], n) /\ Sound(file[u], n) => Sound(s, n)
<1> DEFINE value(i) == IF i \in DOMAIN disk[u] THEN disk[u][i] ELSE "hole"
           torn == [i \in DOMAIN file[u] |-> value(i)]
<1>1. /\ file[u] \in Seq(Bytes) /\ disk[u] \in Seq(Bytes)
      /\ Len(file[u]) \in Nat /\ DOMAIN file[u] = 1 .. Len(file[u])
      /\ Len(disk[u]) \in Nat /\ DOMAIN disk[u] = 1 .. Len(disk[u])
      /\ \A i \in 1 .. Len(disk[u]) : disk[u][i] \in Bytes
  <2>1. file[u] \in Seq(Bytes) /\ disk[u] \in Seq(Bytes)
    BY DEF FilesTypeOK
  <2>2. QED
    BY <2>1, LenProperties, ElementOfSeq
<1>2. s \in {disk[u], file[u], torn}
  BY DEF AfterCrash
<1>3. torn \in Seq(Bytes) /\ Len(torn) = Len(file[u])
  <2>1. \A i \in 1 .. Len(file[u]) : value(i) \in Bytes
    BY <1>1 DEF Bytes
  <2> HIDE DEF value
  <2>2. torn \in [1 .. Len(file[u]) -> Bytes]
    BY <1>1, <2>1
  <2>3. QED
    BY <1>1, <2>2, LenProperties
<1>4. disk[u] = file[u] => torn = file[u]
  <2> SUFFICES ASSUME disk[u] = file[u]
               PROVE  torn = file[u]
    OBVIOUS
  <2>1. \A i \in 1 .. Len(file[u]) : torn[i] = file[u][i]
    BY <1>1
  <2>2. QED
    BY <1>1, <1>3, <2>1, SeqEqual
<1>5. ASSUME NEW n \in Nat, Sound(disk[u], n), Sound(file[u], n)
      PROVE  Sound(torn, n)
  <2>1. n <= Len(file[u]) /\ n <= Len(disk[u]) /\ \A i \in 1 .. n : disk[u][i] # "hole"
    BY <1>5 DEF Sound
  <2>2. \A i \in 1 .. n : torn[i] = disk[u][i]
    BY <1>1, <2>1
  <2>3. QED
    BY <1>3, <2>1, <2>2 DEF Sound
<1> HIDE DEF torn
<1>6. QED
  BY <1>1, <1>2, <1>3, <1>4, <1>5

\* The file of an object is one of the files.
LEMMA ObjectType ==
  ASSUME FilesTypeOK, NEW b \in Blobs
  PROVE  /\ Object(b) \in Uploads \cup {None}
         /\ renamed[b] # <<>> => Len(renamed[b]) \in DOMAIN renamed[b]
         /\ \A i \in DOMAIN renamed[b] : renamed[b][i] \in Uploads
<1>1. synced[b] \in Uploads \cup {None} /\ renamed[b] \in Seq(Uploads)
  BY DEF FilesTypeOK
<1>2. \A i \in DOMAIN renamed[b] : renamed[b][i] \in Uploads
  BY <1>1, ElementOfSeq, LenProperties
<1>3. renamed[b] # <<>> => Len(renamed[b]) \in DOMAIN renamed[b]
  BY <1>1, EmptySeq, LenProperties
<1>4. QED
  BY <1>1, <1>2, <1>3 DEF Object

\* The numbers of renames that a crash may keep.
LEMMA KeptIsNumber ==
  ASSUME UploadsAssumption, NEW kept \in [Blobs -> 0 .. Cardinality(Uploads)], NEW b \in Blobs
  PROVE  kept[b] \in Nat
<1>1. Cardinality(Uploads) \in Nat
  BY FS_CardinalityType DEF UploadsAssumption
<1>2. QED
  BY <1>1

\* Every step keeps the types of files and directories.
LEMMA StepFiles ==
  ASSUME UploadsAssumption, TablesTypeOK, FilesTypeOK, LoopInv, [Next]_vars
  PROVE  FilesTypeOK'
<1>0. TaskTypeOK
  BY DEF LoopInv
<1>1. CASE Quiet
  BY <1>1 DEF Quiet, storeVars, FilesTypeOK
<1>2. ASSUME NEW d \in Devices, NEW b \in Blobs, NEW u \in Uploads, Allocate(d, b, u)
      PROVE  FilesTypeOK'
  <2>1. <<>> \in Seq(Bytes)
    OBVIOUS
  <2>2. QED
    BY <1>2, <2>1 DEF Allocate, FilesTypeOK
<1>3. ASSUME NEW t \in Tasks, Works(t)
      PROVE  FilesTypeOK'
  <2> DEFINE u == task[t].upload
             b == task[t].blob
             at == task[t].offset
  <2>0. /\ u \in Uploads /\ b \in Blobs /\ at \in Nat /\ task[t].chunk \in Chunks
        /\ file[u] \in Seq(Bytes) /\ disk[u] \in Seq(Bytes)
        /\ renamed[b] \in Seq(Uploads)
    BY <1>0, <1>3, WorkerIsBusy, TaskFields DEF FilesTypeOK
  <2>1. CASE LoadsAppend(t) \/ Opens(t) \/ LoadsCommit(t)
    BY <2>1 DEF LoadsAppend, Opens, LoadsCommit, storeVars, FilesTypeOK
  <2>2. CASE Trims(t)
    <3>1. CutTo(u, at) \in Seq(Bytes)
      BY <2>0, <2>2, CutEffect DEF Trims
    <3>2. QED
      BY <2>0, <2>2, <3>1 DEF Trims, FilesTypeOK
  <2>3. CASE Write(t)
    <3>1. WriteAt(file[u], at, task[t].chunk) \in Seq(Bytes)
      BY <2>0, WriteAtEffect
    <3>2. QED
      BY <2>3, <3>1 DEF Write, FilesTypeOK
  <2>4. CASE SyncData(t) \/ Checks(t)
    BY <2>0, <2>4 DEF SyncData, Checks, FilesTypeOK
  <2>5. CASE Moves(t) \/ Record(t)
    BY <2>5 DEF Moves, Record, FilesTypeOK
  <2>6. CASE Finds(t) \/ SyncParent(t)
    <3>1. Object(b) \in Uploads \cup {None} /\ <<>> \in Seq(Uploads)
      BY <2>0, ObjectType
    <3>2. Finds(t) => Object(b) \in Uploads
      BY <3>1 DEF Finds
    <3>3. /\ synced' = [synced EXCEPT ![b] = Object(b)]
          /\ renamed' = [renamed EXCEPT ![b] = <<>>]
      BY <2>6 DEF Finds, SyncParent, SyncEntry
    <3>4. synced' \in [Blobs -> Uploads \cup {None}] /\ renamed' \in [Blobs -> Seq(Uploads)]
      BY <3>1, <3>3 DEF FilesTypeOK
    <3>5. parts' = parts /\ file' = file /\ disk' \in [Uploads -> Seq(Bytes)]
      BY <2>6, <3>2 DEF Finds, SyncParent, FilesTypeOK
    <3>6. QED
      BY <3>4, <3>5 DEF FilesTypeOK
  <2>7. CASE Renames(t)
    <3>1. Append(renamed[b], u) \in Seq(Uploads)
      BY <2>0, AppendProperties
    <3>2. QED
      BY <2>7, <3>1 DEF Renames, FilesTypeOK
  <2>8. CASE RemovePart(t)
    BY <2>8 DEF RemovePart, FilesTypeOK
  <2>9. QED
    BY <1>3, <2>1, <2>2, <2>3, <2>4, <2>5, <2>6, <2>7, <2>8 DEF Works
<1>4. CASE Crash
  <2>1. PICK kept \in [Blobs -> 0 .. Cardinality(Uploads)] :
          /\ \A b \in Blobs : kept[b] <= Len(renamed[b])
          /\ synced' = [b \in Blobs |->
                          IF kept[b] = 0 THEN synced[b] ELSE renamed[b][kept[b]]]
          /\ parts' = parts \cup UNION
               {{renamed[b][i] : i \in (kept[b] + 1) .. Len(renamed[b])} : b \in Blobs}
    BY <1>4 DEF Crash
  <2>2. ASSUME NEW b \in Blobs
        PROVE  /\ kept[b] \in Nat
               /\ renamed[b] \in Seq(Uploads)
               /\ \A i \in 1 .. Len(renamed[b]) : renamed[b][i] \in Uploads
    <3>1. renamed[b] \in Seq(Uploads)
      BY DEF FilesTypeOK
    <3>2. QED
      BY <3>1, KeptIsNumber, ElementOfSeq
  <2>3. ASSUME NEW b \in Blobs
        PROVE  (IF kept[b] = 0 THEN synced[b] ELSE renamed[b][kept[b]]) \in Uploads \cup {None}
    <3>1. kept[b] # 0 => kept[b] \in 1 .. Len(renamed[b])
      BY <2>1, <2>2, LenProperties
    <3>2. QED
      BY <2>2, <3>1 DEF FilesTypeOK
  <2>4. synced' \in [Blobs -> Uploads \cup {None}]
    BY <2>1, <2>3
  <2>5. ASSUME NEW b \in Blobs, NEW i \in (kept[b] + 1) .. Len(renamed[b])
        PROVE  renamed[b][i] \in Uploads
    <3>1. Len(renamed[b]) \in Nat /\ kept[b] \in Nat
      BY <2>2, LenProperties
    <3>2. i \in 1 .. Len(renamed[b])
      BY <3>1
    <3>3. QED
      BY <2>2, <3>2
  <2>6. parts' \subseteq Uploads
    BY <2>1, <2>5 DEF FilesTypeOK
  <2>7. file' \in [Uploads -> Seq(Bytes)] /\ disk' = file'
    <3>1. \A u \in Uploads : file'[u] \in Seq(Bytes)
      BY <1>4, AfterCrashEffect DEF Crash
    <3>2. \E S : file' \in [Uploads -> S]
      BY <1>4 DEF Crash
    <3>3. QED
      BY <1>4, <3>1, <3>2 DEF Crash
  <2>8. <<>> \in Seq(Uploads) /\ renamed' = [b \in Blobs |-> <<>>]
    BY <1>4 DEF Crash
  <2>9. renamed' \in [Blobs -> Seq(Uploads)]
    BY <2>8
  <2>10. QED
    BY <2>4, <2>6, <2>7, <2>9 DEF FilesTypeOK
<1>5. QED
  BY <1>1, <1>2, <1>3, <1>4, StepStoreForms

----------------------------------------------------------------------------
\* Upload rows.

\* Whatever has the number of an upload means the row of that upload.
RowsMatch ==
  /\ \A u \in Live : uploads[u].received <= Size[uploads[u].blob]
  /\ \A d \in Devices : client[d].upload \in Live =>
       /\ uploads[client[d].upload].device = d
       /\ uploads[client[d].upload].blob = client[d].blob
  /\ \A t \in Tasks : Busy(t) /\ task[t].upload \in Live =>
       /\ uploads[task[t].upload].device = task[t].device
       /\ uploads[task[t].upload].blob = task[t].blob

\* A chunk that is being appended is one of the ciphertext.
Appending == {"loaded", "open", "trimmed", "written", "synced"}

ChunksFit ==
  \A t \in Tasks : Busy(t) /\ task[t].op = "append" /\ task[t].step \in Appending =>
    task[t].offset + 1 <= Size[task[t].blob]

RowInv == TablesTypeOK /\ RowsMatch /\ ChunksFit

\* A row is new, or has the device and the ciphertext of before.
RowsCome ==
  \A u \in Uploads : uploads'[u] # None =>
    \/ u \in Unused
    \/ /\ uploads[u] # None
       /\ uploads'[u].device = uploads[u].device
       /\ uploads'[u].blob = uploads[u].blob

\* What a step does to the rows, in short.
RowForms ==
  \/ uploads' = uploads
  \/ \E d \in Devices, b \in Blobs, u \in Unused :
       /\ Allocate(d, b, u)
       /\ uploads' = [uploads EXCEPT ![u] = [device |-> d, blob |-> b, received |-> 0]]
  \/ \E t \in Tasks : Moves(t)
  \/ \E t \in Tasks : Busy(t) /\ uploads' = [uploads EXCEPT ![task[t].upload] = None]

\* Every step changes at most one row.
LEMMA StepRowForms ==
  ASSUME TablesTypeOK, LoopInv, [Next]_vars
  PROVE  RowForms
<1>1. CASE Quiet \/ Crash
  BY <1>1 DEF Quiet, Crash, storeVars, RowForms
<1>2. ASSUME NEW d \in Devices, NEW b \in Blobs, NEW u \in Uploads, Allocate(d, b, u)
      PROVE  RowForms
  BY <1>2 DEF Allocate, RowForms
<1>3. ASSUME NEW t \in Tasks, Works(t)
      PROVE  RowForms
  <2>1. CASE LoadsAppend(t) \/ Opens(t) \/ LoadsCommit(t)
    BY <2>1 DEF LoadsAppend, Opens, LoadsCommit, storeVars, RowForms
  <2>2. CASE \/ Trims(t) \/ Write(t) \/ SyncData(t) \/ Finds(t) \/ Checks(t) \/ Renames(t)
             \/ SyncParent(t) \/ RemovePart(t)
    BY <2>2 DEF Trims, Write, SyncData, Finds, Checks, Renames, SyncParent, RemovePart, RowForms
  <2>3. CASE Moves(t)
    BY <2>3 DEF RowForms
  <2>4. CASE Record(t)
    BY <1>3, <2>4, WorkerIsBusy DEF Record, RowForms
  <2>5. QED
    BY <1>3, <2>1, <2>2, <2>3, <2>4 DEF Works
<1>4. QED
  BY <1>1, <1>2, <1>3, StepStoreForms

\* An offset moves by one chunk of the ciphertext.
LEMMA MovesEffect ==
  ASSUME RowInv, LoopInv, SizeAssumption, NEW t \in Tasks, Moves(t)
  PROVE  LET u == task[t].upload
         IN /\ u \in Live
            /\ uploads'[u] \in UploadRow
            /\ uploads'[u].device = uploads[u].device
            /\ uploads'[u].blob = uploads[u].blob
            /\ uploads[u].received = task[t].offset
            /\ uploads'[u].received = task[t].offset + 1
            /\ uploads'[u].received <= Size[uploads[u].blob]
            /\ \A o \in Uploads \ {u} : uploads'[o] = uploads[o]
            /\ uploads' \in [Uploads -> UploadRow \cup {None}]
<1> DEFINE u == task[t].upload
           next == task[t].offset + 1
           row == [uploads[u] EXCEPT !.received = next]
<1>1. Busy(t)
  BY WorkerIsBusy DEF Works
<1>2. /\ task[t].offset \in Nat /\ u \in Uploads
      /\ uploads[u] # None /\ uploads[u].received = task[t].offset
      /\ uploads' = [uploads EXCEPT ![u] = row]
  BY <1>1, TaskFields DEF Moves, LoopInv
<1>3. uploads[u] \in UploadRow /\ u \in Live
  BY <1>2 DEF RowInv, TablesTypeOK, Live
<1>4. /\ row \in UploadRow /\ row.received = next
      /\ row.device = uploads[u].device /\ row.blob = uploads[u].blob
  BY <1>2, <1>3 DEF UploadRow
<1>5. next <= Size[uploads[u].blob]
  <2>1. task[t].op = "append" /\ task[t].step = "synced"
    BY DEF Moves, At
  <2>2. next <= Size[task[t].blob]
    BY <1>1, <2>1 DEF RowInv, ChunksFit, Appending
  <2>3. uploads[u].blob = task[t].blob
    BY <1>1, <1>3 DEF RowInv, RowsMatch
  <2>4. QED
    BY <2>2, <2>3
<1> HIDE DEF row
<1>6. QED
  BY <1>2, <1>3, <1>4, <1>5 DEF RowInv, TablesTypeOK

\* Every step keeps what rows are about.
LEMMA StepRowsCome ==
  ASSUME RowInv, LoopInv, SizeAssumption, [Next]_vars
  PROVE  /\ RowsCome
         /\ uploads' \in [Uploads -> UploadRow \cup {None}]
         /\ \A u \in Live' : uploads'[u].received <= Size[uploads'[u].blob]
<1>0. /\ RowForms
      /\ uploads \in [Uploads -> UploadRow \cup {None}]
      /\ \A u \in Live : uploads[u].received <= Size[uploads[u].blob]
  BY StepRowForms DEF RowInv, TablesTypeOK, RowsMatch
<1>1. CASE uploads' = uploads
  BY <1>0, <1>1 DEF RowsCome, Live
<1>2. ASSUME NEW d \in Devices, NEW b \in Blobs, NEW u \in Unused,
             uploads' = [uploads EXCEPT ![u] = [device |-> d, blob |-> b, received |-> 0]]
      PROVE  /\ RowsCome
             /\ uploads' \in [Uploads -> UploadRow \cup {None}]
             /\ \A o \in Live' : uploads'[o].received <= Size[uploads'[o].blob]
  <2> DEFINE row == [device |-> d, blob |-> b, received |-> 0]
  <2>1. row \in UploadRow /\ row.blob = b /\ row.received = 0
    BY DEF UploadRow
  <2>2. Size[b] \in Nat /\ u \in Uploads
    BY DEF SizeAssumption, Unused
  <2> HIDE DEF row
  <2>3. uploads'[u] = row /\ \A o \in Uploads \ {u} : uploads'[o] = uploads[o]
    BY <1>0, <1>2, <2>2 DEF row
  <2>4. uploads' = [uploads EXCEPT ![u] = row]
    BY <1>2 DEF row
  <2>5. uploads' \in [Uploads -> UploadRow \cup {None}]
    BY <1>0, <2>1, <2>4
  <2>6. RowsCome
    BY <2>3 DEF RowsCome
  <2>7. \A o \in Live' : uploads'[o].received <= Size[uploads'[o].blob]
    BY <1>0, <2>1, <2>2, <2>3 DEF Live
  <2>8. QED
    BY <2>5, <2>6, <2>7
<1>3. ASSUME NEW t \in Tasks, Moves(t)
      PROVE  /\ RowsCome
             /\ uploads' \in [Uploads -> UploadRow \cup {None}]
             /\ \A o \in Live' : uploads'[o].received <= Size[uploads'[o].blob]
  BY <1>0, <1>3, MovesEffect DEF RowsCome, Live
<1>4. ASSUME NEW u, uploads' = [uploads EXCEPT ![u] = None]
      PROVE  /\ RowsCome
             /\ uploads' \in [Uploads -> UploadRow \cup {None}]
             /\ \A o \in Live' : uploads'[o].received <= Size[uploads'[o].blob]
  BY <1>0, <1>4 DEF RowsCome, Live
<1>5. QED
  BY <1>0, <1>1, <1>2, <1>3, <1>4 DEF RowForms

\* Every step keeps the rows as they are meant.
LEMMA StepRows ==
  ASSUME UploadsAssumption, SizeAssumption, RowInv, LoopInv, [Next]_vars
  PROVE  RowInv'
<1>0. TablesTypeOK /\ TasksCome /\ ClientsCome /\ RowsCome /\ None \notin Uploads
  BY StepLoop, StepRowsCome DEF RowInv, UploadsAssumption
<1>1. TaskTypeOK /\ TaskTypeOK' /\ ClientTypeOK /\ ClientTypeOK'
  BY <1>0, StepLoop DEF LoopInv
<1>2. TablesTypeOK'
  <2>1. uploads' \in [Uploads -> UploadRow \cup {None}]
    BY StepRowsCome
  <2>2. active' \subseteq Devices
    <3>1. active' = active \/ \E d \in Devices : active' = active \cup {d} \/ active' = active \ {d}
      <4>1. CASE UNCHANGED vars \/ Crash
        BY <4>1 DEF vars, Crash
      <4>2. ASSUME NEW d \in Devices, NEW b \in Blobs, NEW u \in Uploads,
                   Resume(d, b, u) \/ Allocate(d, b, u)
            PROVE  active' = active
        BY <4>2 DEF Resume, Allocate
      <4>3. ASSUME NEW d \in Devices, NEW t \in Tasks, Send(d, t) \/ GiveUp(d) \/ Drop(t)
            PROVE  active' = active
        BY <4>3 DEF Send, GiveUp, Drop
      <4>4. ASSUME NEW d \in Devices, Register(d) \/ Revoke(d)
            PROVE  active' = active \cup {d} \/ active' = active \ {d}
        BY <4>4 DEF Register, Revoke
      <4>5. ASSUME NEW t \in Tasks, Acquire(t) \/ AppendStep(t)
            PROVE  active' = active
        BY <4>5 DEF Acquire, AppendStep, LoadAppend, OpenPart, Trim, Write, SyncData, Advance,
                    Goto, Error
      <4>6. ASSUME NEW t \in Tasks, CommitStep(t)
            PROVE  active' = active
        BY <4>6 DEF CommitStep, LoadCommit, VerifyObject, VerifyPart, Rename, SyncParent,
                    Record, RemovePart, Goto, Error
      <4>7. ASSUME NEW d \in Devices, GiveUp(d)
            PROVE  active' = active
        BY <4>7 DEF GiveUp
      <4>8. ASSUME NEW t \in Tasks, Drop(t)
            PROVE  active' = active
        BY <4>8 DEF Drop
      <4>9. QED
        BY <4>1, <4>2, <4>3, <4>4, <4>5, <4>6, <4>7, <4>8 DEF Next, BeginUpload, ServerStep
    <3>2. QED
      BY <1>0, <3>1 DEF TablesTypeOK
  <2>3. blobs' \subseteq Blobs /\ confirmed' \subseteq Devices \X Blobs
    <3>1. CASE Quiet \/ Crash
      BY <1>0, <3>1 DEF Quiet, storeVars, Crash, TablesTypeOK
    <3>2. ASSUME NEW d \in Devices, NEW b \in Blobs, NEW u \in Uploads, Allocate(d, b, u)
          PROVE  blobs' \subseteq Blobs /\ confirmed' \subseteq Devices \X Blobs
      BY <1>0, <3>2 DEF Allocate, TablesTypeOK
    <3>3. ASSUME NEW t \in Tasks, Works(t)
          PROVE  blobs' \subseteq Blobs /\ confirmed' \subseteq Devices \X Blobs
      <4>1. task[t].blob \in Blobs /\ task[t].device \in Devices
        BY <1>1, <3>3, WorkerIsBusy, TaskFields
      <4>2. CASE Record(t) \/ RemovePart(t)
        BY <1>0, <4>1, <4>2 DEF Record, RemovePart, Goto, TablesTypeOK
      <4>3. CASE LoadsAppend(t) \/ Opens(t) \/ Trims(t) \/ Write(t) \/ SyncData(t) \/ Moves(t)
        BY <1>0, <4>3 DEF LoadsAppend, Opens, Trims, Write, SyncData, Moves, Goto, storeVars,
                          TablesTypeOK
      <4>4. CASE LoadsCommit(t) \/ Finds(t) \/ Checks(t) \/ Renames(t) \/ SyncParent(t)
        BY <1>0, <4>4 DEF LoadsCommit, Finds, Checks, Renames, SyncParent, Goto, storeVars,
                          TablesTypeOK
      <4>5. QED
        BY <3>3, <4>2, <4>3, <4>4 DEF Works
    <3>4. QED
      BY <1>0, <3>1, <3>2, <3>3, StepStoreForms
  <2>4. QED
    BY <2>1, <2>2, <2>3 DEF TablesTypeOK
<1>3. ASSUME NEW d \in Devices, client'[d].upload \in Live'
      PROVE  /\ uploads'[client'[d].upload].device = d
             /\ uploads'[client'[d].upload].blob = client'[d].blob
  <2> DEFINE u == client'[d].upload
  <2>0. u \in Uploads /\ u # None /\ uploads'[u] # None
    BY <1>0, <1>3 DEF Live
  <2>1. CASE u = client[d].upload /\ client'[d].blob = client[d].blob
    <3>1. u \notin Unused
      BY <2>1 DEF Unused
    <3>2. /\ uploads[u] # None
          /\ uploads'[u].device = uploads[u].device
          /\ uploads'[u].blob = uploads[u].blob
      BY <1>0, <2>0, <3>1 DEF RowsCome
    <3>3. QED
      BY <2>0, <2>1, <3>2 DEF RowInv, RowsMatch, Live
  <2>2. ASSUME NEW b \in Blobs, NEW o \in Uploads, NEW offset \in Nat,
               Begins(d, b, o), Allocated(d, b, o, offset)
        PROVE  /\ uploads'[u].device = d
               /\ uploads'[u].blob = client'[d].blob
    <3>1. u = o /\ client'[d].blob = b
      BY <1>1, <2>2 DEF Allocated, ClientTypeOK
    <3>2. CASE Resume(d, b, o)
      BY <3>1, <3>2 DEF Resume, storeVars, Matching, UploadsOf
    <3>3. CASE Allocate(d, b, o)
      <4>1. uploads'[o] = [device |-> d, blob |-> b, received |-> 0]
        BY <1>0, <3>3 DEF Allocate, TablesTypeOK
      <4>2. QED
        BY <3>1, <4>1
    <3>4. QED
      BY <2>2, <3>2, <3>3 DEF Begins
  <2>3. QED
    BY <1>0, <2>0, <2>1, <2>2 DEF ClientsCome
<1>4. ASSUME NEW t \in Tasks, Busy(t)', task'[t].upload \in Live'
      PROVE  /\ uploads'[task'[t].upload].device = task'[t].device
             /\ uploads'[task'[t].upload].blob = task'[t].blob
  <2> DEFINE u == task'[t].upload
  <2>0. u \in Uploads /\ uploads'[u] # None
    BY <1>4 DEF Live
  <2>1. CASE Busy(t) /\ SameRequest(t)
    <3>1. u = task[t].upload /\ u \notin Unused
      BY <2>1 DEF SameRequest, Unused
    <3>2. /\ uploads[u] # None
          /\ uploads'[u].device = uploads[u].device
          /\ uploads'[u].blob = uploads[u].blob
      BY <1>0, <2>0, <3>1 DEF RowsCome
    <3>3. QED
      BY <2>0, <2>1, <3>1, <3>2 DEF RowInv, RowsMatch, Live, SameRequest
  <2>2. ASSUME NEW d \in Devices, task'[t].device = d, task'[t].upload = client[d].upload,
               task'[t].blob = client[d].blob
        PROVE  /\ uploads'[u].device = task'[t].device
               /\ uploads'[u].blob = task'[t].blob
    <3>1. u = client[d].upload /\ u \notin Unused
      BY <2>2 DEF Unused
    <3>2. /\ uploads[u] # None
          /\ uploads'[u].device = uploads[u].device
          /\ uploads'[u].blob = uploads[u].blob
      BY <1>0, <2>0, <3>1 DEF RowsCome
    <3>3. QED
      BY <2>0, <2>2, <3>1, <3>2 DEF RowInv, RowsMatch, Live
  <2>3. QED
    BY <1>0, <1>4, <2>1, <2>2 DEF TasksCome
<1>5. RowsMatch'
  BY <1>3, <1>4, StepRowsCome DEF RowsMatch
<1>6. ASSUME NEW t \in Tasks, Busy(t)', task'[t].op = "append", task'[t].step \in Appending
      PROVE  task'[t].offset + 1 <= Size[task'[t].blob]
  <2>1. CASE Busy(t) /\ SameRequest(t) /\ task[t].step \in Appending
    BY <1>6, <2>1 DEF SameRequest, RowInv, ChunksFit
  <2>2. CASE Quiet
    BY <1>6, <2>1, <2>2 DEF Quiet, Steady, Appending
  <2>3. CASE UNCHANGED task
    BY <1>6, <2>1, <2>3 DEF Busy, SameRequest
  <2>4. ASSUME NEW o \in Tasks, Works(o)
        PROVE  task'[t].offset + 1 <= Size[task'[t].blob]
    <3>1. Busy(o)
      BY <2>4, WorkerIsBusy
    <3>2. \A p \in Tasks \ {o} : task'[p] = task[p]
      BY <1>1, <2>4, WorkerMoves
    <3>4. CASE t # o
      BY <1>6, <2>1, <3>2, <3>4 DEF Busy, SameRequest
    <3>5. CASE t = o
      <4>1. SameRequest(t)
        BY <1>1, <1>6, <2>4, <3>5, WorkerMoves
      <4>2. CASE LoadsAppend(t)
        BY <4>1, <4>2 DEF LoadsAppend, SameRequest
      <4>3. CASE Opens(t) \/ Trims(t) \/ Write(t) \/ SyncData(t) \/ Moves(t)
        BY <2>1, <3>1, <3>5, <4>1, <4>3 DEF Opens, Trims, Write, SyncData, Moves, At, Appending
      <4>4. CASE \/ LoadsCommit(t) \/ Finds(t) \/ Checks(t) \/ Renames(t) \/ SyncParent(t)
                 \/ Record(t) \/ RemovePart(t)
        <5>1. task[t].op = "commit"
          BY <4>4 DEF LoadsCommit, Finds, Checks, Renames, SyncParent, Record, RemovePart, At
        <5>2. QED
          BY <1>6, <4>1, <5>1 DEF SameRequest
      <4>5. QED
        BY <2>4, <3>5, <4>2, <4>3, <4>4 DEF Works
    <3>6. QED
      BY <3>4, <3>5
  <2>5. CASE Crash
    <3>1. ~Busy(t)'
      BY <2>5 DEF Crash, Busy, IdleTask
    <3>2. QED
      BY <1>6, <3>1
  <2>6. QED
    BY <1>0, <2>2, <2>3, <2>4, <2>5, StepStoreForms DEF Allocate
<1>7. QED
  BY <1>2, <1>5, <1>6 DEF RowInv, ChunksFit

----------------------------------------------------------------------------
\* The names of objects.

\* What is recorded has a name that outlives crashes, and what is confirmed is recorded;
\* a commit that has come so far has placed its object.
NameInv ==
  /\ \A p \in confirmed : p[2] \in blobs
  /\ \A b \in blobs : synced[b] # None
  /\ \A t \in Tasks : Busy(t) /\ task[t].op = "commit" =>
       /\ task[t].step \in {"placed", "recorded"} => synced[task[t].blob] # None
       /\ task[t].step = "recorded" => task[t].blob \in blobs
       /\ task[t].step = "renamed" => Object(task[t].blob) # None

\* An object that is renamed to, or synced, still is there.
LEMMA StepObjects ==
  ASSUME UploadsAssumption, TablesTypeOK, FilesTypeOK, LoopInv, [Next]_vars, NEW b \in Blobs
  PROVE  /\ synced[b] # None => synced'[b] # None
         /\ Object(b) # None /\ ~Crash => Object(b)' # None
<1>0. /\ synced \in [Blobs -> Uploads \cup {None}]
      /\ renamed \in [Blobs -> Seq(Uploads)]
      /\ None \notin Uploads
      /\ TaskTypeOK
  BY DEF FilesTypeOK, UploadsAssumption, LoopInv
<1>1. CASE UNCHANGED <<synced, renamed>>
  BY <1>1 DEF Object
<1>2. ASSUME NEW t \in Tasks, Finds(t) \/ SyncParent(t)
      PROVE  /\ synced[b] # None => synced'[b] # None
             /\ Object(b)' = Object(b)
  <2> DEFINE c == task[t].blob
  <2>1. c \in Blobs
    <3>1. Busy(t)
      BY <1>2, WorkerIsBusy DEF Works
    <3>2. QED
      BY <1>0, <3>1, TaskFields
  <2>2. /\ synced' = [synced EXCEPT ![c] = Object(c)]
        /\ renamed' = [renamed EXCEPT ![c] = <<>>]
    BY <1>2 DEF Finds, SyncParent, SyncEntry
  <2>3. CASE b = c
    <3>1. synced'[b] = Object(b) /\ renamed'[b] = <<>>
      BY <1>0, <2>1, <2>2, <2>3
    <3>2. synced[b] # None => Object(b) # None
      BY <1>0, ObjectType DEF Object
    <3>3. QED
      BY <3>1, <3>2 DEF Object
  <2>4. CASE b # c
    BY <1>0, <2>1, <2>2, <2>4 DEF Object
  <2>5. QED
    BY <2>3, <2>4
<1>3. ASSUME NEW t \in Tasks, Renames(t)
      PROVE  /\ synced[b] # None => synced'[b] # None
             /\ Object(b) # None => Object(b)' # None
  <2> DEFINE c == task[t].blob
             u == task[t].upload
  <2>1. c \in Blobs /\ u \in Uploads
    <3>1. Busy(t)
      BY <1>3, WorkerIsBusy DEF Works
    <3>2. QED
      BY <1>0, <3>1, TaskFields
  <2>2. synced' = synced /\ renamed' = [renamed EXCEPT ![c] = Append(renamed[c], u)]
    BY <1>3 DEF Renames
  <2>3. CASE b = c
    <3> DEFINE queue == Append(renamed[b], u)
    <3>1. queue # <<>> /\ queue[Len(queue)] = u
      BY <1>0, <2>1, AppendProperties
    <3>2. renamed'[b] = queue
      BY <1>0, <2>2, <2>3
    <3> HIDE DEF queue
    <3>3. Object(b)' = u
      BY <3>1, <3>2 DEF Object
    <3>4. QED
      BY <1>0, <2>1, <2>2, <3>3
  <2>4. CASE b # c
    BY <1>0, <2>1, <2>2, <2>4 DEF Object
  <2>5. QED
    BY <2>3, <2>4
<1>4. ASSUME Crash
      PROVE  synced[b] # None => synced'[b] # None
  <2>1. PICK kept \in [Blobs -> 0 .. Cardinality(Uploads)] :
          /\ \A c \in Blobs : kept[c] <= Len(renamed[c])
          /\ synced' = [c \in Blobs |->
                          IF kept[c] = 0 THEN synced[c] ELSE renamed[c][kept[c]]]
    BY <1>4 DEF Crash
  <2>2. synced'[b] = IF kept[b] = 0 THEN synced[b] ELSE renamed[b][kept[b]]
    BY <2>1
  <2>3. kept[b] # 0 => kept[b] \in DOMAIN renamed[b]
    BY <1>0, <2>1, KeptIsNumber, LenProperties
  <2>4. QED
    BY <1>0, <2>2, <2>3, ObjectType
<1>5. ASSUME NEW t \in Tasks, Works(t), ~(Finds(t) \/ SyncParent(t) \/ Renames(t))
      PROVE  UNCHANGED <<synced, renamed>>
  <2>1. CASE LoadsAppend(t) \/ Opens(t) \/ LoadsCommit(t)
    BY <2>1 DEF LoadsAppend, Opens, LoadsCommit, storeVars
  <2>2. CASE \/ Trims(t) \/ Write(t) \/ SyncData(t) \/ Moves(t) \/ Checks(t) \/ Record(t)
             \/ RemovePart(t)
    BY <2>2 DEF Trims, Write, SyncData, Moves, Checks, Record, RemovePart
  <2>3. QED
    BY <1>5, <2>1, <2>2 DEF Works
<1>6. CASE Quiet \/ \E d \in Devices, c \in Blobs, u \in Uploads : Allocate(d, c, u)
  BY <1>1, <1>6 DEF Quiet, storeVars, Allocate
<1>7. QED
  BY <1>1, <1>2, <1>3, <1>4, <1>5, <1>6, StepStoreForms

\* What is recorded stays recorded.
LEMMA StepBlobs ==
  ASSUME TablesTypeOK, LoopInv, [Next]_vars
  PROVE  /\ \/ blobs' = blobs
            \/ \E t \in Tasks : Record(t) /\ blobs' = blobs \cup {task[t].blob}
         /\ \/ confirmed' = confirmed
            \/ \E t \in Tasks : /\ RemovePart(t)
                                /\ confirmed' = confirmed \cup {<<task[t].device, task[t].blob>>}
<1>1. CASE Quiet \/ Crash
  BY <1>1 DEF Quiet, Crash, storeVars
<1>2. ASSUME NEW d \in Devices, NEW b \in Blobs, NEW u \in Uploads, Allocate(d, b, u)
      PROVE  blobs' = blobs /\ confirmed' = confirmed
  BY <1>2 DEF Allocate
<1>3. ASSUME NEW t \in Tasks,
             LoadsAppend(t) \/ Opens(t) \/ Trims(t) \/ Write(t) \/ SyncData(t) \/ Moves(t)
      PROVE  blobs' = blobs /\ confirmed' = confirmed
  BY <1>3 DEF LoadsAppend, Opens, Trims, Write, SyncData, Moves, storeVars, Goto
<1>4. ASSUME NEW t \in Tasks,
             LoadsCommit(t) \/ Finds(t) \/ Checks(t) \/ Renames(t) \/ SyncParent(t)
      PROVE  blobs' = blobs /\ confirmed' = confirmed
  BY <1>4 DEF LoadsCommit, Finds, Checks, Renames, SyncParent, storeVars, Goto
<1>5. ASSUME NEW t \in Tasks, Record(t)
      PROVE  blobs' = blobs \cup {task[t].blob} /\ confirmed' = confirmed
  BY <1>5 DEF Record, Goto
<1>6. ASSUME NEW t \in Tasks, RemovePart(t)
      PROVE  /\ blobs' = blobs
             /\ \/ confirmed' = confirmed
                \/ confirmed' = confirmed \cup {<<task[t].device, task[t].blob>>}
  BY <1>6 DEF RemovePart
<1>7. QED
  BY <1>1, <1>2, <1>3, <1>4, <1>5, <1>6, StepStoreForms DEF Works

\* Every step keeps the names.
LEMMA StepNames ==
  ASSUME UploadsAssumption, TablesTypeOK, FilesTypeOK, LoopInv, NameInv, [Next]_vars
  PROVE  NameInv'
<1>0. TaskTypeOK /\ TaskTypeOK' /\ None \notin Uploads
  BY StepLoop DEF LoopInv, UploadsAssumption
<1>1. blobs \subseteq Blobs /\ blobs \subseteq blobs'
  BY StepBlobs DEF TablesTypeOK
<1>2. ASSUME NEW t \in Tasks, Record(t) \/ RemovePart(t)
      PROVE  /\ task[t].blob \in Blobs
             /\ synced[task[t].blob] # None
             /\ RemovePart(t) => task[t].blob \in blobs
  <2>1. Busy(t) /\ task[t].op = "commit" /\ task[t].step \in {"placed", "recorded"}
    BY <1>2, WorkerIsBusy DEF Works, Record, RemovePart, At
  <2>2. RemovePart(t) => task[t].step = "recorded"
    BY DEF RemovePart, At
  <2>3. QED
    BY <1>0, <2>1, <2>2, TaskFields DEF NameInv
<1>3. \A p \in confirmed' : p[2] \in blobs'
  BY <1>1, <1>2, StepBlobs DEF NameInv
<1>4. \A b \in blobs' : synced'[b] # None
  BY <1>1, <1>2, StepBlobs, StepObjects DEF NameInv
<1>5. ASSUME NEW t \in Tasks, Busy(t)', task'[t].op = "commit"
      PROVE  /\ task'[t].step \in {"placed", "recorded"} => synced'[task'[t].blob] # None
             /\ task'[t].step = "recorded" => task'[t].blob \in blobs'
             /\ task'[t].step = "renamed" => Object(task[t].blob)' # None
  <2> DEFINE b == task[t].blob
  <2>1. CASE Crash
    BY <1>5, <2>1 DEF Crash, Busy, IdleTask
  <2>2. CASE Busy(t) /\ SameRequest(t) /\ task'[t].step = task[t].step /\ ~Crash
    <3>1. b \in Blobs
      BY <1>0, <2>2, TaskFields
    <3>2. /\ task[t].step \in {"placed", "recorded"} => synced[b] # None
          /\ task[t].step = "recorded" => b \in blobs
          /\ task[t].step = "renamed" => Object(b) # None
      BY <1>5, <2>2 DEF NameInv, SameRequest
    <3>3. QED
      BY <1>1, <2>2, <3>1, <3>2, StepObjects DEF SameRequest
  <2>3. CASE Quiet /\ ~Crash
    BY <1>5, <2>2, <2>3 DEF Quiet, Steady
  <2>4. CASE UNCHANGED task /\ ~Crash
    BY <1>5, <2>2, <2>4 DEF Busy, SameRequest
  <2>5. ASSUME NEW o \in Tasks, Works(o), ~Crash
        PROVE  /\ task'[t].step \in {"placed", "recorded"} => synced'[task'[t].blob] # None
               /\ task'[t].step = "recorded" => task'[t].blob \in blobs'
               /\ task'[t].step = "renamed" => Object(task[t].blob)' # None
    <3>1. CASE t # o
      <4>1. task'[t] = task[t]
        BY <1>0, <2>5, <3>1, WorkerMoves
      <4>2. QED
        BY <1>5, <2>2, <2>5, <4>1 DEF Busy, SameRequest
    <3>2. CASE t = o
      <4>1. /\ Busy(t) /\ SameRequest(t) /\ b \in Blobs /\ task[t].upload \in Uploads
            /\ task'[t].blob = b
        BY <1>0, <1>5, <2>5, <3>2, WorkerIsBusy, WorkerMoves, TaskFields DEF SameRequest
      <4>2. CASE Renames(t)
        <5>1. task'[t].step = "renamed"
          BY <1>0, <2>5, <3>2, <4>2, WorkerMoves
        <5>2. Object(b)' # None
          <6> DEFINE queue == Append(renamed[b], task[t].upload)
          <6>1. renamed[b] \in Seq(Uploads) /\ renamed'[b] = queue
            BY <4>1, <4>2 DEF Renames, FilesTypeOK
          <6>2. queue # <<>> /\ queue[Len(queue)] = task[t].upload
            BY <4>1, <6>1, AppendProperties
          <6> HIDE DEF queue
          <6>3. QED
            BY <1>0, <4>1, <6>1, <6>2 DEF Object
        <5>3. QED
          BY <5>1, <5>2
      <4>3. CASE Finds(t) \/ SyncParent(t)
        <5>1. task'[t].step = "placed"
          BY <1>0, <2>5, <3>2, <4>3, WorkerMoves
        <5>2. Object(b) # None
          BY <4>1, <4>3 DEF Finds, SyncParent, At, NameInv
        <5>3. synced'[b] = Object(b)
          BY <4>1, <4>3 DEF Finds, SyncParent, SyncEntry, FilesTypeOK
        <5>4. QED
          BY <4>1, <5>1, <5>2, <5>3
      <4>4. CASE Record(t)
        <5>1. task'[t].step = "recorded" /\ b \in blobs'
          BY <1>0, <2>5, <3>2, <4>4, WorkerMoves DEF Record
        <5>2. QED
          BY <1>4, <4>1, <5>1
      <4>5. CASE \/ LoadsAppend(t) \/ Opens(t) \/ Trims(t) \/ Write(t) \/ SyncData(t) \/ Moves(t)
                 \/ LoadsCommit(t) \/ Checks(t) \/ RemovePart(t)
        BY <1>0, <1>5, <2>5, <3>2, <4>5, WorkerMoves
      <4>6. QED
        BY <2>5, <3>2, <4>2, <4>3, <4>4, <4>5 DEF Works
    <3>3. QED
      BY <3>1, <3>2
  <2>6. QED
    BY <2>1, <2>3, <2>4, <2>5, StepStoreForms DEF Allocate, TablesTypeOK
<1>6. QED
  BY <1>3, <1>4, <1>5 DEF NameInv

\* An offset never jumps, never goes back and never passes the size of the ciphertext.
LEMMA StepOffsets ==
  ASSUME SizeAssumption, RowInv, LoopInv, [Next]_vars, NEW u \in Live, uploads'[u] # None
  PROVE  /\ uploads'[u].received \in {uploads[u].received, uploads[u].received + 1}
         /\ uploads'[u].received <= Size[uploads[u].blob]
<1>0. /\ RowForms
      /\ uploads \in [Uploads -> UploadRow \cup {None}]
      /\ uploads[u].received <= Size[uploads[u].blob]
      /\ u \in Uploads /\ u \notin Unused
  BY StepRowForms DEF RowInv, TablesTypeOK, RowsMatch, Live, Unused
<1>1. CASE uploads'[u] = uploads[u]
  BY <1>0, <1>1
<1>2. ASSUME NEW t \in Tasks, Moves(t)
      PROVE  /\ uploads'[u].received \in {uploads[u].received, uploads[u].received + 1}
             /\ uploads'[u].received <= Size[uploads[u].blob]
  <2>1. CASE u = task[t].upload
    BY <1>2, <2>1, MovesEffect
  <2>2. CASE u # task[t].upload
    BY <1>0, <1>1, <1>2, <2>2, MovesEffect
  <2>3. QED
    BY <2>1, <2>2
<1>3. ASSUME NEW o \in Uploads, uploads' = [uploads EXCEPT ![o] = None]
      PROVE  uploads'[u] = uploads[u]
  BY <1>0, <1>3
<1>4. ASSUME NEW o \in Unused, NEW row, uploads' = [uploads EXCEPT ![o] = row]
      PROVE  uploads'[u] = uploads[u]
  BY <1>0, <1>4
<1>5. \A t \in Tasks : Busy(t) => task[t].upload \in Uploads
  BY TaskFields DEF LoopInv
<1>6. QED
  BY <1>0, <1>1, <1>2, <1>3, <1>4, <1>5 DEF RowForms

----------------------------------------------------------------------------
\* The lock of an upload.

\* A request that has the lock, or had it when its handler was dropped.
Working(t) == Busy(t) /\ task[t].step # "queued"

\* Of an upload that is not orphaned, the handlers that work hold the lock, so that only
\* one works.
LockInv ==
  /\ \A t \in Tasks :
       Busy(t) => task[t].guarded \/ (Working(t) /\ task[t].upload \in orphaned)
  /\ \A t, o \in Tasks :
       Working(t) /\ Working(o) /\ task[t].upload = task[o].upload
         /\ task[t].upload \notin orphaned => t = o

\* Only an upload that begins is no orphan any more.
LEMMA OrphansStay ==
  ASSUME [Next]_vars, NEW u \in orphaned, u \notin orphaned'
  PROVE  \E d \in Devices, b \in Blobs : Allocate(d, b, u)
<1>1. ASSUME NEW d \in Devices, NEW b \in Blobs, NEW o \in Uploads,
             Resume(d, b, o) \/ Allocate(d, b, o)
      PROVE  \E e \in Devices, c \in Blobs : Allocate(e, c, u)
  <2>1. Allocate(d, b, o) /\ orphaned' = orphaned \ {o}
    BY <1>1 DEF Resume, Allocate
  <2>2. QED
    BY <2>1
<1>2. ASSUME NEW t \in Tasks, AppendStep(t)
      PROVE  orphaned' = orphaned
  BY <1>2 DEF AppendStep, LoadAppend, OpenPart, Trim, Write, SyncData, Advance, Goto, Error
<1>3. ASSUME NEW t \in Tasks, CommitStep(t)
      PROVE  orphaned' = orphaned
  BY <1>3 DEF CommitStep, LoadCommit, VerifyObject, VerifyPart, Rename, SyncParent, Record,
              RemovePart, Goto, Error
<1>4. ASSUME NEW t \in Tasks, Acquire(t)
      PROVE  orphaned' = orphaned
  BY <1>4 DEF Acquire, Goto
<1>5. ASSUME NEW t \in Tasks, Drop(t)
      PROVE  orphaned \subseteq orphaned'
  BY <1>5 DEF Drop
<1>6. ASSUME NEW d \in Devices, \/ \E t \in Tasks : Send(d, t)
                                \/ GiveUp(d) \/ Register(d) \/ Revoke(d)
      PROVE  orphaned' = orphaned
  BY <1>6 DEF Send, GiveUp, Register, Revoke
<1>7. Crash \/ UNCHANGED vars => orphaned' = orphaned
  BY DEF Crash, vars
<1>8. QED
  BY <1>1, <1>2, <1>3, <1>4, <1>5, <1>6, <1>7 DEF Next, BeginUpload, ServerStep

\* What is in use stays an orphan.
LEMMA UsedOrphansStay ==
  ASSUME [Next]_vars, NEW u \in orphaned, u \notin Unused
  PROVE  u \in orphaned'
BY OrphansStay DEF Allocate

\* The upload of a request stays an orphan.
LEMMA OrphansOfRequests ==
  ASSUME [Next]_vars, NEW t \in Tasks, task[t].upload \in orphaned
  PROVE  task[t].upload \in orphaned'
BY UsedOrphansStay DEF Unused

\* A request that works makes no orphans, and helps none.
LEMMA WorkersKeepOrphans ==
  ASSUME NEW t \in Tasks, Works(t)
  PROVE  orphaned' = orphaned
<1>1. CASE LoadsAppend(t) \/ Opens(t) \/ LoadsCommit(t)
  BY <1>1 DEF LoadsAppend, Opens, LoadsCommit, Goto
<1>2. CASE Trims(t) \/ Write(t) \/ SyncData(t) \/ Moves(t)
  BY <1>2 DEF Trims, Write, SyncData, Moves, Goto
<1>3. CASE \/ Finds(t) \/ Checks(t) \/ Renames(t) \/ SyncParent(t) \/ Record(t)
           \/ RemovePart(t)
  BY <1>3 DEF Finds, Checks, Renames, SyncParent, Record, RemovePart, Goto
<1>4. QED
  BY <1>1, <1>2, <1>3 DEF Works

\* Every step makes orphans of uploads only.
LEMMA StepOrphans ==
  ASSUME TablesTypeOK, LoopInv, orphaned \subseteq Uploads, [Next]_vars
  PROVE  (orphaned \subseteq Uploads)'
<1>1. ASSUME NEW t \in Tasks, Drop(t)
      PROVE  orphaned' \subseteq Uploads
  <2>1. Busy(t) /\ TaskTypeOK
    BY <1>1 DEF Drop, Busy, LoopInv
  <2>2. task[t].upload \in Uploads
    BY <2>1, TaskFields
  <2>3. QED
    BY <1>1, <2>2 DEF Drop
<1>2. ASSUME NEW d \in Devices, NEW b \in Blobs, NEW u \in Uploads,
             Resume(d, b, u) \/ Allocate(d, b, u)
      PROVE  orphaned' \subseteq orphaned
  BY <1>2 DEF Resume, Allocate
<1>3. ASSUME NEW t \in Tasks, AppendStep(t)
      PROVE  orphaned' = orphaned
  BY <1>3 DEF AppendStep, LoadAppend, OpenPart, Trim, Write, SyncData, Advance, Goto, Error
<1>4. ASSUME NEW t \in Tasks, CommitStep(t)
      PROVE  orphaned' = orphaned
  BY <1>4 DEF CommitStep, LoadCommit, VerifyObject, VerifyPart, Rename, SyncParent, Record,
              RemovePart, Goto, Error
<1>5. ASSUME NEW t \in Tasks, Acquire(t)
      PROVE  orphaned' = orphaned
  BY <1>5 DEF Acquire, Goto
<1>6. ASSUME NEW d \in Devices, \/ \E t \in Tasks : Send(d, t)
                                \/ GiveUp(d) \/ Register(d) \/ Revoke(d)
      PROVE  orphaned' = orphaned
  BY <1>6 DEF Send, GiveUp, Register, Revoke
<1>7. Crash \/ UNCHANGED vars => orphaned' = orphaned
  BY DEF Crash, vars
<1>8. QED
  BY <1>1, <1>2, <1>3, <1>4, <1>5, <1>6, <1>7 DEF Next, BeginUpload, ServerStep

\* Every step keeps the lock.
LEMMA StepLock ==
  ASSUME TablesTypeOK, LoopInv, LockInv, [Next]_vars
  PROVE  LockInv'
<1>0. /\ TaskTypeOK /\ LoopForms
      /\ \A t \in Tasks : task[t].upload \in orphaned => task[t].upload \in orphaned'
  BY StepLoopForms, OrphansOfRequests DEF LoopInv
<1>1. ASSUME \A t \in Tasks : Busy(t)' =>
               \/ /\ Busy(t) /\ task'[t].guarded = task[t].guarded
                  /\ task'[t].upload = task[t].upload
                  /\ Working(t)' <=> Working(t)
               \/ task'[t].guarded /\ ~Working(t)'
      PROVE  LockInv'
  <2>1. ASSUME NEW t \in Tasks, Busy(t)'
        PROVE  task'[t].guarded \/ (Working(t)' /\ task'[t].upload \in orphaned')
    BY <1>0, <1>1, <2>1 DEF LockInv
  <2>2. ASSUME NEW t \in Tasks, NEW o \in Tasks, Working(t)', Working(o)',
               task'[t].upload = task'[o].upload, task'[t].upload \notin orphaned'
        PROVE  t = o
    <3>1. Busy(t)' /\ Busy(o)'
      BY <2>2 DEF Working
    <3>2. /\ Working(t) /\ Working(o)
          /\ task'[t].upload = task[t].upload /\ task'[o].upload = task[o].upload
      BY <1>1, <2>2, <3>1
    <3>3. QED
      BY <1>0, <2>2, <3>2 DEF LockInv
  <2>3. QED
    BY <2>1, <2>2 DEF LockInv
<1>2. CASE UNCHANGED task
  BY <1>1, <1>2 DEF Busy, Working
<1>3. ASSUME NEW d \in Devices, NEW t \in Tasks, Send(d, t)
      PROVE  LockInv'
  <2>1. /\ \A o \in Tasks \ {t} : task'[o] = task[o]
        /\ task'[t].guarded = TRUE /\ task'[t].step = "queued"
    BY <1>0, <1>3 DEF Send, TaskTypeOK
  <2>2. QED
    BY <1>1, <2>1 DEF Busy, Working
<1>4. ASSUME NEW d \in Devices, GiveUp(d)
      PROVE  LockInv'
  <2>1. ASSUME NEW t \in Tasks, Busy(t)'
        PROVE  /\ Busy(t) /\ task'[t].guarded = task[t].guarded
               /\ task'[t].upload = task[t].upload
               /\ Working(t)' <=> Working(t)
    <3>1. task'[t] = IF Busy(t) /\ task[t].device = d
                     THEN [task[t] EXCEPT !.awaited = FALSE] ELSE task[t]
      BY <1>4 DEF GiveUp, Busy
    <3>2. CASE Busy(t)
      <4>1. task[t] \in Task
        BY <1>0, <3>2, TaskFields
      <4>2. QED
        BY <3>1, <3>2, <4>1 DEF Task, Working, Busy
    <3>3. CASE ~Busy(t)
      BY <2>1, <3>1, <3>3 DEF Busy
    <3>4. QED
      BY <3>2, <3>3
  <2>2. QED
    BY <1>1, <2>1
<1>5. ASSUME NEW t \in Tasks, Drop(t)
      PROVE  LockInv'
  <2>1. Busy(t) /\ \A o \in Tasks \ {t} : task'[o] = task[o]
    BY <1>0, <1>5 DEF Drop, Busy, TaskTypeOK
  <2>2. CASE task[t].step = "queued"
    <3>1. task'[t] = IdleTask
      BY <1>0, <1>5, <2>2 DEF Drop, TaskTypeOK
    <3>2. QED
      BY <1>1, <2>1, <3>1 DEF Busy, Working, IdleTask
  <2>3. CASE task[t].step # "queued"
    <3> DEFINE left == [task[t] EXCEPT !.guarded = FALSE, !.awaited = FALSE]
    <3>1. task[t] \in Task
      BY <1>0, <2>1, TaskFields
    <3>2. left.upload = task[t].upload /\ left.step = task[t].step
      BY <3>1 DEF Task
    <3>3. task'[t] = left /\ orphaned' = orphaned \cup {task[t].upload}
      BY <1>0, <1>5, <2>3 DEF Drop, TaskTypeOK
    <3> HIDE DEF left
    <3>4. Working(t)' /\ task'[t].upload \in orphaned'
      BY <2>1, <2>3, <3>2, <3>3 DEF Working, Busy
    <3>5. ASSUME NEW o \in Tasks, Busy(o)'
          PROVE  task'[o].guarded \/ (Working(o)' /\ task'[o].upload \in orphaned')
      <4>1. CASE o = t
        BY <3>4, <4>1
      <4>2. CASE o # t
        BY <2>1, <3>3, <3>5, <4>2 DEF LockInv, Working, Busy
      <4>3. QED
        BY <4>1, <4>2
    <3>6. ASSUME NEW o \in Tasks, NEW p \in Tasks, Working(o)', Working(p)',
                 task'[o].upload = task'[p].upload, task'[o].upload \notin orphaned'
          PROVE  o = p
      <4>1. o # t /\ p # t
        BY <3>4, <3>6
      <4>2. QED
        BY <2>1, <3>3, <3>6, <4>1 DEF LockInv, Working, Busy
    <3>7. QED
      BY <3>5, <3>6 DEF LockInv
  <2>4. QED
    BY <2>2, <2>3
<1>6. ASSUME NEW t \in Tasks, NEW step \in Steps \ {"idle", "queued"}, Busy(t),
             task[t].step = "queued" => Acquire(t), Goto(t, step)
      PROVE  LockInv'
  <2>1. /\ task'[t].step = step
        /\ SameRequest(t)
        /\ task'[t].guarded = task[t].guarded
        /\ \A o \in Tasks \ {t} : task'[o] = task[o]
    BY <1>0, <1>6, GotoEffect
  <2>2. CASE task[t].step # "queued"
    BY <1>1, <1>6, <2>1, <2>2 DEF Busy, Working, SameRequest
  <2>3. CASE Acquire(t)
    <3>1. /\ orphaned' = orphaned
          /\ \A o \in Tasks : Working(o) /\ task[o].upload \notin orphaned =>
               task[o].upload # task[t].upload
      BY <2>3 DEF Acquire, Goto, Holds, Working, Busy, LockInv
    <3>2. task[t].guarded
      BY <1>6, <2>3 DEF LockInv, Working, Acquire
    <3>3. \A o \in Tasks : Busy(o)' =>
            task'[o].guarded \/ (Working(o)' /\ task'[o].upload \in orphaned')
      BY <1>6, <2>1, <3>1, <3>2 DEF Busy, Working, LockInv
    <3>4. \A o \in Tasks \ {t} : Working(o)' /\ task'[o].upload \notin orphaned' =>
            Working(o) /\ task'[o].upload # task'[t].upload
      BY <2>1, <3>1 DEF Working, Busy, SameRequest
    <3>5. ASSUME NEW o \in Tasks, NEW p \in Tasks, Working(o)', Working(p)',
                 task'[o].upload = task'[p].upload, task'[o].upload \notin orphaned'
          PROVE  o = p
      <4>1. CASE o = t \/ p = t
        BY <3>4, <3>5, <4>1
      <4>2. CASE o # t /\ p # t
        BY <2>1, <3>1, <3>5, <4>2 DEF LockInv, Working, Busy
      <4>3. QED
        BY <4>1, <4>2
    <3>6. QED
      BY <3>3, <3>5 DEF LockInv
  <2>4. QED
    BY <1>6, <2>2, <2>3
<1>7. ASSUME NEW t \in Tasks, NEW next, Respond(t, next)
      PROVE  LockInv'
  <2>1. ~Busy(t)' /\ \A o \in Tasks \ {t} : task'[o] = task[o]
    BY <1>0, <1>7, RespondEffect
  <2>2. QED
    BY <1>1, <2>1 DEF Busy, Working
<1>8. CASE task' = [t \in Tasks |-> IdleTask]
  BY <1>1, <1>8 DEF Busy, IdleTask
<1>9. QED
  BY <1>0, <1>2, <1>3, <1>4, <1>5, <1>6, <1>7, <1>8 DEF LoopForms

----------------------------------------------------------------------------
\* Where the file of an upload is.

\* The file of u is, or was before the last rename, the object of b.
Named(u, b) == u = synced[b] \/ \E i \in DOMAIN renamed[b] : u = renamed[b][i]

\* A file is a part, or has one place among the objects.
PlaceInv ==
  /\ \A u \in Uploads, b \in Blobs : Named(u, b) => u \notin parts
  /\ \A u \in Uploads : \A b, c \in Blobs : Named(u, b) /\ Named(u, c) => b = c
  /\ \A b \in Blobs : \A i, j \in DOMAIN renamed[b] : renamed[b][i] = renamed[b][j] => i = j
  /\ \A b \in Blobs : \A i \in DOMAIN renamed[b] : renamed[b][i] # synced[b]

\* What an object is read from is named.
LEMMA ObjectIsNamed ==
  ASSUME UploadsAssumption, FilesTypeOK, NEW b \in Blobs, Object(b) # None
  PROVE  Object(b) \in Uploads /\ Named(Object(b), b)
BY ObjectType DEF Object, Named

\* A directory or an object is synced: the last rename stays.
LEMMA SyncEntryEffect ==
  ASSUME FilesTypeOK, NEW b \in Blobs, SyncEntry(b)
  PROVE  /\ synced'[b] = Object(b)
         /\ DOMAIN renamed'[b] = {}
         /\ \A c \in Blobs \ {b} : synced'[c] = synced[c] /\ renamed'[c] = renamed[c]
BY DEF SyncEntry, FilesTypeOK

\* One more name for an object.
LEMMA RenamesEffect ==
  ASSUME TaskTypeOK, FilesTypeOK, NEW t \in Tasks, Renames(t)
  PROVE  LET u == task[t].upload
             b == task[t].blob
             n == Len(renamed[b])
         IN /\ u \in Uploads /\ b \in Blobs
            /\ n \in Nat /\ DOMAIN renamed[b] = 1 .. n
            /\ DOMAIN renamed'[b] = 1 .. (n + 1)
            /\ \A i \in 1 .. n : renamed'[b][i] = renamed[b][i]
            /\ renamed'[b][n + 1] = u
            /\ \A c \in Blobs \ {b} : renamed'[c] = renamed[c]
            /\ synced' = synced
<1> DEFINE u == task[t].upload
           b == task[t].blob
           queue == Append(renamed[b], u)
<1>1. Busy(t) /\ u \in Uploads /\ b \in Blobs
  BY WorkerIsBusy, TaskFields DEF Works
<1>2. renamed[b] \in Seq(Uploads) /\ renamed' = [renamed EXCEPT ![b] = queue] /\ synced' = synced
  BY <1>1 DEF Renames, FilesTypeOK
<1>3. /\ queue \in Seq(Uploads)
      /\ Len(queue) = Len(renamed[b]) + 1
      /\ \A i \in 1 .. Len(renamed[b]) : queue[i] = renamed[b][i]
      /\ queue[Len(renamed[b]) + 1] = u
  BY <1>1, <1>2, AppendProperties
<1> HIDE DEF queue
<1>4. /\ Len(renamed[b]) \in Nat /\ DOMAIN renamed[b] = 1 .. Len(renamed[b])
      /\ DOMAIN queue = 1 .. (Len(renamed[b]) + 1)
  BY <1>2, <1>3, LenProperties
<1>5. renamed'[b] = queue /\ \A c \in Blobs \ {b} : renamed'[c] = renamed[c]
  BY <1>1, <1>2 DEF FilesTypeOK
<1>6. QED
  BY <1>1, <1>2, <1>3, <1>4, <1>5

\* What is named after a step was so before, or is renamed by it.
LEMMA StepNamed ==
  ASSUME UploadsAssumption, TablesTypeOK, FilesTypeOK, LoopInv, [Next]_vars,
         NEW u \in Uploads, NEW b \in Blobs, Named(u, b)'
  PROVE  \/ Named(u, b)
         \/ \E t \in Tasks : Renames(t) /\ u = task[t].upload /\ b = task[t].blob
<1>0. TaskTypeOK /\ None \notin Uploads
  BY DEF LoopInv, UploadsAssumption
<1>1. CASE UNCHANGED <<synced, renamed>>
  BY <1>1 DEF Named
<1>2. ASSUME NEW t \in Tasks, Finds(t) \/ SyncParent(t)
      PROVE  Named(u, b)
  <2> DEFINE c == task[t].blob
  <2>1. c \in Blobs /\ SyncEntry(c)
    BY <1>0, <1>2, WorkerIsBusy, TaskFields DEF Works, Finds, SyncParent
  <2>2. CASE b = c
    <3>1. u = Object(b)
      BY <2>1, <2>2, SyncEntryEffect DEF Named
    <3>2. QED
      BY <1>0, <3>1, ObjectIsNamed
  <2>3. CASE b # c
    BY <2>1, <2>3, SyncEntryEffect DEF Named
  <2>4. QED
    BY <2>2, <2>3
<1>3. ASSUME NEW t \in Tasks, Renames(t)
      PROVE  Named(u, b) \/ (u = task[t].upload /\ b = task[t].blob)
  <2>1. CASE b = task[t].blob
    <3> DEFINE n == Len(renamed[b])
    <3>1. /\ n \in Nat /\ DOMAIN renamed[b] = 1 .. n
          /\ DOMAIN renamed'[b] = 1 .. (n + 1)
          /\ \A i \in 1 .. n : renamed'[b][i] = renamed[b][i]
          /\ renamed'[b][n + 1] = task[t].upload
          /\ synced' = synced
      BY <1>0, <1>3, <2>1, RenamesEffect
    <3> HIDE DEF n
    <3>2. CASE u = synced'[b]
      BY <3>1, <3>2 DEF Named
    <3>3. ASSUME NEW i \in DOMAIN renamed'[b], u = renamed'[b][i]
          PROVE  Named(u, b) \/ u = task[t].upload
      <4>1. i \in 1 .. n \/ i = n + 1
        BY <3>1
      <4>2. QED
        BY <3>1, <3>3, <4>1 DEF Named
    <3>4. QED
      BY <2>1, <3>2, <3>3 DEF Named
  <2>2. CASE b # task[t].blob
    BY <1>0, <1>3, <2>2, RenamesEffect DEF Named
  <2>3. QED
    BY <2>1, <2>2
<1>4. ASSUME Crash
      PROVE  Named(u, b)
  <2>1. PICK kept \in [Blobs -> 0 .. Cardinality(Uploads)] :
          /\ \A c \in Blobs : kept[c] <= Len(renamed[c])
          /\ synced' = [c \in Blobs |->
                          IF kept[c] = 0 THEN synced[c] ELSE renamed[c][kept[c]]]
    BY <1>4 DEF Crash
  <2>2. synced'[b] = IF kept[b] = 0 THEN synced[b] ELSE renamed[b][kept[b]]
    BY <2>1
  <2>3. kept[b] # 0 => kept[b] \in DOMAIN renamed[b]
    BY <2>1, KeptIsNumber, LenProperties DEF FilesTypeOK
  <2>4. u = synced'[b]
    BY <1>4 DEF Named, Crash
  <2>5. QED
    BY <2>2, <2>3, <2>4 DEF Named
<1>5. ASSUME NEW t \in Tasks, Works(t), ~(Finds(t) \/ SyncParent(t) \/ Renames(t))
      PROVE  UNCHANGED <<synced, renamed>>
  <2>1. CASE LoadsAppend(t) \/ Opens(t) \/ LoadsCommit(t)
    BY <2>1 DEF LoadsAppend, Opens, LoadsCommit, storeVars
  <2>2. CASE \/ Trims(t) \/ Write(t) \/ SyncData(t) \/ Moves(t) \/ Checks(t) \/ Record(t)
             \/ RemovePart(t)
    BY <2>2 DEF Trims, Write, SyncData, Moves, Checks, Record, RemovePart
  <2>3. QED
    BY <1>5, <2>1, <2>2 DEF Works
<1>6. CASE Quiet \/ \E d \in Devices, c \in Blobs, o \in Uploads : Allocate(d, c, o)
  BY <1>1, <1>6 DEF Quiet, storeVars, Allocate
<1>7. QED
  BY <1>1, <1>2, <1>3, <1>4, <1>5, <1>6, StepStoreForms

\* A part after a step was one before, is new, or has lost its name in a crash.
LEMMA StepParts ==
  ASSUME TablesTypeOK, LoopInv, [Next]_vars, NEW u \in Uploads, u \in parts', ~Crash
  PROVE  /\ u \in parts \/ u \in Unused
         /\ \A t \in Tasks : Renames(t) => u # task[t].upload
<1>1. CASE Quiet
  <2>1. parts' = parts
    BY <1>1 DEF Quiet, storeVars
  <2>2. \A t \in Tasks : Renames(t) => u # task[t].upload
    BY DEF Renames
  <2>3. QED
    BY <2>1, <2>2
<1>2. ASSUME NEW d \in Devices, NEW b \in Blobs, NEW o \in Uploads, Allocate(d, b, o)
      PROVE  u \in parts \/ u \in Unused
  BY <1>2 DEF Allocate
<1>3. ASSUME NEW t \in Tasks, Works(t)
      PROVE  parts' \subseteq parts
  <2>1. CASE LoadsAppend(t) \/ Opens(t) \/ LoadsCommit(t)
    BY <2>1 DEF LoadsAppend, Opens, LoadsCommit, storeVars
  <2>2. CASE \/ Trims(t) \/ Write(t) \/ SyncData(t) \/ Moves(t) \/ Finds(t) \/ Checks(t)
             \/ SyncParent(t) \/ Record(t)
    BY <2>2 DEF Trims, Write, SyncData, Moves, Finds, Checks, SyncParent, Record
  <2>3. CASE Renames(t) \/ RemovePart(t)
    BY <2>3 DEF Renames, RemovePart
  <2>4. QED
    BY <1>3, <2>1, <2>2, <2>3 DEF Works
<1>4. \A t \in Tasks : Renames(t) => u # task[t].upload
  BY DEF Renames
<1>5. QED
  BY <1>1, <1>2, <1>3, <1>4, StepStoreForms

\* Nothing that is named is free for a new upload.
LEMMA UnusedIsNotNamed ==
  ASSUME NEW u \in Unused, NEW b \in Blobs
  PROVE  ~Named(u, b)
BY DEF Unused, Named

\* Every step keeps files in their places.
LEMMA StepPlaces ==
  ASSUME UploadsAssumption, TablesTypeOK, FilesTypeOK, LoopInv, PlaceInv, [Next]_vars
  PROVE  PlaceInv'
<1>0. TaskTypeOK /\ None \notin Uploads
  BY DEF LoopInv, UploadsAssumption
<1>1. ASSUME NEW t \in Tasks, Renames(t)
      PROVE  /\ \A b \in Blobs : ~Named(task[t].upload, b)
             /\ task[t].upload \in Uploads
  BY <1>0, <1>1, RenamesEffect DEF Renames, PlaceInv
<1>2. ASSUME NEW u \in Uploads, NEW b \in Blobs, NEW c \in Blobs, Named(u, b)', Named(u, c)'
      PROVE  b = c
  <2>1. CASE Named(u, b) /\ Named(u, c)
    BY <2>1 DEF PlaceInv
  <2>2. CASE ~(Named(u, b) /\ Named(u, c))
    <3>1. PICK t \in Tasks : Renames(t) /\ u = task[t].upload
      BY <1>2, <2>2, StepNamed
    <3>2. ~Named(u, b) /\ ~Named(u, c)
      BY <1>1, <3>1
    <3>3. /\ \E o \in Tasks : Renames(o) /\ u = task[o].upload /\ b = task[o].blob
          /\ \E o \in Tasks : Renames(o) /\ u = task[o].upload /\ c = task[o].blob
      BY <1>2, <3>2, StepNamed
    <3>4. \A o, p \in Tasks : Renames(o) /\ Renames(p) => task[o].blob = task[p].blob
      <4> SUFFICES ASSUME NEW o \in Tasks, NEW p \in Tasks, Renames(o), Renames(p)
                   PROVE  o = p
        OBVIOUS
      <4>1. task'[o].step = "renamed" /\ task[o].step = "verified"
        BY <1>0, WorkerMoves DEF Works, Renames, At
      <4>2. o # p => task'[o] = task[o]
        BY <1>0, WorkerMoves DEF Works
      <4>3. QED
        BY <4>1, <4>2
    <3>5. QED
      BY <3>3, <3>4
  <2>3. QED
    BY <2>1, <2>2
<1>3. ASSUME NEW u \in Uploads, NEW b \in Blobs, Named(u, b)'
      PROVE  u \notin parts'
  <2>1. ASSUME ~Crash, u \in parts'
        PROVE  FALSE
    <3>1. /\ u \in parts \/ u \in Unused
          /\ \A t \in Tasks : Renames(t) => u # task[t].upload
      BY <2>1, StepParts
    <3>2. Named(u, b)
      BY <1>3, <3>1, StepNamed
    <3>3. QED
      BY <3>1, <3>2, UnusedIsNotNamed DEF PlaceInv
  <2>2. CASE Crash
    <3>1. PICK kept \in [Blobs -> 0 .. Cardinality(Uploads)] :
            /\ \A c \in Blobs : kept[c] <= Len(renamed[c])
            /\ synced' = [c \in Blobs |->
                            IF kept[c] = 0 THEN synced[c] ELSE renamed[c][kept[c]]]
            /\ parts' = parts \cup UNION
                 {{renamed[c][i] : i \in (kept[c] + 1) .. Len(renamed[c])} : c \in Blobs}
      BY <2>2 DEF Crash
    <3>2. u = synced'[b]
      BY <1>3, <2>2 DEF Named, Crash
    <3>3. \A c \in Blobs : /\ kept[c] \in Nat /\ Len(renamed[c]) \in Nat
                           /\ DOMAIN renamed[c] = 1 .. Len(renamed[c])
      BY KeptIsNumber, LenProperties DEF FilesTypeOK
    <3>4. Named(u, b)
      <4>1. kept[b] # 0 => kept[b] \in DOMAIN renamed[b]
        BY <3>1, <3>3
      <4>2. QED
        BY <3>1, <3>2, <4>1 DEF Named
    <3>5. ASSUME NEW c \in Blobs, NEW i \in (kept[c] + 1) .. Len(renamed[c]), u = renamed[c][i]
          PROVE  FALSE
      <4>1. i \in DOMAIN renamed[c] /\ i > kept[c]
        BY <3>3
      <4>2. Named(u, c)
        BY <3>5, <4>1 DEF Named
      <4>3. c = b
        BY <3>4, <4>2 DEF PlaceInv
      <4>4. CASE kept[b] = 0
        <5>1. u = synced[b]
          BY <3>1, <3>2, <4>4
        <5>2. QED
          BY <3>5, <4>1, <4>3, <5>1 DEF PlaceInv
      <4>5. CASE kept[b] # 0
        <5>1. kept[b] \in DOMAIN renamed[b] /\ u = renamed[b][kept[b]]
          BY <3>1, <3>2, <3>3, <4>5
        <5>2. i = kept[b]
          BY <3>5, <4>1, <4>3, <5>1 DEF PlaceInv
        <5>3. QED
          BY <3>3, <4>1, <4>3, <5>2
      <4>6. QED
        BY <4>4, <4>5
    <3>6. u \notin parts
      BY <3>4 DEF PlaceInv
    <3>7. QED
      BY <3>1, <3>5, <3>6
  <2>3. QED
    BY <2>1, <2>2
<1>4. ASSUME NEW b \in Blobs
      PROVE  /\ \A i, j \in DOMAIN renamed'[b] : renamed'[b][i] = renamed'[b][j] => i = j
             /\ \A i \in DOMAIN renamed'[b] : renamed'[b][i] # synced'[b]
  <2>1. CASE synced'[b] = synced[b] /\ renamed'[b] = renamed[b]
    BY <2>1 DEF PlaceInv
  <2>2. CASE DOMAIN renamed'[b] = {}
    BY <2>2
  <2>3. ASSUME NEW t \in Tasks, Renames(t), b = task[t].blob
        PROVE  /\ \A i, j \in DOMAIN renamed'[b] : renamed'[b][i] = renamed'[b][j] => i = j
               /\ \A i \in DOMAIN renamed'[b] : renamed'[b][i] # synced'[b]
    <3> DEFINE n == Len(renamed[b])
               u == task[t].upload
    <3>1. /\ n \in Nat /\ DOMAIN renamed[b] = 1 .. n
          /\ DOMAIN renamed'[b] = 1 .. (n + 1)
          /\ \A i \in 1 .. n : renamed'[b][i] = renamed[b][i]
          /\ renamed'[b][n + 1] = u
          /\ synced' = synced
      BY <1>0, <2>3, RenamesEffect
    <3>2. ~Named(u, b)
      BY <1>1, <2>3
    <3> HIDE DEF n, u
    <3>3. \A i \in 1 .. n : renamed[b][i] # u /\ renamed[b][i] # synced[b]
      BY <3>1, <3>2 DEF Named, PlaceInv
    <3>4. u # synced[b]
      BY <3>2 DEF Named
    <3>5. \A i \in 1 .. (n + 1) : i \in 1 .. n \/ i = n + 1
      BY <3>1
    <3>6. \A i, j \in 1 .. n : renamed[b][i] = renamed[b][j] => i = j
      BY <3>1 DEF PlaceInv
    <3>7. QED
      BY <3>1, <3>3, <3>4, <3>5, <3>6
  <2>4. ASSUME NEW t \in Tasks, Finds(t) \/ SyncParent(t)
        PROVE  \/ synced'[b] = synced[b] /\ renamed'[b] = renamed[b]
               \/ DOMAIN renamed'[b] = {}
    <3>1. task[t].blob \in Blobs /\ SyncEntry(task[t].blob)
      BY <1>0, <2>4, WorkerIsBusy, TaskFields DEF Works, Finds, SyncParent
    <3>2. QED
      BY <3>1, SyncEntryEffect
  <2>5. ASSUME NEW t \in Tasks, Works(t), ~(Finds(t) \/ SyncParent(t) \/ Renames(t))
        PROVE  UNCHANGED <<synced, renamed>>
    <3>1. CASE LoadsAppend(t) \/ Opens(t) \/ LoadsCommit(t)
      BY <3>1 DEF LoadsAppend, Opens, LoadsCommit, storeVars
    <3>2. CASE \/ Trims(t) \/ Write(t) \/ SyncData(t) \/ Moves(t) \/ Checks(t) \/ Record(t)
               \/ RemovePart(t)
      BY <3>2 DEF Trims, Write, SyncData, Moves, Checks, Record, RemovePart
    <3>3. QED
      BY <2>5, <3>1, <3>2 DEF Works
  <2>6. ASSUME NEW t \in Tasks, Renames(t), b # task[t].blob
        PROVE  synced'[b] = synced[b] /\ renamed'[b] = renamed[b]
    BY <1>0, <2>6, RenamesEffect
  <2>7. CASE Crash
    BY <2>2, <2>7 DEF Crash
  <2>8. CASE Quiet \/ \E d \in Devices, c \in Blobs, o \in Uploads : Allocate(d, c, o)
    BY <2>1, <2>8 DEF Quiet, storeVars, Allocate
  <2>9. QED
    BY <2>1, <2>2, <2>3, <2>4, <2>5, <2>6, <2>7, <2>8, StepStoreForms
<1>5. QED
  BY <1>2, <1>3, <1>4 DEF PlaceInv
----------------------------------------------------------------------------
\* What files hold.

\* What an append may rely on, at each of its steps.
AppendsSafely(t) ==
  LET u == task[t].upload
      at == task[t].offset
  IN /\ task[t].step \in Appending => uploads[u] # None /\ uploads[u].received = at
     /\ task[t].step \in Appending \ {"loaded"} => u \in parts
     /\ task[t].step \in {"written", "synced"} => Sound(file[u], at + 1)
     /\ task[t].step = "synced" => Sound(disk[u], at + 1)

\* What a commit renames is verified and synced.
CommitsSafely(t) ==
  LET u == task[t].upload
  IN task[t].step = "verified" =>
       u \in parts /\ Verifies(file[u], task[t].blob) /\ disk[u] = file[u]

WorkInv ==
  \A t \in Tasks : Busy(t) /\ task[t].upload \notin orphaned =>
    /\ task[t].op = "append" => AppendsSafely(t)
    /\ task[t].op = "commit" => CommitsSafely(t)

\* The files of objects are whole and synced, and those of uploads have no gap in what is
\* counted as received, neither before nor after a crash.
NamedAreWhole ==
  \A b \in Blobs, u \in Uploads \ orphaned :
    Named(u, b) => Verifies(file[u], b) /\ disk[u] = file[u]
ReceivedIsSound ==
  \A u \in Live \ orphaned :
    Sound(disk[u], uploads[u].received) /\ Sound(file[u], uploads[u].received)

\* Of the uploads that are not orphaned, a request changes the row and the file of its own
\* only.
LEMMA WorkElsewhere ==
  ASSUME UploadsAssumption, TablesTypeOK, FilesTypeOK, TaskTypeOK, NamedAreWhole,
         NEW t \in Tasks, Works(t), NEW u \in Uploads \ {task[t].upload}, u \notin orphaned
  PROVE  /\ uploads'[u] = uploads[u]
         /\ file'[u] = file[u]
         /\ disk'[u] = disk[u]
         /\ u \in parts' <=> u \in parts
<1>0. /\ uploads \in [Uploads -> UploadRow \cup {None}]
      /\ file \in [Uploads -> Seq(Bytes)]
      /\ disk \in [Uploads -> Seq(Bytes)]
      /\ task[t].upload \in Uploads /\ task[t].blob \in Blobs
  BY WorkerIsBusy, TaskFields DEF TablesTypeOK, FilesTypeOK
<1>1. CASE LoadsAppend(t) \/ Opens(t) \/ LoadsCommit(t)
  BY <1>1 DEF LoadsAppend, Opens, LoadsCommit, storeVars
<1>2. CASE Trims(t) \/ Write(t)
  BY <1>0, <1>2 DEF Trims, Write
<1>3. CASE SyncData(t) \/ Checks(t)
  BY <1>0, <1>3 DEF SyncData, Checks
<1>4. CASE Moves(t) \/ Record(t)
  BY <1>0, <1>4 DEF Moves, Record
<1>5. CASE Finds(t)
  <2> DEFINE o == Object(task[t].blob)
  <2>1. o \in Uploads /\ Named(o, task[t].blob)
    BY <1>0, <1>5, ObjectIsNamed DEF Finds
  <2>2. u = o => disk[o] = file[o]
    BY <1>0, <2>1 DEF NamedAreWhole
  <2>3. disk' = [disk EXCEPT ![o] = file[o]] /\ UNCHANGED <<uploads, parts, file>>
    BY <1>5 DEF Finds
  <2> HIDE DEF o
  <2>4. disk'[u] = disk[u]
    BY <1>0, <2>2, <2>3
  <2>5. QED
    BY <2>3, <2>4
<1>6. CASE Renames(t) \/ RemovePart(t) \/ SyncParent(t)
  BY <1>6 DEF Renames, RemovePart, SyncParent
<1>7. QED
  BY <1>1, <1>2, <1>3, <1>4, <1>5, <1>6 DEF Works

\* What a request reads and writes is the same to it, whatever another one does.
LEMMA OthersWorkElsewhere ==
  ASSUME TaskTypeOK, LockInv, NEW t \in Tasks, NEW o \in Tasks \ {t}, Works(o), Working(t),
         task[t].upload \notin orphaned
  PROVE  task[t].upload \in Uploads \ {task[o].upload}
<1>1. Working(o)
  BY DEF Works, LoadsAppend, Opens, Trims, Write, SyncData, Moves, LoadsCommit, Finds, Checks,
         Renames, SyncParent, Record, RemovePart, At, Busy, Working
<1>2. task[t].upload \in Uploads
  BY TaskFields DEF Working
<1>3. QED
  BY <1>1, <1>2 DEF LockInv

\* A request that stays at its step, with its upload as it was, stays safe.
LEMMA SafelyStays ==
  ASSUME WorkInv, NEW t \in Tasks, Busy(t), Busy(t)', SameRequest(t),
         task'[t].step = task[t].step, task[t].upload \notin orphaned,
         LET u == task[t].upload
         IN /\ uploads'[u] = uploads[u]
            /\ file'[u] = file[u]
            /\ disk'[u] = disk[u]
            /\ u \in parts' <=> u \in parts
  PROVE  /\ task'[t].op = "append" => AppendsSafely(t)'
         /\ task'[t].op = "commit" => CommitsSafely(t)'
BY DEF WorkInv, AppendsSafely, CommitsSafely, SameRequest, Verifies

\* An append that goes on may rely on what the next step needs.
LEMMA AppendGoesOn ==
  ASSUME UploadsAssumption, TablesTypeOK, FilesTypeOK, TaskTypeOK, WorkInv, ReceivedIsSound,
         NEW t \in Tasks, Works(t), task[t].op = "append", Busy(t)',
         task[t].upload \notin orphaned
  PROVE  AppendsSafely(t)'
<1> DEFINE u == task[t].upload
           at == task[t].offset
<1>1. /\ Busy(t) /\ SameRequest(t)
      /\ u \in Uploads /\ at \in Nat /\ task[t].chunk \in Chunks
      /\ file \in [Uploads -> Seq(Bytes)] /\ disk \in [Uploads -> Seq(Bytes)]
      /\ file[u] \in Seq(Bytes) /\ disk[u] \in Seq(Bytes)
      /\ AppendsSafely(t)
  BY WorkerIsBusy, WorkerMoves, TaskFields DEF FilesTypeOK, WorkInv
<1>2. SUFFICES /\ task'[t].step \in Appending => uploads'[u] # None /\ uploads'[u].received = at
               /\ task'[t].step \in Appending \ {"loaded"} => u \in parts'
               /\ task'[t].step \in {"written", "synced"} => Sound(file'[u], at + 1)
               /\ task'[t].step = "synced" => Sound(disk'[u], at + 1)
  BY <1>1 DEF AppendsSafely, SameRequest, Sound
<1>3. CASE LoadsAppend(t)
  <2>1. task'[t].step = "loaded"
    BY <1>3, WorkerMoves
  <2>2. QED
    BY <1>3, <2>1 DEF LoadsAppend, HasRow, Row, storeVars, At
<1>4. CASE Opens(t)
  <2>1. task'[t].step = "open"
    BY <1>4, WorkerMoves
  <2>2. uploads[u] # None /\ uploads[u].received = at /\ u \in parts
    BY <1>1, <1>4 DEF Opens, At, AppendsSafely, Appending
  <2>3. QED
    BY <1>4, <2>1, <2>2 DEF Opens, storeVars
<1>5. CASE Trims(t)
  <2>1. task'[t].step = "trimmed"
    BY <1>5, WorkerMoves
  <2>2. uploads[u] # None /\ uploads[u].received = at /\ u \in parts
    BY <1>1, <1>5 DEF Trims, At, AppendsSafely, Appending
  <2>3. QED
    BY <1>5, <2>1, <2>2 DEF Trims
<1>6. CASE Write(t)
  <2>1. task'[t].step = "written"
    BY <1>6, WorkerMoves
  <2>2. uploads[u] # None /\ uploads[u].received = at /\ u \in parts
    BY <1>1, <1>6 DEF Write, At, AppendsSafely, Appending
  <2>3. Sound(file[u], at)
    BY <1>1, <2>2 DEF ReceivedIsSound, Live
  <2>4. file'[u] = WriteAt(file[u], at, task[t].chunk)
    BY <1>1, <1>6 DEF Write
  <2>5. Sound(WriteAt(file[u], at, task[t].chunk), at + 1)
    BY <1>1, <2>3, WriteAtEffect
  <2>6. QED
    BY <1>6, <2>1, <2>2, <2>4, <2>5 DEF Write
<1>7. CASE SyncData(t)
  <2>1. task'[t].step = "synced"
    BY <1>7, WorkerMoves
  <2>2. /\ uploads[u] # None /\ uploads[u].received = at /\ u \in parts
        /\ Sound(file[u], at + 1)
    BY <1>1, <1>7 DEF SyncData, At, AppendsSafely, Appending
  <2>3. disk'[u] = file[u]
    BY <1>1, <1>7 DEF SyncData
  <2>4. QED
    BY <1>7, <2>1, <2>2, <2>3 DEF SyncData
<1>8. CASE Moves(t)
  BY <1>8, WorkerMoves
<1>9. CASE \/ LoadsCommit(t) \/ Finds(t) \/ Checks(t) \/ Renames(t) \/ SyncParent(t) \/ Record(t)
           \/ RemovePart(t)
  BY <1>9 DEF LoadsCommit, Finds, Checks, Renames, SyncParent, Record, RemovePart, At
<1>10. QED
  BY <1>3, <1>4, <1>5, <1>6, <1>7, <1>8, <1>9 DEF Works

\* A commit that goes on may rely on what the next step needs.
LEMMA CommitGoesOn ==
  ASSUME UploadsAssumption, TablesTypeOK, FilesTypeOK, TaskTypeOK,
         NEW t \in Tasks, Works(t), task[t].op = "commit", Busy(t)'
  PROVE  CommitsSafely(t)'
<1> DEFINE u == task[t].upload
<1>1. /\ Busy(t) /\ SameRequest(t)
      /\ u \in Uploads
      /\ disk \in [Uploads -> Seq(Bytes)]
  BY WorkerIsBusy, WorkerMoves, TaskFields DEF FilesTypeOK
<1>2. CASE Checks(t)
  <2>1. u \in parts' /\ Verifies(file'[u], task[t].blob) /\ disk'[u] = file'[u]
    BY <1>1, <1>2 DEF Checks
  <2>2. QED
    BY <1>1, <2>1 DEF CommitsSafely, SameRequest, Verifies
<1>3. CASE LoadsCommit(t) \/ Finds(t) \/ Renames(t) \/ SyncParent(t) \/ Record(t)
  <2>1. task'[t].step # "verified"
    BY <1>3, WorkerMoves
  <2>2. QED
    BY <2>1 DEF CommitsSafely
<1>4. CASE RemovePart(t)
  BY <1>4, WorkerMoves
<1>5. CASE LoadsAppend(t) \/ Opens(t) \/ Trims(t) \/ Write(t) \/ SyncData(t) \/ Moves(t)
  BY <1>5 DEF LoadsAppend, Opens, Trims, Write, SyncData, Moves, At
<1>6. QED
  BY <1>2, <1>3, <1>4, <1>5 DEF Works

\* Every step keeps requests safe.
LEMMA StepWork ==
  ASSUME UploadsAssumption, TablesTypeOK, FilesTypeOK, LoopInv, LockInv, WorkInv,
         NamedAreWhole, ReceivedIsSound, [Next]_vars
  PROVE  WorkInv'
<1>0. TaskTypeOK
  BY DEF LoopInv
<1>1. SUFFICES ASSUME NEW t \in Tasks, Busy(t)', task'[t].upload \notin orphaned'
               PROVE  /\ task'[t].op = "append" => AppendsSafely(t)'
                      /\ task'[t].op = "commit" => CommitsSafely(t)'
  BY DEF WorkInv
<1> DEFINE meant == SameRequest(t) => task[t].upload \notin orphaned
<1>m. meant
  BY <1>1, OrphansOfRequests DEF SameRequest
<1>2. CASE task'[t].step \in {"queued", "started"}
  BY <1>2 DEF AppendsSafely, CommitsSafely, Appending
<1>3. CASE Quiet
  <2>1. CASE Busy(t) /\ SameRequest(t) /\ task'[t].step = task[t].step
    BY <1>1, <1>m, <1>3, <2>1, SafelyStays DEF Quiet, storeVars
  <2>2. QED
    BY <1>1, <1>2, <1>3, <2>1 DEF Quiet, Steady
<1>4. ASSUME NEW d \in Devices, NEW b \in Blobs, NEW o \in Uploads, Allocate(d, b, o)
      PROVE  /\ task'[t].op = "append" => AppendsSafely(t)'
             /\ task'[t].op = "commit" => CommitsSafely(t)'
  <2>1. Busy(t) /\ SameRequest(t) /\ task'[t].step = task[t].step /\ task[t].upload # o
    BY <1>1, <1>4 DEF Allocate, Busy, SameRequest, Unused
  <2>2. /\ uploads \in [Uploads -> UploadRow \cup {None}]
        /\ file \in [Uploads -> Seq(Bytes)] /\ disk \in [Uploads -> Seq(Bytes)]
        /\ task[t].upload \in Uploads
    BY <1>0, <2>1, TaskFields DEF TablesTypeOK, FilesTypeOK
  <2>3. LET u == task[t].upload
        IN /\ uploads'[u] = uploads[u]
           /\ file'[u] = file[u]
           /\ disk'[u] = disk[u]
           /\ u \in parts' <=> u \in parts
    BY <1>4, <2>1, <2>2 DEF Allocate
  <2>4. QED
    BY <1>1, <1>m, <2>1, <2>3, SafelyStays
<1>5. ASSUME NEW o \in Tasks, Works(o)
      PROVE  /\ task'[t].op = "append" => AppendsSafely(t)'
             /\ task'[t].op = "commit" => CommitsSafely(t)'
  <2>1. CASE o = t
    <3>1. task'[t].op = task[t].op /\ task[t].upload \notin orphaned
      BY <1>0, <1>1, <1>m, <1>5, <2>1, WorkerMoves DEF SameRequest
    <3>2. QED
      BY <1>0, <1>1, <1>5, <2>1, <3>1, AppendGoesOn, CommitGoesOn
  <2>2. CASE o # t
    <3>1. task'[t] = task[t]
      BY <1>0, <1>5, <2>2, WorkerMoves
    <3>2. /\ Busy(t) /\ SameRequest(t) /\ task'[t].step = task[t].step
          /\ task[t].upload \notin orphaned
      BY <1>1, <1>m, <3>1 DEF Busy, SameRequest
    <3>3. CASE task[t].step = "queued"
      BY <1>2, <3>2, <3>3
    <3>4. CASE Working(t)
      <4>1. task[t].upload \in Uploads \ {task[o].upload}
        BY <1>0, <1>5, <2>2, <3>2, <3>4, OthersWorkElsewhere
      <4>2. LET u == task[t].upload
            IN /\ uploads'[u] = uploads[u]
               /\ file'[u] = file[u]
               /\ disk'[u] = disk[u]
               /\ u \in parts' <=> u \in parts
        BY <1>0, <1>5, <3>2, <4>1, WorkElsewhere
      <4>3. QED
        BY <1>1, <3>2, <4>2, SafelyStays
    <3>5. QED
      BY <3>2, <3>3, <3>4 DEF Working
  <2>3. QED
    BY <2>1, <2>2
<1>6. CASE Crash
  BY <1>1, <1>6 DEF Crash, Busy, IdleTask
<1>7. QED
  BY <1>3, <1>4, <1>5, <1>6, StepStoreForms

\* What has a name is not worked on: it stays as it is, on the disk too.
LEMMA NamedStays ==
  ASSUME UploadsAssumption, TablesTypeOK, FilesTypeOK, LoopInv, PlaceInv, WorkInv, NamedAreWhole,
         [Next]_vars, NEW u \in Uploads \ orphaned, NEW b \in Blobs, Named(u, b)
  PROVE  file'[u] = file[u] /\ disk'[u] = file[u]
<1>0. /\ TaskTypeOK
      /\ file \in [Uploads -> Seq(Bytes)] /\ disk \in [Uploads -> Seq(Bytes)]
      /\ u \notin parts
      /\ disk[u] = file[u]
  BY DEF LoopInv, FilesTypeOK, PlaceInv, NamedAreWhole
<1>1. CASE Quiet
  BY <1>0, <1>1 DEF Quiet, storeVars
<1>2. ASSUME NEW d \in Devices, NEW c \in Blobs, NEW o \in Uploads, Allocate(d, c, o)
      PROVE  file'[u] = file[u] /\ disk'[u] = file[u]
  <2>1. u # o
    BY <1>2, UnusedIsNotNamed DEF Allocate
  <2>2. QED
    BY <1>0, <1>2, <2>1 DEF Allocate
<1>3. ASSUME NEW t \in Tasks, Works(t)
      PROVE  file'[u] = file[u] /\ disk'[u] = file[u]
  <2>1. CASE u # task[t].upload
    BY <1>0, <1>3, <2>1, WorkElsewhere
  <2>2. CASE u = task[t].upload
    <3>1. ~Trims(t) /\ ~Write(t) /\ ~SyncData(t)
      <4>1. ASSUME At(t, "open", "append") \/ At(t, "trimmed", "append")
                     \/ At(t, "written", "append")
            PROVE  FALSE
        <5>1. Busy(t) /\ task[t].op = "append" /\ task[t].step \in Appending \ {"loaded"}
          BY <4>1 DEF At, Busy, Appending
        <5>2. u \in parts
          BY <2>2, <5>1 DEF WorkInv, AppendsSafely
        <5>3. QED
          BY <1>0, <5>2
      <4>2. QED
        BY <4>1 DEF Trims, Write, SyncData
    <3>2. ~Checks(t)
      BY <1>0, <2>2 DEF Checks
    <3>3. CASE LoadsAppend(t) \/ Opens(t) \/ LoadsCommit(t)
      BY <1>0, <3>3 DEF LoadsAppend, Opens, LoadsCommit, storeVars
    <3>4. CASE Moves(t) \/ Renames(t) \/ SyncParent(t) \/ Record(t) \/ RemovePart(t)
      BY <1>0, <3>4 DEF Moves, Renames, SyncParent, Record, RemovePart
    <3>5. CASE Finds(t)
      <4>1. file' = file /\ disk' = [disk EXCEPT ![Object(task[t].blob)] =
                                       file[Object(task[t].blob)]]
        BY <3>5 DEF Finds
      <4>2. QED
        BY <1>0, <4>1
    <3>6. QED
      BY <1>3, <3>1, <3>2, <3>3, <3>4, <3>5 DEF Works
  <2>3. QED
    BY <2>1, <2>2
<1>4. CASE Crash
  <2>1. file'[u] \in AfterCrash(u) /\ disk' = file'
    BY <1>4 DEF Crash
  <2>2. QED
    BY <1>0, <2>1, AfterCrashEffect
<1>5. QED
  BY <1>1, <1>2, <1>3, <1>4, StepStoreForms

\* Every step keeps objects whole.
LEMMA StepNamedAreWhole ==
  ASSUME UploadsAssumption, TablesTypeOK, FilesTypeOK, LoopInv, PlaceInv, WorkInv, NamedAreWhole,
         [Next]_vars
  PROVE  NamedAreWhole'
<1>1. SUFFICES ASSUME NEW b \in Blobs, NEW u \in Uploads, u \notin orphaned', Named(u, b)'
               PROVE  Verifies(file'[u], b) /\ disk'[u] = file'[u]
  BY DEF NamedAreWhole, Verifies
<1>2. CASE Named(u, b)
  <2>0. u \notin orphaned
    BY <1>1, <1>2, UnusedIsNotNamed, UsedOrphansStay
  <2>1. Verifies(file[u], b)
    BY <1>2, <2>0 DEF NamedAreWhole
  <2>2. file'[u] = file[u] /\ disk'[u] = file[u]
    BY <1>2, <2>0, NamedStays
  <2>3. QED
    BY <2>1, <2>2
<1>3. ASSUME NEW t \in Tasks, Renames(t), u = task[t].upload, b = task[t].blob
      PROVE  Verifies(file'[u], b) /\ disk'[u] = file'[u]
  <2>0. u \notin orphaned
    BY <1>1, <1>3, OrphansOfRequests
  <2>1. Verifies(file[u], b) /\ disk[u] = file[u]
    BY <1>3, <2>0 DEF Renames, At, Busy, WorkInv, CommitsSafely
  <2>2. QED
    BY <1>3, <2>1 DEF Renames
<1>4. QED
  BY <1>1, <1>2, <1>3, StepNamed

\* Every step keeps what is counted as received.
LEMMA StepReceived ==
  ASSUME UploadsAssumption, SizeAssumption, RowInv, FilesTypeOK, LoopInv, WorkInv, NamedAreWhole,
         ReceivedIsSound, [Next]_vars
  PROVE  ReceivedIsSound'
<1>0. /\ TablesTypeOK /\ TaskTypeOK
      /\ uploads \in [Uploads -> UploadRow \cup {None}]
      /\ file \in [Uploads -> Seq(Bytes)] /\ disk \in [Uploads -> Seq(Bytes)]
  BY DEF RowInv, TablesTypeOK, LoopInv, FilesTypeOK
<1>1. SUFFICES ASSUME NEW u \in Uploads, uploads'[u] # None, u \notin orphaned'
               PROVE  /\ Sound(disk'[u], uploads'[u].received)
                      /\ Sound(file'[u], uploads'[u].received)
  BY DEF ReceivedIsSound, Live, Sound
<1> DEFINE n == uploads[u].received
<1>2. ASSUME uploads[u] # None
      PROVE  n \in Nat /\ Sound(disk[u], n) /\ Sound(file[u], n)
  <2>1. u \notin orphaned
    BY <1>1, <1>2, UsedOrphansStay DEF Unused, Live
  <2>2. QED
    BY <1>0, <1>2, <2>1 DEF ReceivedIsSound, Live, UploadRow
<1>3. CASE uploads'[u] = uploads[u] /\ file'[u] = file[u] /\ disk'[u] \in {disk[u], file[u]}
  BY <1>1, <1>2, <1>3
<1>4. ASSUME NEW d \in Devices, NEW b \in Blobs, NEW o \in Uploads, Allocate(d, b, o)
      PROVE  /\ Sound(disk'[u], uploads'[u].received)
             /\ Sound(file'[u], uploads'[u].received)
  <2>1. CASE u = o
    <3> DEFINE row == [device |-> d, blob |-> b, received |-> 0]
    <3>1. uploads'[u] = row /\ disk'[u] = <<>> /\ file'[u] = <<>>
      BY <1>0, <1>4, <2>1 DEF Allocate
    <3>2. row.received = 0 /\ Len(<<>>) = 0
      BY EmptySeq
    <3>3. QED
      BY <3>1, <3>2 DEF Sound
  <2>2. CASE u # o
    BY <1>0, <1>3, <1>4, <2>2 DEF Allocate
  <2>3. QED
    BY <2>1, <2>2
<1>5. ASSUME NEW t \in Tasks, Works(t)
      PROVE  /\ Sound(disk'[u], uploads'[u].received)
             /\ Sound(file'[u], uploads'[u].received)
  <2> DEFINE at == task[t].offset
  <2>0. u \notin orphaned
    BY <1>1, <1>5, WorkersKeepOrphans
  <2>1. CASE u # task[t].upload
    BY <1>0, <1>3, <1>5, <2>0, <2>1, WorkElsewhere
  <2>2. CASE u = task[t].upload
    <3>1. Busy(t) /\ at \in Nat /\ task[t].chunk \in Chunks
      BY <1>0, <1>5, WorkerIsBusy, TaskFields
    <3>2. CASE LoadsAppend(t) \/ Opens(t) \/ LoadsCommit(t)
      BY <1>3, <3>2 DEF LoadsAppend, Opens, LoadsCommit, storeVars
    <3>3. CASE Renames(t) \/ SyncParent(t) \/ RemovePart(t)
      BY <1>3, <3>3 DEF Renames, SyncParent, RemovePart
    <3>4. CASE Trims(t)
      <4>1. uploads[u] # None /\ n = at
        BY <2>0, <2>2, <3>1, <3>4 DEF Trims, At, WorkInv, AppendsSafely, Appending
      <4>2. ~(Len(file[u]) < at) /\ file[u] \in Seq(Bytes)
        BY <1>0, <2>2, <3>4 DEF Trims
      <4>3. Sound(CutTo(u, at), at)
        BY <1>2, <3>1, <4>1, <4>2, CutEffect
      <4>4. /\ file'[u] = CutTo(u, at) /\ disk'[u] \in {disk[u], CutTo(u, at)}
            /\ uploads' = uploads
        BY <1>0, <2>2, <3>4 DEF Trims
      <4>5. QED
        BY <1>2, <4>1, <4>3, <4>4
    <3>5. CASE Write(t)
      <4>1. uploads[u] # None /\ n = at
        BY <2>0, <2>2, <3>1, <3>5 DEF Write, At, WorkInv, AppendsSafely, Appending
      <4>2. /\ file'[u] = WriteAt(file[u], at, task[t].chunk)
            /\ disk' = disk /\ uploads' = uploads
        BY <1>0, <2>2, <3>5 DEF Write
      <4>3. Sound(WriteAt(file[u], at, task[t].chunk), at + 1)
        BY <1>0, <1>2, <3>1, <4>1, WriteAtEffect
      <4> DEFINE content == WriteAt(file[u], at, task[t].chunk)
      <4>4. content \in Seq(Bytes)
        BY <1>0, <3>1, WriteAtEffect
      <4> HIDE DEF content
      <4>5. Sound(content, at + 1) /\ Len(content) \in Nat
        BY <4>3, <4>4, LenProperties DEF content
      <4>6. Sound(content, at)
        BY <3>1, <4>5 DEF Sound
      <4>7. QED
        BY <1>2, <4>1, <4>2, <4>6 DEF content
    <3>6. CASE SyncData(t) \/ Checks(t)
      BY <1>0, <1>3, <2>2, <3>6 DEF SyncData, Checks
    <3>7. CASE Finds(t)
      <4>1. /\ file' = file /\ uploads' = uploads
            /\ disk' = [disk EXCEPT ![Object(task[t].blob)] = file[Object(task[t].blob)]]
        BY <3>7 DEF Finds
      <4>2. QED
        BY <1>0, <1>3, <4>1
    <3>8. CASE Moves(t)
      <4>1. Sound(disk[u], at + 1) /\ Sound(file[u], at + 1)
        BY <2>0, <2>2, <3>1, <3>8 DEF Moves, At, WorkInv, AppendsSafely
      <4>2. uploads'[u].received = at + 1 /\ file' = file /\ disk' = disk
        <5>1. uploads'[u].received = uploads[u].received + 1 /\ uploads[u].received = at
          BY <1>0, <2>2, <3>8, MovesEffect DEF RowInv, Moves
        <5>2. QED
          BY <3>8, <5>1 DEF Moves
      <4>3. QED
        BY <4>1, <4>2
    <3>9. CASE Record(t)
      BY <1>0, <1>1, <2>2, <3>9 DEF Record
    <3>10. QED
      BY <1>5, <3>2, <3>3, <3>4, <3>5, <3>6, <3>7, <3>8, <3>9 DEF Works
  <2>3. QED
    BY <2>1, <2>2
<1>6. CASE Crash
  <2>1. file'[u] \in AfterCrash(u) /\ disk' = file' /\ uploads' = uploads
    BY <1>6 DEF Crash
  <2>2. Sound(file'[u], n)
    BY <1>1, <1>2, <2>1, AfterCrashEffect
  <2>3. QED
    BY <2>1, <2>2
<1>7. CASE Quiet
  BY <1>3, <1>7 DEF Quiet, storeVars
<1>8. QED
  BY <1>0, <1>4, <1>5, <1>6, <1>7, StepStoreForms

----------------------------------------------------------------------------
\* The invariants of ObjectStore, and what they show.

\* What holds of all uploads, orphaned or not.
StoreInv == FilesTypeOK /\ LoopInv /\ RowInv /\ NameInv /\ orphaned \subseteq Uploads

\* And what the lock adds of those that are not orphaned.
LockedInv == StoreInv /\ LockInv /\ PlaceInv /\ WorkInv /\ NamedAreWhole /\ ReceivedIsSound

\* At first there are no uploads, objects or requests.
LEMMA InitIsMeant ==
  ASSUME UploadsAssumption, Init
  PROVE  LockedInv
<1>1. /\ None \notin Uploads
      /\ \A t \in Tasks : task[t] = IdleTask /\ ~Busy(t)
      /\ \A d \in Devices : client[d] = Resting("idle")
      /\ \A u \in Uploads : uploads[u] = None
      /\ \A b \in Blobs : synced[b] = None /\ renamed[b] = <<>>
      /\ <<>> \in Seq(Bytes) /\ <<>> \in Seq(Uploads)
  BY DEF UploadsAssumption, Init, Busy, IdleTask
<1>2. FilesTypeOK
  BY <1>1 DEF Init, FilesTypeOK
<1>3. LoopInv
  <2>1. TaskTypeOK
    BY DEF Init, TaskTypeOK
  <2>2. Resting("idle") \in Client /\ Resting("idle").upload = None
    BY RestingFields
  <2>3. ClientTypeOK
    BY <2>2 DEF Init, ClientTypeOK
  <2>4. ClientsMeant
    BY <1>1, <2>2 DEF ClientsMeant, Rests, Resting
  <2>5. AwaitedIsWaitedFor
    BY <1>1 DEF AwaitedIsWaitedFor
  <2>6. QED
    BY <2>1, <2>3, <2>4, <2>5 DEF LoopInv
<1>4. RowInv
  <2>1. Live = {} /\ \A d \in Devices : client[d].upload = None
    BY <1>1 DEF Live, Resting
  <2>2. TablesTypeOK
    BY DEF Init, TablesTypeOK
  <2>3. RowsMatch /\ ChunksFit
    BY <1>1, <2>1 DEF RowsMatch, ChunksFit
  <2>4. QED
    BY <2>2, <2>3 DEF RowInv
<1>5. NameInv
  BY <1>1 DEF Init, NameInv
<1>6. LockInv /\ WorkInv
  BY <1>1 DEF LockInv, Working, WorkInv
<1>7. /\ \A u \in Uploads, b \in Blobs : ~Named(u, b)
      /\ \A b \in Blobs : DOMAIN renamed[b] = {}
  BY <1>1 DEF Named
<1>8. PlaceInv /\ NamedAreWhole
  <2>1. PlaceInv
    BY <1>7 DEF PlaceInv
  <2>2. NamedAreWhole
    BY <1>7 DEF NamedAreWhole
  <2>3. QED
    BY <2>1, <2>2
<1>9. ReceivedIsSound
  BY <1>1 DEF ReceivedIsSound, Live
<1>10. QED
  BY <1>2, <1>3, <1>4, <1>5, <1>6, <1>8, <1>9 DEF Init, LockedInv, StoreInv

\* Whatever happens, dropped handlers included, the tables, directories, requests and
\* clients stay as they are meant.
LEMMA StoreInvariance == Spec => []StoreInv
<1>1. Init => StoreInv
  BY UploadsAssumption, InitIsMeant DEF LockedInv
<1>2. StoreInv /\ [Next]_vars => StoreInv'
  <2> SUFFICES ASSUME StoreInv, [Next]_vars
               PROVE  StoreInv'
    OBVIOUS
  <2>1. /\ TablesTypeOK /\ FilesTypeOK /\ LoopInv /\ RowInv /\ NameInv
        /\ orphaned \subseteq Uploads
    BY DEF StoreInv, RowInv
  <2>2. FilesTypeOK'
    BY <2>1, UploadsAssumption, StepFiles
  <2>3. LoopInv'
    BY <2>1, UploadsAssumption, StepLoop
  <2>4. RowInv'
    BY <2>1, UploadsAssumption, SizeAssumption, StepRows
  <2>5. NameInv'
    BY <2>1, UploadsAssumption, StepNames
  <2>6. (orphaned \subseteq Uploads)'
    BY <2>1, StepOrphans
  <2>7. QED
    BY <2>2, <2>3, <2>4, <2>5, <2>6 DEF StoreInv
<1>3. QED
  BY <1>1, <1>2, PTL DEF Spec

\* The files of uploads that are not orphaned hold what the tables say of them.
LEMMA LockedInvariance == Spec => []LockedInv
<1>1. Init => LockedInv
  BY UploadsAssumption, InitIsMeant
<1>2. LockedInv /\ [Next]_vars => LockedInv'
  <2> SUFFICES ASSUME LockedInv, [Next]_vars
               PROVE  LockedInv'
    OBVIOUS
  <2>1. /\ TablesTypeOK /\ FilesTypeOK /\ LoopInv /\ RowInv /\ NameInv
        /\ LockInv /\ PlaceInv /\ WorkInv /\ NamedAreWhole /\ ReceivedIsSound
        /\ orphaned \subseteq Uploads
    BY DEF LockedInv, StoreInv, RowInv
  <2>2. FilesTypeOK' /\ LoopInv' /\ RowInv' /\ NameInv' /\ (orphaned \subseteq Uploads)'
    BY <2>1, UploadsAssumption, SizeAssumption, StepFiles, StepLoop, StepRows, StepNames,
       StepOrphans
  <2>3. LockInv'
    BY <2>1, StepLock
  <2>4. PlaceInv'
    BY <2>1, UploadsAssumption, StepPlaces
  <2>5. WorkInv'
    BY <2>1, UploadsAssumption, StepWork
  <2>6. NamedAreWhole'
    BY <2>1, UploadsAssumption, StepNamedAreWhole
  <2>7. ReceivedIsSound'
    BY <2>1, UploadsAssumption, SizeAssumption, StepReceived
  <2>8. QED
    BY <2>2, <2>3, <2>4, <2>5, <2>6, <2>7 DEF LockedInv, StoreInv
<1>3. QED
  BY <1>1, <1>2, PTL DEF Spec

\* Every variable of the store keeps its type: whatever requests, crashes and dropped
\* handlers do, the tables of storage/blob.rs hold rows and its directories files, and no
\* late response revives an upload loop of the plugin that is over.
THEOREM StoreTypes == Spec => []TypeOK
<1>1. StoreInv => TypeOK
  BY DEF StoreInv, RowInv, LoopInv, TablesTypeOK, FilesTypeOK, TaskTypeOK, ClientTypeOK,
         ClientsMeant, TypeOK
<1>2. QED
  BY <1>1, StoreInvariance, PTL

\* A blob identifier that commit_upload has answered is that of a recorded object whose
\* directory entry outlives every crash, even if handlers are dropped half way.
THEOREM ConfirmedStaysNamed == Spec => []ConfirmedIsNamed
<1>1. StoreInv => ConfirmedIsNamed
  BY DEF StoreInv, NameInv, ConfirmedIsNamed
<1>2. QED
  BY <1>1, StoreInvariance, PTL

\* append_upload_chunk counts a chunk once, however many requests carry it: the offset of
\* an upload never jumps, never goes back and never passes the announced size.
THEOREM OffsetsOnlyAdvance == Spec => OffsetsAdvance
<1>1. StoreInv /\ [Next]_vars =>
        [\A u \in Live : uploads'[u] # None =>
           /\ uploads'[u].received \in {uploads[u].received, uploads[u].received + 1}
           /\ uploads'[u].received <= Size[uploads[u].blob]]_vars
  BY SizeAssumption, StepOffsets DEF StoreInv
<1>2. QED
  BY <1>1, StoreInvariance, PTL DEF Spec, OffsetsAdvance

\* What an upload row counts as received is on disk, without gaps, before and after every
\* crash: append_upload_chunk syncs a chunk before it counts it.  Handlers may be dropped;
\* only of the uploads that lose one while its closure runs nothing is said.
THEOREM ReceivedStaysDurable == Spec => []ReceivedIsDurable
<1>1. LockedInv => ReceivedIsDurable
  BY DEF LockedInv, ReceivedIsSound, ReceivedIsDurable, Sound
<1>2. QED
  BY <1>1, LockedInvariance, PTL

\* A recorded object has a file, and the file is whole, unless it is an orphan's.
LEMMA RecordedIsWhole ==
  ASSUME UploadsAssumption, LockedInv, NEW b \in blobs
  PROVE  /\ b \in Blobs /\ Object(b) # None
         /\ Object(b) \notin orphaned => Verifies(file[Object(b)], b)
<1>1. /\ FilesTypeOK /\ NamedAreWhole
      /\ b \in Blobs /\ synced[b] # None
      /\ None \notin Uploads
  BY DEF LockedInv, StoreInv, RowInv, TablesTypeOK, NameInv, UploadsAssumption
<1>2. Object(b) # None
  BY <1>1, ObjectType DEF Object
<1>3. Object(b) \in Uploads /\ Named(Object(b), b)
  BY <1>1, <1>2, ObjectIsNamed
<1>4. QED
  BY <1>1, <1>2, <1>3 DEF NamedAreWhole

\* Reading a published object returns the whole ciphertext that was hashed: no other
\* upload of it, no retry, no crash and no handler dropped from another upload leaves a row
\* without its file, or with a shorter or a different one.
THEOREM PublishedStaysIntact == Spec => []BlobsAreIntact
<1>1. LockedInv => BlobsAreIntact
  BY UploadsAssumption, RecordedIsWhole DEF BlobsAreIntact
<1>2. QED
  BY <1>1, LockedInvariance, PTL

\* Every step publishes an object, confirms one that can be read, or does neither.
LEMMA StepKeepsPromise ==
  ASSUME StoreInv, Readable = blobs, Readable' = blobs', [Next]_vars
  PROVE  [Promise!Next]_(Promise!vars)
<1>0. TablesTypeOK /\ LoopInv /\ TaskTypeOK /\ NameInv
  BY DEF StoreInv, RowInv, LoopInv
<1>1. SUFFICES \/ \E b \in Blobs : blobs' = blobs \cup {b} /\ confirmed' = confirmed
               \/ \E d \in Devices, b \in blobs :
                    /\ b \in Blobs
                    /\ confirmed' = confirmed \cup {<<d, b>>}
                    /\ blobs' = blobs
               \/ blobs' = blobs /\ confirmed' = confirmed
  BY DEF Promise!Next, Promise!Publish, Promise!Confirm, Promise!vars, Readable
<1>2. ASSUME NEW t \in Tasks, Record(t), blobs' = blobs \cup {task[t].blob}
      PROVE  \E b \in Blobs : blobs' = blobs \cup {b} /\ confirmed' = confirmed
  <2>1. task[t].blob \in Blobs
    BY <1>0, <1>2, WorkerIsBusy, TaskFields DEF Works
  <2>2. confirmed' = confirmed
    BY <1>2 DEF Record, Goto
  <2>3. QED
    BY <1>2, <2>1, <2>2
<1>3. ASSUME NEW t \in Tasks, RemovePart(t),
             confirmed' = confirmed \cup {<<task[t].device, task[t].blob>>}
      PROVE  \E d \in Devices, b \in blobs :
               b \in Blobs /\ confirmed' = confirmed \cup {<<d, b>>} /\ blobs' = blobs
  <2>1. Busy(t) /\ task[t].device \in Devices /\ task[t].blob \in Blobs
    BY <1>0, <1>3, WorkerIsBusy, TaskFields DEF Works
  <2>2. task[t].blob \in blobs /\ blobs' = blobs
    BY <1>0, <1>3, <2>1 DEF NameInv, RemovePart, At
  <2>3. QED
    BY <1>3, <2>1, <2>2
<1>4. QED
  BY <1>0, <1>2, <1>3, StepBlobs

\* The tables, directories and requests implement a store of immutable objects that
\* confirms an object only once it is recorded and named for ever, dropped handlers or not,
\* and, if no handler of its upload was dropped while its closure ran, whole for ever.
THEOREM StoreKeepsPromise == Spec => ImplementsPromise
<1>1. Init => Promise!Init
  BY DEF Init, Promise!Init, Readable
<1>2. LockedInv => Readable = blobs
  BY UploadsAssumption, RecordedIsWhole DEF Readable
<1>3. StoreInv /\ (Readable = blobs) /\ (Readable = blobs)' /\ [Next]_vars =>
        [Promise!Next]_(Promise!vars)
  BY StepKeepsPromise
<1>4. LockedInv => StoreInv
  BY DEF LockedInv
<1>5. QED
  BY LockedInvariance, <1>1, <1>2, <1>3, <1>4, PTL DEF Spec, ImplementsPromise, Promise!Spec
=============================================================================
