---------------------------- MODULE CommitProofs ----------------------------
(***************************************************************************)
(* Proofs about CommitStore, about CommitFeed, and about CommitIndex over  *)
(* the store's tables, for every set of devices, keys, records and workers,*)
(* every page size and every value of the limits.                          *)
(***************************************************************************)
EXTENDS CommitFeed, CommitIndex, NaturalsInduction, FiniteSetTheorems,
        WellFoundedInduction, TLAPS

\* A commit identifier is stored once: commit_id is the primary key.
IdsUnique ==
  \A row, other \in commits : row.record.id = other.record.id => row = other

\* The edge table holds the parents of the stored commits.
EdgesMatch ==
  /\ \A row \in commits : \A p \in row.record.parents :
       <<row.record.id, p>> \in edges
  /\ \A arc \in edges : \E row \in commits : \E p \in row.record.parents :
       arc = <<row.record.id, p>>

\* The part of the inductive invariant that speaks of the graph.
GraphInv ==
  /\ IsFiniteSet(commits)
  /\ IdsUnique
  /\ EdgesMatch
  /\ HeadsAreChildless
  /\ GraphWellFounded
  /\ SequencesContiguous
  /\ WithinLimits

\* What a request has established when it reaches a step.
RequestInv ==
  \A w \in Workers :
    /\ request[w].step # "idle" =>
         request[w].session \in Devices /\ request[w].record \in Records
    /\ request[w].step \in {"verified", "checked"} =>
         <<request[w].session, request[w].record.key>> \in registered
    /\ request[w].step = "checked" =>
         request[w].record.device = request[w].session

\* An active device's key is in the history of registrations.
KeysRegistered ==
  \A d \in Devices : Active(d) => <<d, publicKey[d]>> \in registered

\* The part of the inductive invariant that speaks of devices and requests.
ServiceInv ==
  /\ RequestInv
  /\ KeysRegistered
  /\ SignedByRegisteredKey
  /\ StoredRepliesAreTrue

----------------------------------------------------------------------------
\* Type correctness.

\* The fields of a record a client may send have their types.
LEMMA RecordFields ==
  ASSUME NEW c \in Records
  PROVE  /\ c \in SignedCommit
         /\ c.id \in Nat
         /\ c.device \in Devices
         /\ c.sequence \in Nat \ {0}
         /\ c.parents \subseteq Nat
         /\ c.key \in Keys
BY RecordsAssumption DEF SignedCommit

\* The transaction that stores a commit keeps every table well typed.
LEMMA InsertTypeOK ==
  ASSUME TypeOK, NEW w \in Workers, Insert(w), request[w].record \in Records
  PROVE  TypeOK'
<1> DEFINE c == request[w].record
<1>1. c \in Records /\ c.id \in Nat /\ c.parents \subseteq Nat
  BY RecordFields
<1>2. commits' \subseteq Row
  BY <1>1, BoundsAssumption DEF Insert, TypeOK, Row
<1>3. edges' \subseteq Nat \X Nat
  BY <1>1 DEF Insert, TypeOK
<1>4. HeadsWith(c) \subseteq Nat
  BY <1>1 DEF HeadsWith, TypeOK
<1>5. heads' \subseteq Nat
  BY <1>4 DEF Insert
<1>6. request' \in [Workers -> Request]
  <2> DEFINE answered == [request[w] EXCEPT !.step = "stored",
                                            !.reply = HeadsWith(c)]
  <2>1. request \in [Workers -> Request]
    BY DEF TypeOK
  <2>2. request[w] \in Request
    BY <2>1
  <2>3. answered \in Request
    BY <2>2, <1>4 DEF Request, Steps
  <2>4. request' = [request EXCEPT ![w] = answered]
    BY <2>1, <2>2 DEF Insert, Request
  <2>5. QED
    BY <2>1, <2>3, <2>4
<1>7. QED
  BY <1>2, <1>3, <1>5, <1>6 DEF Insert, TypeOK

\* Every step keeps the types: of the tables, and of the requests in flight.
LEMMA StepTypeOK ==
  ASSUME TypeOK, RequestInv, [Next]_vars
  PROVE  TypeOK'
<1>1. ASSUME NEW i \in Identities, Register(i[1], i[2])
      PROVE  TypeOK'
  <2> DEFINE d == i[1]
             k == i[2]
  <2>1. d \in Devices /\ k \in Keys /\ k # NoKey /\ i = <<d, k>>
    BY IdentitiesAssumption, BoundsAssumption
  <2>2. /\ status' = [status EXCEPT ![d] = "active"]
        /\ publicKey' = [publicKey EXCEPT ![d] = k]
        /\ registered' = registered \cup {<<d, k>>}
        /\ UNCHANGED <<commits, edges, heads, up, request, revoking>>
    BY <1>1 DEF Register
  <2> HIDE DEF d, k
  <2>3. \A e \in Devices : status'[e] = "absent" <=> publicKey'[e] = NoKey
    BY <2>1, <2>2 DEF TypeOK
  <2>4. QED
    BY <2>1, <2>2, <2>3 DEF TypeOK
<1>2. CASE \E s, t \in Devices : RevokeBegin(s, t)
  BY <1>2 DEF RevokeBegin, TypeOK
<1>3. ASSUME NEW t \in Devices, RevokeFinish(t)
      PROVE  TypeOK'
  <2>1. \A e \in Devices : status'[e] = "absent" <=> status[e] = "absent"
    BY <1>3 DEF RevokeFinish, Active, TypeOK
  <2>2. status' \in [Devices -> {"absent", "active", "revoked"}]
    BY <1>3 DEF RevokeFinish, TypeOK
  <2>3. QED
    BY <1>3, <2>1, <2>2 DEF RevokeFinish, TypeOK
<1>4. ASSUME NEW w \in Workers,
             \/ \E s \in Devices, c \in Records : Submit(w, s, c)
             \/ RequireDevice(w) \/ VerifySignature(w) \/ CheckSession(w)
             \/ Replay(w) \/ Refuse(w) \/ Answer(w) \/ Abandon(w)
      PROVE  TypeOK'
  <2>1. request' \in [Workers -> Request]
    BY <1>4 DEF Submit, RequireDevice, VerifySignature, CheckSession, Check,
                Replay, Refuse, Answer, Abandon, Goto, TypeOK, Request, Steps,
                Idle
  <2>2. UNCHANGED <<status, publicKey, commits, edges, heads, up, revoking,
                    registered>>
    BY <1>4 DEF Submit, RequireDevice, VerifySignature, CheckSession, Check,
                Replay, Refuse, Answer, Abandon
  <2>3. QED
    BY <2>1, <2>2 DEF TypeOK
<1>5. ASSUME NEW w \in Workers, Insert(w)
      PROVE  TypeOK'
  BY <1>5, InsertTypeOK DEF RequestInv, Insert
<1>6. CASE Crash
  BY <1>6 DEF Crash, TypeOK, Request, Steps, Idle
<1>7. CASE Restart
  <2>1. StoredIds \subseteq Nat
    BY RecordFields DEF StoredIds, TypeOK, Row
  <2>2. QED
    BY <1>7, <2>1 DEF Restart, Childless, TypeOK
<1>8. CASE UNCHANGED vars
  BY <1>8 DEF vars, TypeOK
<1>9. QED
  BY <1>1, <1>2, <1>3, <1>4, <1>5, <1>6, <1>7, <1>8
     DEF Next, DeviceNext, RequestNext
----------------------------------------------------------------------------
\* The graph.

\* Only Insert and Restart touch the tables of the graph.
LEMMA GraphUntouched ==
  ASSUME GraphInv, UNCHANGED graphVars
  PROVE  GraphInv'
BY DEF GraphInv, graphVars, IdsUnique, EdgesMatch, HeadsAreChildless,
       GraphWellFounded, SequencesContiguous, WithinLimits, Childless,
       StoredIds, SequencesOf

\* The row that Insert adds.
LEMMA InsertRow ==
  ASSUME NEW w \in Workers, Insert(w)
  PROVE  \E g \in 0 .. MaxCommits :
           /\ Follows(g, Generations(request[w].record.parents), 0)
           /\ commits' = commits \cup
                {[record |-> request[w].record, generation |-> g]}
BY DEF Insert

\* The transaction that stores a commit keeps the graph rooted, acyclic and
\* numbered, its heads childless, and all of it within the limits.
LEMMA InsertGraphInv ==
  ASSUME TypeOK, GraphInv, NEW w \in Workers, Insert(w),
         request[w].record \in Records
  PROVE  GraphInv'
<1>0. PICK c \in Records : c = request[w].record
  OBVIOUS
<1>1. PICK g \in 0 .. MaxCommits :
        /\ Follows(g, Generations(c.parents), 0)
        /\ commits' = commits \cup {[record |-> c, generation |-> g]}
  BY <1>0, InsertRow
<1> DEFINE new == [record |-> c, generation |-> g]
<1>2. /\ c \in Records /\ c.id \in Nat /\ c.parents \subseteq Nat
      /\ c.sequence \in Nat \ {0}
      /\ g \in Nat
      /\ new.record = c /\ new.generation = g
  BY RecordFields, BoundsAssumption
<1>3. /\ c.id \notin StoredIds
      /\ Cardinality(commits) < MaxCommits
      /\ commits = {} <=> c.parents = {}
      /\ Follows(c.sequence, SequencesOf(c.device), 1)
      /\ c.parents \subseteq StoredIds
      /\ edges' = edges \cup {<<c.id, p>> : p \in c.parents}
      /\ heads' = (heads \ c.parents) \cup {c.id}
      /\ Cardinality(heads') <= MaxHeads
  BY <1>0 DEF Insert, Acceptable, HeadsWith
<1>4. /\ \A row \in commits : row.record.id # c.id
      /\ new \notin commits
  BY <1>2, <1>3 DEF StoredIds
<1>5. \A row \in commits : /\ row.record \in Records
                          /\ row.record.id \in Nat
                          /\ row.record.sequence \in Nat \ {0}
                          /\ row.generation \in Nat
  BY RecordFields DEF TypeOK, Row
<1>6. StoredIds' = StoredIds \cup {c.id}
  BY <1>1, <1>2 DEF StoredIds
<1> HIDE DEF new
<1>7. commits' = commits \cup {new}
  BY <1>1 DEF new
<1>a. IsFiniteSet(commits')
  BY <1>7, FS_AddElement DEF GraphInv
<1>b. IdsUnique'
  BY <1>2, <1>4, <1>7 DEF GraphInv, IdsUnique
<1>c. EdgesMatch'
  <2>1. \A row \in commits' : \A p \in row.record.parents :
          <<row.record.id, p>> \in edges'
    BY <1>2, <1>3, <1>7 DEF GraphInv, EdgesMatch
  <2>2. \A arc \in edges' : \E row \in commits' : \E p \in row.record.parents :
          arc = <<row.record.id, p>>
    BY <1>2, <1>3, <1>7 DEF GraphInv, EdgesMatch
  <2>3. QED
    BY <2>1, <2>2 DEF EdgesMatch
<1>d. HeadsAreChildless'
  <2>1. \A arc \in edges : arc[2] \in StoredIds
    BY DEF GraphInv, EdgesMatch, GraphWellFounded, StoredIds
  <2>2. \A arc \in edges : arc[2] # c.id
    BY <2>1, <1>3
  <2>3. c.id \notin c.parents
    BY <1>3
  <2>4. \A i : (\A arc \in edges' : arc[2] # i)
               <=> (\A arc \in edges : arc[2] # i) /\ i \notin c.parents
    <3>1. \A p : <<c.id, p>>[2] = p
      OBVIOUS
    <3>2. \A p \in c.parents : <<c.id, p>> \in edges'
      BY <1>3
    <3>3. \A arc \in edges' : arc \in edges \/ \E p \in c.parents : arc = <<c.id, p>>
      BY <1>3
    <3>4. edges \subseteq edges'
      BY <1>3
    <3>5. QED
      BY <3>1, <3>2, <3>3, <3>4
  <2>5. QED
    BY <1>3, <1>6, <2>2, <2>3, <2>4 DEF GraphInv, HeadsAreChildless, Childless
<1>e. GraphWellFounded'
  <2>1. \A p \in c.parents : \E parent \in commits :
          parent.record.id = p /\ parent.generation < g
    <3>1. SUFFICES ASSUME NEW p \in c.parents
                   PROVE  \E parent \in commits :
                            parent.record.id = p /\ parent.generation < g
      OBVIOUS
    <3>2. PICK parent \in commits : parent.record.id = p
      BY <1>3 DEF StoredIds
    <3>3. parent.generation \in Generations(c.parents)
      BY <3>2 DEF Generations
    <3>4. QED
      BY <3>2, <3>3, <1>1 DEF Follows
  <2>2. IF c.parents = {}
        THEN g = 0
        ELSE \E parent \in commits :
               parent.record.id \in c.parents /\ g = parent.generation + 1
    <3>1. CASE c.parents = {}
      BY <3>1, <1>1 DEF Follows, Generations
    <3>2. CASE c.parents # {}
      <4>1. Generations(c.parents) # {}
        <5>1. PICK p \in c.parents : TRUE
          BY <3>2
        <5>2. PICK row \in commits : row.record.id = p
          BY <5>1, <1>3 DEF StoredIds
        <5>3. row.generation \in Generations(c.parents)
          BY <5>1, <5>2 DEF Generations
        <5>4. QED
          BY <5>3
      <4>2. \E m \in Generations(c.parents) : g = m + 1
        BY <4>1, <1>1 DEF Follows
      <4>3. QED
        BY <4>2, <3>2 DEF Generations
    <3>3. QED
      BY <3>1, <3>2
  <2>3. \E root \in commits' :
          \A row \in commits' : row.record.parents = {} <=> row = root
    <3>1. CASE commits = {}
      BY <3>1, <1>2, <1>3, <1>7
    <3>2. CASE commits # {}
      <4>1. PICK root \in commits :
              \A row \in commits : row.record.parents = {} <=> row = root
        BY <3>2 DEF GraphInv, GraphWellFounded
      <4>2. c.parents # {} /\ new # root
        BY <3>2, <1>3, <1>4
      <4>3. QED
        BY <4>1, <4>2, <1>2, <1>7
    <3>3. QED
      BY <3>1, <3>2
  <2>4. \A row \in commits' : \A p \in row.record.parents :
          \E parent \in commits' :
            parent.record.id = p /\ parent.generation < row.generation
    BY <2>1, <1>2, <1>7 DEF GraphInv, GraphWellFounded
  <2>5. \A row \in commits' :
          IF row.record.parents = {}
          THEN row.generation = 0
          ELSE \E parent \in commits' :
                 /\ parent.record.id \in row.record.parents
                 /\ row.generation = parent.generation + 1
    BY <2>2, <1>2, <1>7 DEF GraphInv, GraphWellFounded
  <2>6. QED
    BY <2>3, <2>4, <2>5 DEF GraphWellFounded
<1>f. SequencesContiguous'
  <2>1. \A d : SequencesOf(d)' =
          IF d = c.device THEN SequencesOf(d) \cup {c.sequence}
                          ELSE SequencesOf(d)
    BY <1>2, <1>7 DEF SequencesOf
  <2>2. \A n \in 1 .. c.sequence : n \in SequencesOf(c.device)'
    <3>1. SUFFICES ASSUME NEW n \in 1 .. c.sequence, n # c.sequence
                   PROVE  n \in SequencesOf(c.device)
      BY <2>1
    <3>2. SequencesOf(c.device) # {}
      BY <3>1, <1>2, <1>3 DEF Follows
    <3>3. PICK m \in SequencesOf(c.device) : c.sequence = m + 1
      BY <3>2, <1>3 DEF Follows
    <3>4. PICK row \in commits : row.record.device = c.device
                               /\ row.record.sequence = m
      BY DEF SequencesOf
    <3>5. n \in 1 .. m
      BY <3>1, <3>3, <3>4, <1>2, <1>5
    <3>6. QED
      BY <3>4, <3>5 DEF GraphInv, SequencesContiguous
  <2>3. \A row \in commits' : \A n \in 1 .. row.record.sequence :
          n \in SequencesOf(row.record.device)'
    <3>1. SUFFICES ASSUME NEW row \in commits', NEW n \in 1 .. row.record.sequence
                   PROVE  n \in SequencesOf(row.record.device)'
      OBVIOUS
    <3>2. CASE row \in commits
      <4>1. n \in SequencesOf(row.record.device)
        BY <3>1, <3>2 DEF GraphInv, SequencesContiguous
      <4>2. QED
        BY <4>1, <2>1
    <3>3. CASE row = new
      BY <3>1, <3>3, <2>2, <1>2
    <3>4. QED
      BY <3>2, <3>3, <1>7
  <2>4. \A row \in commits :
          row.record.device = c.device => row.record.sequence < c.sequence
    BY <1>3 DEF Follows, SequencesOf
  <2>5. \A row, other \in commits' :
          /\ row.record.device = other.record.device
          /\ row.record.sequence = other.record.sequence
          => row = other
    BY <2>4, <1>2, <1>5, <1>7 DEF GraphInv, SequencesContiguous
  <2>6. QED
    BY <2>3, <2>5 DEF SequencesContiguous
<1>g. WithinLimits'
  <2>1. Cardinality(commits') = Cardinality(commits) + 1
    BY <1>4, <1>7, FS_AddElement DEF GraphInv
  <2>2. Cardinality(commits) \in Nat
    BY FS_CardinalityType DEF GraphInv
  <2>3. QED
    BY <2>1, <2>2, <1>3, BoundsAssumption DEF WithinLimits
<1>h. QED
  BY <1>a, <1>b, <1>c, <1>d, <1>e, <1>f, <1>g DEF GraphInv

\* The recomputed head table is the present one.
LEMMA RestartKeepsHeads ==
  ASSUME GraphInv, Restart
  PROVE  UNCHANGED graphVars
BY DEF Restart, GraphInv, HeadsAreChildless, graphVars

\* Every step keeps the graph invariant: only Insert changes the graph, and
\* Restart writes the heads that are there already.
LEMMA StepGraphInv ==
  ASSUME TypeOK, RequestInv, GraphInv, [Next]_vars
  PROVE  GraphInv'
<1>1. CASE DeviceNext
  <2>1. UNCHANGED graphVars
    BY <1>1 DEF DeviceNext, Register, RevokeBegin, RevokeFinish, graphVars
  <2>2. QED
    BY <2>1, GraphUntouched
<1>2. ASSUME NEW w \in Workers, Insert(w)
      PROVE  GraphInv'
  BY <1>2, InsertGraphInv DEF RequestInv, Insert
<1>3. ASSUME NEW w \in Workers,
             \/ \E s \in Devices, c \in Records : Submit(w, s, c)
             \/ RequireDevice(w) \/ VerifySignature(w) \/ CheckSession(w)
             \/ Replay(w) \/ Refuse(w) \/ Answer(w) \/ Abandon(w)
      PROVE  GraphInv'
  <2>1. UNCHANGED graphVars
    BY <1>3 DEF Submit, RequireDevice, VerifySignature, CheckSession, Check,
                Replay, Refuse, Answer, Abandon, graphVars
  <2>2. QED
    BY <2>1, GraphUntouched
<1>4. CASE Crash \/ Restart \/ UNCHANGED vars
  <2>1. UNCHANGED graphVars
    BY <1>4, RestartKeepsHeads DEF Crash, vars, graphVars
  <2>2. QED
    BY <2>1, GraphUntouched
<1>5. QED
  BY <1>1, <1>2, <1>3, <1>4 DEF Next, RequestNext
----------------------------------------------------------------------------
\* Devices and requests.

\* A worker whose request stays as it is, or becomes idle or refused, keeps
\* what its request has established.
LEMMA StepRequestInv ==
  ASSUME TypeOK, RequestInv, KeysRegistered, [Next]_vars
  PROVE  RequestInv'
<1>1. registered \subseteq registered'
  BY DEF Next, DeviceNext, RequestNext, Register, RevokeBegin, RevokeFinish,
         Submit, RequireDevice, VerifySignature, CheckSession, Check, Insert,
         Replay, Refuse, Answer, Abandon, Crash, Restart, vars
<1>2. ASSUME UNCHANGED request
      PROVE  RequestInv'
  BY <1>1, <1>2 DEF RequestInv
<1>3. ASSUME NEW w \in Workers, NEW s \in Devices, NEW c \in Records, Submit(w, s, c)
      PROVE  RequestInv'
  BY <1>1, <1>3 DEF Submit, RequestInv, TypeOK, Request
<1>4. ASSUME NEW w \in Workers, RequireDevice(w)
      PROVE  RequestInv'
  BY <1>1, <1>4 DEF RequireDevice, Check, Goto, RequestInv, TypeOK, Request
<1>5. ASSUME NEW w \in Workers, VerifySignature(w)
      PROVE  RequestInv'
  BY <1>1, <1>5 DEF VerifySignature, Check, Goto, RequestInv, KeysRegistered,
                    TypeOK, Request
<1>6. ASSUME NEW w \in Workers, CheckSession(w)
      PROVE  RequestInv'
  BY <1>1, <1>6 DEF CheckSession, Check, Goto, RequestInv, TypeOK, Request
<1>7. ASSUME NEW w \in Workers, Insert(w) \/ Replay(w) \/ Refuse(w)
      PROVE  RequestInv'
  BY <1>1, <1>7 DEF Insert, Replay, Refuse, Goto, RequestInv, TypeOK, Request
<1>8. ASSUME NEW w \in Workers, Answer(w) \/ Abandon(w)
      PROVE  RequestInv'
  BY <1>1, <1>8 DEF Answer, Abandon, Idle, RequestInv, TypeOK, Request
<1>9. CASE Crash
  BY <1>9 DEF Crash, Idle, RequestInv
<1>10. CASE DeviceNext \/ Restart \/ UNCHANGED vars
  BY <1>2, <1>10 DEF DeviceNext, Register, RevokeBegin, RevokeFinish, Restart,
                     vars
<1>11. QED
  BY <1>3, <1>4, <1>5, <1>6, <1>7, <1>8, <1>9, <1>10 DEF Next, RequestNext

\* No registration or revocation leaves an active device whose key is not in
\* the history of registrations.
LEMMA StepKeysRegistered ==
  ASSUME TypeOK, KeysRegistered, [Next]_vars
  PROVE  KeysRegistered'
<1>1. ASSUME NEW d \in Devices, NEW k \in Keys, Register(d, k)
      PROVE  KeysRegistered'
  BY <1>1 DEF Register, KeysRegistered, Active, TypeOK
<1>2. ASSUME NEW t \in Devices, RevokeFinish(t)
      PROVE  KeysRegistered'
  BY <1>2 DEF RevokeFinish, KeysRegistered, Active, TypeOK
<1>3. ASSUME UNCHANGED deviceVars
      PROVE  KeysRegistered'
  BY <1>3 DEF deviceVars, KeysRegistered, Active
<1>4. CASE \E s, t \in Devices : RevokeBegin(s, t)
  BY <1>3, <1>4 DEF RevokeBegin, deviceVars
<1>5. CASE RequestNext
  BY <1>3, <1>5 DEF RequestNext, Submit, RequireDevice, VerifySignature,
     CheckSession, Check, Insert, Replay, Refuse, Answer, Abandon, deviceVars
<1>6. CASE Crash \/ Restart \/ UNCHANGED vars
  BY <1>3, <1>6 DEF Crash, Restart, vars, deviceVars
<1>7. QED
  BY <1>1, <1>2, <1>4, <1>5, <1>6, IdentitiesAssumption DEF Next, DeviceNext

\* What a step adds to the graph, it adds for the record of a checked request
\* of an active device.
LEMMA AddedRows ==
  ASSUME TypeOK, RequestInv, [Next]_vars
  PROVE  /\ commits \subseteq commits'
         /\ edges \subseteq edges'
         /\ \A row \in commits' \ commits :
              /\ Active(row.record.device)
              /\ <<row.record.device, row.record.key>> \in registered
<1>1. ASSUME UNCHANGED <<commits, edges>>
      PROVE  /\ commits \subseteq commits'
             /\ edges \subseteq edges'
             /\ commits' \ commits = {}
  BY <1>1
<1>2. ASSUME NEW w \in Workers, Insert(w)
      PROVE  /\ commits \subseteq commits'
             /\ edges \subseteq edges'
             /\ \A row \in commits' \ commits :
                  /\ Active(row.record.device)
                  /\ <<row.record.device, row.record.key>> \in registered
  <2>1. \A row \in commits' \ commits : row.record = request[w].record
    BY <1>2, InsertRow
  <2>2. /\ request[w].step = "checked"
        /\ Active(request[w].session)
        /\ commits \subseteq commits'
        /\ edges \subseteq edges'
    BY <1>2 DEF Insert
  <2>3. QED
    BY <2>1, <2>2 DEF RequestInv
<1>3. CASE DeviceNext \/ Crash \/ Restart \/ UNCHANGED vars
  BY <1>1, <1>3 DEF DeviceNext, Register, RevokeBegin, RevokeFinish, Crash,
                    Restart, vars
<1>4. ASSUME NEW w \in Workers,
             \/ \E s \in Devices, c \in Records : Submit(w, s, c)
             \/ RequireDevice(w) \/ VerifySignature(w) \/ CheckSession(w)
             \/ Replay(w) \/ Refuse(w) \/ Answer(w) \/ Abandon(w)
      PROVE  UNCHANGED <<commits, edges>>
  BY <1>4 DEF Submit, RequireDevice, VerifySignature, CheckSession, Check,
              Replay, Refuse, Answer, Abandon
<1>5. QED
  BY <1>1, <1>2, <1>3, <1>4 DEF Next, RequestNext

\* Every step keeps signatures valid: an inserted commit was verified with a
\* registered key, and registrations are never forgotten.
LEMMA StepSignedByRegisteredKey ==
  ASSUME TypeOK, RequestInv, SignedByRegisteredKey, [Next]_vars
  PROVE  SignedByRegisteredKey'
<1>1. registered \subseteq registered'
  BY DEF Next, DeviceNext, RequestNext, Register, RevokeBegin, RevokeFinish,
         Submit, RequireDevice, VerifySignature, CheckSession, Check, Insert,
         Replay, Refuse, Answer, Abandon, Crash, Restart, vars
<1>2. QED
  BY <1>1, AddedRows DEF SignedByRegisteredKey

\* Every step keeps pending "stored" answers true: commits never leave the
\* table, and both ways to reach an answer find the commit there.
LEMMA StepStoredRepliesAreTrue ==
  ASSUME TypeOK, RequestInv, GraphInv, StoredRepliesAreTrue, [Next]_vars
  PROVE  StoredRepliesAreTrue'
<1>1. /\ Stored \subseteq Stored'
      /\ StoredIds \subseteq StoredIds'
  BY AddedRows DEF Stored, StoredIds
<1>2. heads \subseteq StoredIds
  BY DEF GraphInv, HeadsAreChildless, Childless
<1>3. ASSUME NEW w \in Workers, Insert(w)
      PROVE  StoredRepliesAreTrue'
  <2>1. request[w].record \in Stored' /\ request[w].record.id \in StoredIds'
    <3>1. PICK g \in 0 .. MaxCommits :
            [record |-> request[w].record, generation |-> g] \in commits'
      BY <1>3, InsertRow
    <3>2. [record |-> request[w].record, generation |-> g].record
             = request[w].record
      OBVIOUS
    <3>3. QED
      BY <3>1, <3>2 DEF Stored, StoredIds
  <2>2. HeadsWith(request[w].record) \subseteq StoredIds'
    BY <1>1, <1>2, <2>1 DEF HeadsWith
  <2>3. QED
    BY <1>1, <1>3, <2>1, <2>2 DEF Insert, StoredRepliesAreTrue, TypeOK, Request
<1>4. ASSUME NEW w \in Workers, Replay(w)
      PROVE  StoredRepliesAreTrue'
  BY <1>1, <1>2, <1>4 DEF Replay, StoredRepliesAreTrue, TypeOK, Request
<1>5. ASSUME \A w \in Workers : request'[w].step = "stored" => request'[w] = request[w]
      PROVE  StoredRepliesAreTrue'
  BY <1>1, <1>5 DEF StoredRepliesAreTrue
<1>6. ASSUME NEW w \in Workers,
             \/ \E s \in Devices, c \in Records : Submit(w, s, c)
             \/ RequireDevice(w) \/ VerifySignature(w) \/ CheckSession(w)
             \/ Refuse(w) \/ Answer(w) \/ Abandon(w)
      PROVE  StoredRepliesAreTrue'
  BY <1>5, <1>6 DEF Submit, RequireDevice, VerifySignature, CheckSession, Check,
                    Refuse, Answer, Abandon, Goto, Idle, TypeOK, Request
<1>7. CASE DeviceNext \/ Crash \/ Restart \/ UNCHANGED vars
  BY <1>5, <1>7 DEF DeviceNext, Register, RevokeBegin, RevokeFinish, Crash,
                    Restart, vars, Idle
<1>8. QED
  BY <1>3, <1>4, <1>6, <1>7 DEF Next, RequestNext
----------------------------------------------------------------------------
\* The commit graph of the library.

\* A graph whose commits are numbers, in finite number, and have their parents in it with
\* smaller generations.
IsGraph(g) ==
  /\ IsFiniteSet(Graph!Ids(g)) /\ Graph!Ids(g) \subseteq Nat
  /\ \A i \in Graph!Ids(g) :
       /\ Graph!GenerationOf(g, i) \in Nat
       /\ \A p \in Graph!ParentsOf(g, i) :
            p \in Graph!Ids(g) /\ Graph!GenerationOf(g, p) < Graph!GenerationOf(g, i)

\* Not before one's own place in the order of generations and identifiers.
NotBehind(g, m, C) == \A o \in C : o = m \/ Graph!IsBefore(g, o, m)

\* What is reached from a commit in up to n steps, for every n up to a number.
AreLevels(level, g, s, last) ==
  level = [n \in 0 .. last |->
             IF n = 0
             THEN {s}
             ELSE level[n - 1] \cup UNION {Graph!ParentsOf(g, i) : i \in level[n - 1]}]

\* A set of numbers that is not empty has a least one.
LEMMA LeastNumber ==
  ASSUME NEW S \in SUBSET Nat, S # {}
  PROVE  \E x \in S : \A y \in S : x <= y
<1>1. PICK x \in S : \A y \in S : ~ (<<y, x>> \in OpToRel(<, Nat))
  BY WFMin, NatLessThanWellFounded, Zenon
<1>2. \A y \in S : ~ (y < x)
  BY <1>1 DEF OpToRel
<1>3. QED
  BY <1>2

\* A set of numbers without zero that no number enters first is empty: induction.
LEMMA NoneIsLeast ==
  ASSUME NEW Bad \in SUBSET Nat, 0 \notin Bad,
         \A n \in Nat : n \notin Bad => n + 1 \notin Bad
  PROVE  Bad = {}
<1>1. ASSUME Bad # {}
      PROVE  FALSE
  <2>1. PICK n \in Bad : \A m \in Bad : n <= m
    BY <1>1, LeastNumber
  <2>2. n - 1 \in Nat /\ n - 1 \notin Bad /\ n = (n - 1) + 1
    BY <2>1
  <2>3. QED
    BY <2>1, <2>2
<1>2. QED
  BY <1>1

\* The recursion of ancestors defines what it says, for any number of steps.
LEMMA LevelsExist ==
  ASSUME NEW g, NEW s, NEW N \in Nat
  PROVE  \E level : AreLevels(level, g, s, N)
<1> DEFINE Step(S) == S \cup UNION {Graph!ParentsOf(g, i) : i \in S}
           Is(f, n) == f = [k \in 0 .. n |-> IF k = 0 THEN {s} ELSE Step(f[k - 1])]
           Undefined == {n \in Nat : \A f : ~ Is(f, n)}
<1> HIDE DEF Step
<1>1. \A n \in Nat : n \notin Undefined <=> \E f : Is(f, n)
  <2> HIDE DEF Is
  <2>1. QED
    OBVIOUS
<1>2. 0 \notin Undefined
  <2>1. Is([k \in 0 .. 0 |-> {s}], 0)
    OBVIOUS
  <2>2. QED
    BY <2>1
<1>3. ASSUME NEW m \in Nat, m \notin Undefined
      PROVE  m + 1 \notin Undefined
  <2>1. PICK f : Is(f, m)
    BY <1>1, <1>3
  <2> DEFINE n == m + 1
             h == [k \in 0 .. n |-> IF k = n THEN Step(f[m]) ELSE f[k]]
  <2>2. \A k \in 0 .. n : h[k] = (IF k = 0 THEN {s} ELSE Step(h[k - 1]))
    <3>1. TAKE k \in 0 .. n
    <3>2. CASE k = n
      <4>1. h[k] = Step(f[m]) /\ h[k - 1] = f[m] /\ k # 0
        BY <3>2
      <4>2. QED
        BY <4>1, <3>2
    <3>3. CASE k # n
      <4>1. k \in 0 .. m /\ h[k] = f[k]
        BY <3>1, <3>3
      <4>2. f[k] = (IF k = 0 THEN {s} ELSE Step(f[k - 1]))
        BY <4>1, <2>1
      <4>3. k # 0 => k - 1 \in 0 .. m /\ h[k - 1] = f[k - 1]
        BY <4>1
      <4>4. QED
        BY <4>1, <4>2, <4>3
    <3>4. QED
      BY <3>2, <3>3
  <2>3. Is(h, n)
    BY <2>2
  <2>4. QED
    BY <2>3, <1>1
<1>4. Undefined = {}
  <2>1. Undefined \in SUBSET Nat
    OBVIOUS
  <2> HIDE DEF Undefined
  <2>2. QED
    BY <2>1, <1>2, <1>3, NoneIsLeast
<1>5. PICK f : Is(f, N)
  BY <1>1, <1>4
<1>6. AreLevels(f, g, s, N)
  BY <1>5 DEF Step, AreLevels
<1>7. QED
  BY <1>6

\* The graph counts with the same operator.
LEMMA IndexCardinality == \A S : Graph!Cardinality(S) = Cardinality(S)
BY DEF Graph!Cardinality, Cardinality

\* What holds of the commits that are found in n steps.
Reached(g, s, found, n) ==
  /\ s \in found
  /\ \A a \in found :
       /\ a \in Graph!Ids(g)
       /\ a = s \/ Graph!GenerationOf(g, a) < Graph!GenerationOf(g, s)
       /\ a # s => \E i \in found : a \in Graph!ParentsOf(g, i)
  /\ \/ Cardinality(found) > n
     \/ \A a \in found : Graph!ParentsOf(g, a) \subseteq found

\* One step more finds parents only, or has found them all.
LEMMA OneStepMore ==
  ASSUME NEW g, IsGraph(g), NEW s \in Graph!Ids(g), NEW found, NEW n \in Nat,
         Reached(g, s, found, n)
  PROVE  Reached(g, s, found \cup UNION {Graph!ParentsOf(g, i) : i \in found}, n + 1)
<1> DEFINE more == found \cup UNION {Graph!ParentsOf(g, i) : i \in found}
<1>1. \A a \in more : a \in found \/ \E i \in found : a \in Graph!ParentsOf(g, i)
  OBVIOUS
<1>2. \A a \in found : Graph!ParentsOf(g, a) \subseteq more
  OBVIOUS
<1>3. found \subseteq more
  OBVIOUS
<1> HIDE DEF more
<1>4. ASSUME NEW a \in more
      PROVE  /\ a \in Graph!Ids(g)
             /\ a = s \/ Graph!GenerationOf(g, a) < Graph!GenerationOf(g, s)
             /\ a # s => \E i \in more : a \in Graph!ParentsOf(g, i)
  <2>1. CASE a \in found
    BY <2>1, <1>3 DEF Reached
  <2>2. CASE \E i \in found : a \in Graph!ParentsOf(g, i)
    <3>1. PICK i \in found : a \in Graph!ParentsOf(g, i)
      BY <2>2
    <3>2. /\ i \in Graph!Ids(g)
          /\ i = s \/ Graph!GenerationOf(g, i) < Graph!GenerationOf(g, s)
      BY DEF Reached
    <3>3. a \in Graph!Ids(g) /\ Graph!GenerationOf(g, a) < Graph!GenerationOf(g, i)
      BY <3>1, <3>2 DEF IsGraph
    <3>4. Graph!GenerationOf(g, a) < Graph!GenerationOf(g, s)
      BY <3>2, <3>3 DEF IsGraph
    <3>5. QED
      BY <3>1, <3>3, <3>4, <1>3
  <2>3. QED
    BY <2>1, <2>2, <1>1
<1>5. \/ Cardinality(more) > n + 1
      \/ \A a \in more : Graph!ParentsOf(g, a) \subseteq more
  <2>1. CASE more = found
    BY <2>1, <1>2
  <2>2. CASE more # found
    <3>1. ~ \A a \in found : Graph!ParentsOf(g, a) \subseteq found
      BY <2>2, <1>1, <1>3
    <3>2. Cardinality(found) > n
      BY <3>1 DEF Reached
    <3>3. IsFiniteSet(more)
      BY <1>4, FS_Subset DEF IsGraph
    <3>4. /\ Cardinality(found) <= Cardinality(more)
          /\ Cardinality(found) # Cardinality(more)
      BY <3>3, <1>3, <2>2, FS_Subset
    <3>5. Cardinality(found) \in Nat /\ Cardinality(more) \in Nat
      BY <3>3, <1>3, FS_Subset, FS_CardinalityType
    <3>6. QED
      BY <3>2, <3>4, <3>5
  <2>3. QED
    BY <2>1, <2>2
<1>6. s \in more
  BY <1>3 DEF Reached
<1>7. Reached(g, s, more, n + 1)
  BY <1>4, <1>5, <1>6 DEF Reached
<1>8. QED
  BY <1>7 DEF more

\* ancestors finds the commit and all that its parents lead to: each but the first is a
\* parent of another, has a smaller generation, and has its own parents among them.
LEMMA AncestorsFacts ==
  ASSUME NEW g, IsGraph(g), NEW s \in Graph!Ids(g)
  PROVE  /\ s \in Graph!Ancestors(g, s)
         /\ \A a \in Graph!Ancestors(g, s) :
              /\ a \in Graph!Ids(g)
              /\ a = s \/ Graph!GenerationOf(g, a) < Graph!GenerationOf(g, s)
              /\ a # s => \E i \in Graph!Ancestors(g, s) : a \in Graph!ParentsOf(g, i)
              /\ Graph!ParentsOf(g, a) \subseteq Graph!Ancestors(g, s)
<1> DEFINE N == Graph!Cardinality(Graph!Ids(g))
<1>1. N \in Nat /\ N = Cardinality(Graph!Ids(g))
  BY IndexCardinality, FS_CardinalityType DEF IsGraph
<1> DEFINE level == CHOOSE f : AreLevels(f, g, s, N)
<1>2. Graph!Ancestors(g, s) = level[N]
  BY DEF Graph!Ancestors, AreLevels
<1> HIDE DEF N
<1>3. AreLevels(level, g, s, N)
  BY <1>1, LevelsExist
<1> HIDE DEF level
<1> DEFINE Bad == {n \in Nat : n <= N /\ ~ Reached(g, s, level[n], n)}
<1>4. 0 \notin Bad
  <2>1. level[0] = {s}
    BY <1>1, <1>3 DEF AreLevels
  <2>2. Cardinality({s}) = 1
    BY FS_Singleton
  <2>3. Reached(g, s, {s}, 0)
    BY <2>2 DEF Reached
  <2>4. QED
    BY <2>1, <2>3
<1>5. ASSUME NEW n \in Nat, n \notin Bad
      PROVE  n + 1 \notin Bad
  <2>1. SUFFICES ASSUME n + 1 <= N
                 PROVE  Reached(g, s, level[n + 1], n + 1)
    OBVIOUS
  <2>2. Reached(g, s, level[n], n)
    BY <1>1, <1>5, <2>1
  <2>3. level[n + 1] = level[n] \cup UNION {Graph!ParentsOf(g, i) : i \in level[n]}
    <3>1. n + 1 \in 0 .. N /\ n + 1 # 0 /\ (n + 1) - 1 = n
      BY <1>1, <2>1
    <3>2. QED
      BY <3>1, <1>3 DEF AreLevels
  <2>4. QED
    BY <2>2, <2>3, OneStepMore
<1>6. Bad = {}
  <2>1. Bad \in SUBSET Nat
    OBVIOUS
  <2> HIDE DEF Bad
  <2>2. QED
    BY <2>1, <1>4, <1>5, NoneIsLeast
<1>7. Reached(g, s, level[N], N)
  BY <1>1, <1>6
<1>8. \A a \in level[N] : Graph!ParentsOf(g, a) \subseteq level[N]
  <2>1. level[N] \subseteq Graph!Ids(g)
    BY <1>7 DEF Reached
  <2>2. Cardinality(level[N]) <= N /\ Cardinality(level[N]) \in Nat
    BY <2>1, <1>1, FS_Subset, FS_CardinalityType DEF IsGraph
  <2>3. QED
    BY <1>1, <1>7, <2>2 DEF Reached
<1>9. QED
  BY <1>2, <1>7, <1>8 DEF Reached

\* Some of the commits that are chosen are behind no other.
LEMMA LastOne ==
  ASSUME NEW g, IsGraph(g), NEW C \in SUBSET Graph!Ids(g), C # {}
  PROVE  \E m \in C : NotBehind(g, m, C)
<1> DEFINE Unled == {n \in Nat : \E T \in SUBSET C : /\ T # {} /\ Cardinality(T) = n
                                                  /\ \A m \in T : ~ NotBehind(g, m, T)}
<1>1. IsFiniteSet(C) /\ \A T \in SUBSET C : IsFiniteSet(T) /\ Cardinality(T) \in Nat
  BY FS_Subset, FS_CardinalityType DEF IsGraph
<1>2. CASE Unled # {}
  <2>1. PICK n \in Unled : \A k \in Unled : n <= k
    BY <1>2, LeastNumber
  <2>2. PICK T \in SUBSET C : /\ T # {} /\ Cardinality(T) = n
                              /\ \A m \in T : ~ NotBehind(g, m, T)
    BY <2>1
  <2>3. PICK x \in T : TRUE
    BY <2>2
  <2> DEFINE R == T \ {x}
  <2>4. Cardinality(R) = n - 1 /\ Cardinality(R) \in Nat
    BY <1>1, <2>2, <2>3, FS_RemoveElement
  <2>5. R # {}
    BY <2>2, <2>3 DEF NotBehind
  <2>6. PICK m \in R : NotBehind(g, m, R)
    BY <2>1, <2>4, <2>5
  <2>7. NotBehind(g, x, T) \/ NotBehind(g, m, T)
    <3>1. x \in Graph!Ids(g) /\ m \in Graph!Ids(g) /\ x # m /\ T \subseteq Graph!Ids(g)
      BY <2>3, <2>6
    <3>2. Graph!IsBefore(g, x, m) \/ Graph!IsBefore(g, m, x)
      BY <3>1 DEF Graph!IsBefore, IsGraph
    <3>3. CASE Graph!IsBefore(g, x, m)
      BY <3>3, <2>6 DEF NotBehind
    <3>4. CASE Graph!IsBefore(g, m, x)
      <4>1. ASSUME NEW o \in R
            PROVE  Graph!IsBefore(g, o, x)
        BY <3>1, <3>4, <2>6 DEF Graph!IsBefore, IsGraph, NotBehind
      <4>2. QED
        BY <4>1 DEF NotBehind
    <3>5. QED
      BY <3>2, <3>3, <3>4
  <2>8. QED
    BY <2>7, <2>6, <2>3, <2>2
<1>3. CASE Unled = {}
  BY <1>3, <1>1
<1>4. QED
  BY <1>2, <1>3

\* The common ancestor of two commits has none of what they share among its descendants.
LEMMA LatestOfGraph ==
  ASSUME NEW g, IsGraph(g), NEW i \in Graph!Ids(g), NEW j \in Graph!Ids(g),
         NEW other \in (Graph!Ancestors(g, i) \cap Graph!Ancestors(g, j))
                         \ {Graph!CommonAncestor(g, i, j)}
  PROVE  Graph!CommonAncestor(g, i, j) \notin Graph!Ancestors(g, other)
<1> DEFINE C == Graph!Ancestors(g, i) \cap Graph!Ancestors(g, j)
<1> DEFINE base == Graph!CommonAncestor(g, i, j)
<1>1. C \in SUBSET Graph!Ids(g) /\ C # {}
  BY AncestorsFacts
<1>2. base = CHOOSE m \in C : NotBehind(g, m, C)
  BY DEF Graph!CommonAncestor, Graph!Common, NotBehind
<1>3. base \in C /\ NotBehind(g, base, C)
  BY <1>1, <1>2, LastOne
<1>4. other # base /\ other \in C
  OBVIOUS
<1> HIDE DEF base
<1>5. Graph!IsBefore(g, other, base)
  BY <1>3, <1>4 DEF NotBehind
<1>6. other \in Graph!Ids(g) /\ base \in Graph!Ids(g) /\ other # base
  BY <1>1, <1>3, <1>4
<1>7. ASSUME base \in Graph!Ancestors(g, other)
      PROVE  FALSE
  <2>1. Graph!GenerationOf(g, base) < Graph!GenerationOf(g, other)
    BY <1>6, <1>7, AncestorsFacts
  <2>2. QED
    BY <2>1, <1>5, <1>6 DEF Graph!IsBefore, IsGraph
<1>8. QED
  BY <1>7 DEF base

\* Those of a set that come before one.
Earlier(g, S, i) == {o \in S : Graph!IsBefore(g, o, i)}

\* Generations and then identifiers are a strict total order.
LEMMA BeforeFacts ==
  ASSUME NEW g, IsGraph(g), NEW i \in Graph!Ids(g), NEW j \in Graph!Ids(g)
  PROVE  /\ ~ Graph!IsBefore(g, i, i)
         /\ i # j => Graph!IsBefore(g, i, j) \/ Graph!IsBefore(g, j, i)
         /\ ~ (Graph!IsBefore(g, i, j) /\ Graph!IsBefore(g, j, i))
         /\ \A k \in Graph!Ids(g) :
              Graph!IsBefore(g, i, j) /\ Graph!IsBefore(g, j, k) => Graph!IsBefore(g, i, k)
BY DEF IsGraph, Graph!IsBefore

\* Who is later in that order has more commits before it.
LEMMA PlacesDiffer ==
  ASSUME NEW g, IsGraph(g), NEW S \in SUBSET Graph!Ids(g), NEW i \in S, NEW j \in S,
         Graph!IsBefore(g, i, j)
  PROVE  /\ Cardinality(Earlier(g, S, i)) \in Nat /\ Cardinality(Earlier(g, S, j)) \in Nat
         /\ Cardinality(Earlier(g, S, i)) < Cardinality(Earlier(g, S, j))
<1>1. Earlier(g, S, i) \subseteq Earlier(g, S, j)
  BY BeforeFacts DEF Earlier
<1>2. i \in Earlier(g, S, j) /\ i \notin Earlier(g, S, i)
  BY BeforeFacts DEF Earlier
<1>3. IsFiniteSet(Earlier(g, S, j))
  BY FS_Subset DEF Earlier, IsGraph
<1>4. QED
  BY <1>1, <1>2, <1>3, FS_Subset, FS_CardinalityType

\* missing_from lists what is not known, each commit once and in that order.
LEMMA OrderedFacts ==
  ASSUME NEW g, IsGraph(g), NEW K
  PROVE  LET S == Graph!Ids(g) \ K
             q == Graph!MissingFrom(g, K)
             n == Cardinality(S)
         IN  /\ n \in Nat /\ Len(q) = n
             /\ \A k \in 1 .. n : q[k] \in S
             /\ \A i \in S : \E k \in 1 .. n : q[k] = i
             /\ \A k, l \in 1 .. n : k < l => Graph!IsBefore(g, q[k], q[l])
<1> DEFINE S == Graph!Ids(g) \ K
           n == Cardinality(S)
           place == [i \in S |-> Cardinality(Earlier(g, S, i))]
           q == [k \in 1 .. n |-> CHOOSE i \in S : place[i] = k - 1]
<1>1. IsFiniteSet(S) /\ n \in Nat
  BY FS_Subset, FS_CardinalityType DEF IsGraph
<1>2. Graph!MissingFrom(g, K) = q
  <2>1. Graph!MissingFrom(g, K)
          = [k \in 1 .. n |-> CHOOSE i \in S : Cardinality(Earlier(g, S, i)) = k - 1]
    BY DEF Graph!MissingFrom, Graph!InOrder, Graph!Cardinality, Cardinality, Earlier
  <2>2. \A k : (CHOOSE i \in S : Cardinality(Earlier(g, S, i)) = k - 1)
                = CHOOSE i \in S : place[i] = k - 1
    OBVIOUS
  <2>3. QED
    BY <2>1, <2>2
<1>3. S \in SUBSET Graph!Ids(g)
  OBVIOUS
<1> HIDE DEF S
<1>4. \A i \in S : place[i] \in 0 .. (n - 1)
  <2>1. TAKE i \in S
  <2>2. Earlier(g, S, i) \subseteq S /\ i \notin Earlier(g, S, i)
    BY <1>3, BeforeFacts DEF Earlier
  <2>3. QED
    BY <1>1, <2>2, FS_Subset, FS_CardinalityType
<1>5. \A i, j \in S : Graph!IsBefore(g, i, j) => place[i] < place[j]
  BY <1>3, PlacesDiffer
<1> HIDE DEF n
<1>6. \A i, j \in S : place[i] = place[j] => i = j
  BY <1>3, <1>4, <1>5, BeforeFacts
<1>7. \A k \in 1 .. n : \E i \in S : place[i] = k - 1
  <2>1. IsFiniteSet(0 .. (n - 1)) /\ Cardinality(0 .. (n - 1)) = n
    BY <1>1, FS_Interval
  <2>2. place \in Injection(S, 0 .. (n - 1))
    BY <1>4, <1>6 DEF Injection, IsInjective
  <2>3. place \in Surjection(S, 0 .. (n - 1))
    BY <1>1, <2>1, <2>2, FS_Injection DEF n
  <2> HIDE DEF place
  <2>4. TAKE k \in 1 .. n
  <2>5. k - 1 \in 0 .. (n - 1)
    BY <1>1
  <2>6. QED
    BY <2>3, <2>5 DEF Surjection
<1> HIDE DEF place
<1>8. \A k \in 1 .. n : q[k] \in S /\ place[q[k]] = k - 1
  BY <1>7
<1>9. \A i \in S : \E k \in 1 .. n : q[k] = i
  <2>1. TAKE i \in S
  <2>2. place[i] + 1 \in 1 .. n /\ (place[i] + 1) - 1 = place[i]
    BY <1>1, <1>4
  <2>3. q[place[i] + 1] = i
    BY <2>2, <1>6, <1>8
  <2>4. QED
    BY <2>2, <2>3
<1>10. \A k, l \in 1 .. n : k < l => Graph!IsBefore(g, q[k], q[l])
  <2>1. TAKE k, l \in 1 .. n
  <2>2. SUFFICES ASSUME k < l, ~ Graph!IsBefore(g, q[k], q[l])
                 PROVE  FALSE
    OBVIOUS
  <2>3. /\ q[k] \in S /\ place[q[k]] = k - 1
        /\ q[l] \in S /\ place[q[l]] = l - 1
    BY <1>8
  <2> HIDE DEF q
  <2>4. q[k] = q[l] \/ place[q[l]] < place[q[k]]
    BY <1>3, <1>5, <2>2, <2>3, BeforeFacts
  <2>5. QED
    BY <1>1, <2>2, <2>3, <2>4
<1>11. Len(q) = n
  <2>1. q \in Seq(S)
    BY <1>1, <1>8
  <2>2. QED
    BY <1>1, <2>1
<1>12. QED
  BY <1>1, <1>2, <1>8, <1>9, <1>10, <1>11 DEF n, S

\* A graph as the tables of the server give it: one root, generations that are lengths of
\* paths, and the commits without a child for heads.
IsWhole(t) ==
  /\ IsGraph(t)
  /\ t = [nodes |-> [i \in Graph!Ids(t) |->
                       [parents |-> Graph!ParentsOf(t, i),
                        generation |-> Graph!GenerationOf(t, i)]],
          heads |-> Graph!RecoveredHeads(t)]
  /\ \A i \in Graph!Ids(t) :
       IF Graph!ParentsOf(t, i) = {}
       THEN Graph!GenerationOf(t, i) = 0
       ELSE \E p \in Graph!ParentsOf(t, i) :
              Graph!GenerationOf(t, i) = 1 + Graph!GenerationOf(t, p)
  /\ \A i, j \in Graph!Ids(t) :
       Graph!ParentsOf(t, i) = {} /\ Graph!ParentsOf(t, j) = {} => i = j

\* Commits of a graph with all their parents.
IsClosed(t, K) ==
  K \subseteq Graph!Ids(t) /\ \A i \in K : Graph!ParentsOf(t, i) \subseteq K

\* The commits of a part, their parents and generations.
LEMMA PartFacts ==
  ASSUME NEW t, NEW K
  PROVE  /\ Graph!Ids(Part(t, K)) = K
         /\ \A i \in K : /\ Graph!ParentsOf(Part(t, K), i) = Graph!ParentsOf(t, i)
                          /\ Graph!GenerationOf(Part(t, K), i) = Graph!GenerationOf(t, i)
         /\ Part(t, K).heads = K \ UNION {Graph!ParentsOf(t, i) : i \in K}
BY DEF Part, Graph!Ids, Graph!ParentsOf, Graph!GenerationOf

\* Commits that have all their parents among them have the root among them.
LEMMA RootsAreFirst ==
  ASSUME NEW t, IsWhole(t), NEW K, IsClosed(t, K), K # {}
  PROVE  \E i \in K : Graph!ParentsOf(t, i) = {}
<1> DEFINE gens == {Graph!GenerationOf(t, i) : i \in K}
<1>1. gens \in SUBSET Nat /\ gens # {}
  BY DEF IsClosed, IsWhole, IsGraph
<1>2. PICK n \in gens : \A m \in gens : n <= m
  BY <1>1, LeastNumber
<1>3. PICK i \in K : Graph!GenerationOf(t, i) = n
  BY <1>2
<1>4. ASSUME NEW p \in Graph!ParentsOf(t, i)
      PROVE  FALSE
  <2>1. p \in K /\ Graph!GenerationOf(t, p) < n /\ Graph!GenerationOf(t, p) \in gens
    BY <1>3, <1>4 DEF IsClosed, IsWhole, IsGraph
  <2>2. QED
    BY <1>1, <1>2, <2>1
<1>5. QED
  BY <1>3, <1>4

\* The insertion of a commit whose parents are there is never refused, and gives the
\* generation and the heads of the larger part.
LEMMA PartGrows ==
  ASSUME NEW t, IsWhole(t), NEW K, IsClosed(t, K), NEW i \in Graph!Ids(t) \ K,
         Graph!ParentsOf(t, i) \subseteq K
  PROVE  /\ Graph!Insert(Part(t, K), i, Graph!ParentsOf(t, i)) = Part(t, K \cup {i})
         /\ IsClosed(t, K \cup {i})
<1> DEFINE g == Part(t, K)
           ps == Graph!ParentsOf(t, i)
<1>1. /\ Graph!Ids(g) = K
      /\ \A j \in K : /\ Graph!ParentsOf(g, j) = Graph!ParentsOf(t, j)
                       /\ Graph!GenerationOf(g, j) = Graph!GenerationOf(t, j)
      /\ g.heads = K \ UNION {Graph!ParentsOf(t, j) : j \in K}
  BY PartFacts
<1>2. IsClosed(t, K \cup {i})
  BY DEF IsClosed
<1>3. Graph!Refusal(g, i, ps) = "none"
  <2>1. ps = {} => K = {}
    <3>1. ASSUME ps = {}, K # {}
          PROVE  FALSE
      <4>1. PICK r \in K : Graph!ParentsOf(t, r) = {}
        BY <3>1, RootsAreFirst
      <4>2. r = i
        BY <3>1, <4>1 DEF IsWhole, IsClosed
      <4>3. QED
        BY <4>2
    <3>2. QED
      BY <3>1
  <2>2. QED
    BY <1>1, <2>1 DEF Graph!Refusal
<1>4. Graph!NewGeneration(g, ps) = Graph!GenerationOf(t, i)
  <2>1. CASE ps = {}
    BY <2>1 DEF Graph!NewGeneration, IsWhole
  <2>2. CASE ps # {}
    <3> DEFINE gens == {Graph!GenerationOf(g, p) : p \in ps}
               n == Graph!GenerationOf(t, i)
    <3>1. n \in Nat /\ \A m \in gens : m \in Nat /\ m < n
      BY <1>1 DEF IsWhole, IsGraph
    <3>2. n - 1 \in gens
      <4>1. PICK p \in ps : n = 1 + Graph!GenerationOf(t, p)
        BY <2>2 DEF IsWhole
      <4>2. Graph!GenerationOf(g, p) = Graph!GenerationOf(t, p) /\ Graph!GenerationOf(g, p) \in gens
        BY <1>1
      <4>3. Graph!GenerationOf(t, p) \in Nat
        BY <4>2, <3>1
      <4>4. QED
        BY <4>1, <4>2, <4>3, <3>1
    <3> HIDE DEF gens, n
    <3>3. Graph!Max(gens) = n - 1
      BY <3>1, <3>2 DEF Graph!Max
    <3>4. Graph!NewGeneration(g, ps) = 1 + Graph!Max(gens)
      BY <2>2 DEF Graph!NewGeneration, gens
    <3>5. QED
      BY <3>1, <3>3, <3>4 DEF n
  <2>3. QED
    BY <2>1, <2>2
<1>5. Graph!NewHeads(g, i, ps)
        = (K \cup {i}) \ UNION {Graph!ParentsOf(t, j) : j \in K \cup {i}}
  <2>1. i \notin ps
    BY DEF IsWhole, IsGraph
  <2>2. \A j \in K : i \notin Graph!ParentsOf(t, j)
    BY DEF IsClosed
  <2>3. QED
    BY <1>1, <2>1, <2>2 DEF Graph!NewHeads
<1>6. /\ \A j \in K : g.nodes[j] = t.nodes[j]
      /\ t.nodes[i] = [parents |-> ps, generation |-> Graph!GenerationOf(t, i)]
  BY DEF Part, IsWhole
<1>7. Graph!Insert(g, i, ps)
        = [nodes |-> [j \in K \cup {i} |->
                       IF j = i
                       THEN [parents |-> ps, generation |-> Graph!GenerationOf(t, i)]
                       ELSE g.nodes[j]],
           heads |-> (K \cup {i}) \ UNION {Graph!ParentsOf(t, j) : j \in K \cup {i}}]
  <2> HIDE DEF g
  <2>1. QED
    BY <1>1, <1>3, <1>4, <1>5 DEF Graph!Insert
<1>8. [j \in K \cup {i} |->
         IF j = i THEN [parents |-> ps, generation |-> Graph!GenerationOf(t, i)]
         ELSE g.nodes[j]]
        = [j \in K \cup {i} |-> t.nodes[j]]
  BY <1>6
<1>9. QED
  BY <1>2, <1>7, <1>8 DEF Part

\* Any commit is inserted into a part, whether it is taken or refused or there already.
LEMMA PartTakes ==
  ASSUME NEW t, IsWhole(t), NEW K, IsClosed(t, K), NEW i \in Graph!Ids(t)
  PROVE  Graph!Insert(Part(t, K), i, Graph!ParentsOf(t, i))
           = Part(t, IF Graph!ParentsOf(t, i) \subseteq K THEN K \cup {i} ELSE K)
<1> DEFINE g == Part(t, K)
           ps == Graph!ParentsOf(t, i)
<1>1. Graph!Ids(g) = K /\ \A j \in K : Graph!ParentsOf(g, j) = Graph!ParentsOf(t, j)
  BY PartFacts
<1>2. CASE i \in K
  <2>1. ps \subseteq K /\ K \cup {i} = K
    BY <1>2 DEF IsClosed
  <2>2. Graph!Refusal(g, i, ps) = "duplicate"
    BY <1>1, <1>2 DEF Graph!Refusal
  <2>3. QED
    BY <2>1, <2>2 DEF Graph!Insert
<1>3. CASE i \notin K /\ ps \subseteq K
  BY <1>3, PartGrows
<1>4. CASE ~ (ps \subseteq K)
  <2>1. i \notin K /\ ps # {}
    BY <1>4 DEF IsClosed
  <2>2. Graph!Refusal(g, i, ps) = "MissingParent"
    BY <1>1, <1>4, <2>1 DEF Graph!Refusal
  <2>3. QED
    BY <1>4, <2>2 DEF Graph!Insert
<1>5. QED
  BY <1>2, <1>3, <1>4

\* The graphs after every insertion.
AreAfter(after, graph, tables, ids, last) ==
  after = [n \in 0 .. last |->
             IF n = 0
             THEN graph
             ELSE Graph!Insert(after[n - 1], ids[n], Graph!ParentsOf(tables, ids[n]))]

\* One insertion after the other defines a graph after each.
LEMMA GraphsExist ==
  ASSUME NEW graph, NEW tables, NEW ids, NEW N \in Nat
  PROVE  \E after : AreAfter(after, graph, tables, ids, N)
<1> DEFINE Step(g, n) == Graph!Insert(g, ids[n], Graph!ParentsOf(tables, ids[n]))
           Is(f, n) == f = [k \in 0 .. n |-> IF k = 0 THEN graph ELSE Step(f[k - 1], k)]
           Undefined == {n \in Nat : \A f : ~ Is(f, n)}
<1> HIDE DEF Step
<1>1. \A n \in Nat : n \notin Undefined <=> \E f : Is(f, n)
  <2> HIDE DEF Is
  <2>1. QED
    OBVIOUS
<1>2. 0 \notin Undefined
  <2>1. Is([k \in 0 .. 0 |-> graph], 0)
    OBVIOUS
  <2>2. QED
    BY <2>1
<1>3. ASSUME NEW m \in Nat, m \notin Undefined
      PROVE  m + 1 \notin Undefined
  <2>1. PICK f : Is(f, m)
    BY <1>1, <1>3
  <2> DEFINE n == m + 1
             h == [k \in 0 .. n |-> IF k = n THEN Step(f[m], n) ELSE f[k]]
  <2>2. \A k \in 0 .. n : h[k] = (IF k = 0 THEN graph ELSE Step(h[k - 1], k))
    <3>1. TAKE k \in 0 .. n
    <3>2. CASE k = n
      <4>1. h[k] = Step(f[m], n) /\ h[k - 1] = f[m] /\ k # 0
        BY <3>2
      <4>2. QED
        BY <4>1, <3>2
    <3>3. CASE k # n
      <4>1. k \in 0 .. m /\ h[k] = f[k]
        BY <3>1, <3>3
      <4>2. f[k] = (IF k = 0 THEN graph ELSE Step(f[k - 1], k))
        BY <4>1, <2>1
      <4>3. k # 0 => k - 1 \in 0 .. m /\ h[k - 1] = f[k - 1]
        BY <4>1
      <4>4. QED
        BY <4>1, <4>2, <4>3
    <3>4. QED
      BY <3>2, <3>3
  <2>3. Is(h, n)
    BY <2>2
  <2>4. QED
    BY <2>3, <1>1
<1>4. Undefined = {}
  <2>1. Undefined \in SUBSET Nat
    OBVIOUS
  <2> HIDE DEF Undefined
  <2>2. QED
    BY <2>1, <1>2, <1>3, NoneIsLeast
<1>5. PICK f : Is(f, N)
  BY <1>1, <1>4
<1>6. AreAfter(f, graph, tables, ids, N)
  BY <1>5 DEF Step, AreAfter
<1>7. QED
  BY <1>6

\* One insertion after the other, from a graph to the one that is indexed.
Inserts(after, graph, tables, ids) ==
  /\ after[0] = graph
  /\ Indexed(graph, tables, ids) = after[Len(ids)]
  /\ \A n \in Nat : n < Len(ids) =>
       after[n + 1] = Graph!Insert(after[n], ids[n + 1], Graph!ParentsOf(tables, ids[n + 1]))

\* What is indexed is the end of such insertions.
LEMMA IndexedFacts ==
  ASSUME NEW graph, NEW tables, NEW ids, Len(ids) \in Nat
  PROVE  \E after : Inserts(after, graph, tables, ids)
<1> DEFINE after == CHOOSE f : AreAfter(f, graph, tables, ids, Len(ids))
<1>1. Indexed(graph, tables, ids) = after[Len(ids)]
  BY DEF Indexed, AreAfter
<1>2. AreAfter(after, graph, tables, ids, Len(ids))
  BY GraphsExist
<1> HIDE DEF after
<1>3. after[0] = graph
  BY <1>2 DEF AreAfter
<1>4. ASSUME NEW n \in Nat, n < Len(ids)
      PROVE  after[n + 1] = Graph!Insert(after[n], ids[n + 1],
                                         Graph!ParentsOf(tables, ids[n + 1]))
  <2>1. n + 1 \in 0 .. Len(ids) /\ n + 1 # 0 /\ (n + 1) - 1 = n
    BY <1>4
  <2>2. QED
    BY <2>1, <1>2 DEF AreAfter
<1>5. QED
  BY <1>1, <1>3, <1>4 DEF Inserts

\* Nothing is a part of every graph.
LEMMA NothingIsAPart == \A t : Graph!NoGraph = Part(t, {})
BY DEF Graph!NoGraph, Part

\* A graph is a part of itself.
LEMMA WholeIsAPart == \A t : IsWhole(t) => Part(t, Graph!Ids(t)) = t
BY DEF Part, IsWhole, Graph!RecoveredHeads, Graph!ParentsOf, Graph!GenerationOf

\* Commits of a graph are inserted in a list, each after its parents: the end is the part
\* that they are with those that were there before.
LEMMA PartsInOrder ==
  ASSUME NEW t, IsWhole(t), NEW K, IsClosed(t, K), NEW q, NEW N \in Nat, Len(q) = N,
         \A n \in 1 .. N :
           /\ q[n] \in Graph!Ids(t)
           /\ Graph!ParentsOf(t, q[n]) \subseteq K \cup {q[k] : k \in 1 .. n - 1}
  PROVE  Indexed(Part(t, K), t, q) = Part(t, K \cup {q[k] : k \in 1 .. N})
<1> DEFINE Done(n) == K \cup {q[k] : k \in 1 .. n}
<1>1. PICK after : Inserts(after, Part(t, K), t, q)
  BY IndexedFacts
<1>2. /\ after[0] = Part(t, K)
      /\ Indexed(Part(t, K), t, q) = after[N]
      /\ \A n \in Nat : n < N =>
           after[n + 1] = Graph!Insert(after[n], q[n + 1], Graph!ParentsOf(t, q[n + 1]))
  BY <1>1 DEF Inserts
<1> DEFINE Bad == {n \in Nat : n <= N /\ ~ (after[n] = Part(t, Done(n)) /\ IsClosed(t, Done(n)))}
<1>3. 0 \notin Bad
  <2>1. Done(0) = K
    OBVIOUS
  <2>2. QED
    BY <2>1, <1>2
<1>4. ASSUME NEW n \in Nat, n \notin Bad
      PROVE  n + 1 \notin Bad
  <2>1. SUFFICES ASSUME n + 1 <= N
                 PROVE  after[n + 1] = Part(t, Done(n + 1)) /\ IsClosed(t, Done(n + 1))
    OBVIOUS
  <2>2. after[n] = Part(t, Done(n)) /\ IsClosed(t, Done(n))
    BY <1>4, <2>1
  <2> DEFINE i == q[n + 1]
  <2>3. n + 1 \in 1 .. N /\ (n + 1) - 1 = n /\ n < N
    BY <2>1
  <2>4. i \in Graph!Ids(t) /\ Graph!ParentsOf(t, i) \subseteq Done(n)
    BY <2>3
  <2>5. Done(n + 1) = Done(n) \cup {i}
    <3>1. 1 .. (n + 1) = (1 .. n) \cup {n + 1}
      OBVIOUS
    <3>2. QED
      BY <3>1
  <2>6. after[n + 1] = Graph!Insert(after[n], i, Graph!ParentsOf(t, i))
    BY <1>2, <2>3
  <2> HIDE DEF i, Done
  <2>7. IsClosed(t, Done(n + 1))
    BY <2>2, <2>4, <2>5 DEF IsClosed
  <2>8. after[n + 1] = Part(t, Done(n + 1))
    BY <2>2, <2>4, <2>5, <2>6, PartTakes
  <2>9. QED
    BY <2>7, <2>8
<1>5. Bad = {}
  <2>1. Bad \in SUBSET Nat
    OBVIOUS
  <2> HIDE DEF Bad
  <2>2. QED
    BY <2>1, <1>3, <1>4, NoneIsLeast
<1>6. after[N] = Part(t, Done(N))
  <2> HIDE DEF Done
  <2>1. N <= N
    OBVIOUS
  <2>2. N \notin Bad
    BY <1>5, Zenon
  <2>3. QED
    BY <2>1, <2>2
<1>7. QED
  BY <1>2, <1>6

\* From a part of a graph, the rest in the order of missing_from makes it whole.
LEMMA RestIsIndexed ==
  ASSUME NEW t, IsWhole(t), NEW K, IsClosed(t, K)
  PROVE  Indexed(Part(t, K), t, Graph!MissingFrom(t, K)) = t
<1> DEFINE S == Graph!Ids(t) \ K
           q == Graph!MissingFrom(t, K)
           N == Cardinality(S)
<1>1. /\ N \in Nat /\ Len(q) = N
      /\ \A k \in 1 .. N : q[k] \in S
      /\ \A i \in S : \E k \in 1 .. N : q[k] = i
      /\ \A k, l \in 1 .. N : k < l => Graph!IsBefore(t, q[k], q[l])
  BY OrderedFacts DEF IsWhole
<1> HIDE DEF q, N
<1>2. ASSUME NEW n \in 1 .. N, NEW p \in Graph!ParentsOf(t, q[n])
      PROVE  p \in K \cup {q[k] : k \in 1 .. n - 1}
  <2> DEFINE i == q[n]
  <2>1. i \in S
    BY <1>1
  <2>2. p \in Graph!Ids(t) /\ Graph!IsBefore(t, p, i)
    BY <2>1, <1>2 DEF IsWhole, IsGraph, Graph!IsBefore
  <2>3. CASE p \notin K
    <3>1. PICK k \in 1 .. N : q[k] = p
      BY <1>1, <2>2, <2>3
    <3>2. ~ Graph!IsBefore(t, i, p) /\ p # i
      BY <2>1, <2>2, BeforeFacts DEF IsWhole
    <3>3. ~ (n < k) /\ k # n
      BY <1>1, <3>1, <3>2
    <3>4. k \in 1 .. n - 1
      BY <1>1, <3>3
    <3>5. QED
      BY <3>1, <3>4
  <2>4. QED
    BY <2>3
<1>3. Indexed(Part(t, K), t, q) = Part(t, K \cup {q[k] : k \in 1 .. N})
  BY <1>1, <1>2, PartsInOrder
<1>4. K \cup {q[k] : k \in 1 .. N} = Graph!Ids(t)
  BY <1>1 DEF IsClosed
<1>5. QED
  BY <1>3, <1>4, WholeIsAPart DEF q

\* The row of a stored commit.
LEMMA RowFacts ==
  ASSUME TypeOK, GraphInv, NEW row \in commits
  PROVE  /\ row.record.id \in Graph!Ids(Tables)
         /\ Graph!ParentsOf(Tables, row.record.id) = row.record.parents
         /\ Graph!GenerationOf(Tables, row.record.id) = row.generation
<1> DEFINE i == row.record.id
<1>1. i \in StoredIds
  BY DEF StoredIds
<1>2. Tables.nodes[i] = [parents |-> {arc[2] : arc \in {e \in edges : e[1] = i}},
                         generation |-> CHOOSE n \in Generations({i}) : TRUE]
  BY <1>1 DEF Tables
<1>3. {arc[2] : arc \in {e \in edges : e[1] = i}} = row.record.parents
  <2>1. ASSUME NEW arc \in edges, arc[1] = i
        PROVE  arc[2] \in row.record.parents
    <3>1. PICK other \in commits : \E p \in other.record.parents : arc = <<other.record.id, p>>
      BY DEF GraphInv, EdgesMatch
    <3>2. PICK p \in other.record.parents : arc = <<other.record.id, p>>
      BY <3>1
    <3>3. other = row
      BY <2>1, <3>2 DEF GraphInv, IdsUnique
    <3>4. QED
      BY <3>2, <3>3
  <2>2. ASSUME NEW p \in row.record.parents
        PROVE  p \in {arc[2] : arc \in {e \in edges : e[1] = i}}
    <3>1. <<i, p>> \in {e \in edges : e[1] = i}
      BY DEF GraphInv, EdgesMatch
    <3>2. QED
      BY <3>1
  <2>3. QED
    BY <2>1, <2>2
<1>4. Generations({i}) = {row.generation}
  BY DEF Generations, GraphInv, IdsUnique
<1>5. QED
  BY <1>1, <1>2, <1>3, <1>4 DEF Tables, Graph!Ids, Graph!ParentsOf, Graph!GenerationOf

\* The tables of the server are a graph with one root, generations and heads.
LEMMA TablesAreWhole ==
  ASSUME TypeOK, GraphInv
  PROVE  IsWhole(Tables) /\ Graph!Ids(Tables) = StoredIds
<1>1. Graph!Ids(Tables) = StoredIds
  BY DEF Tables, Graph!Ids
<1>2. ASSUME NEW i \in StoredIds
      PROVE  \E row \in commits : row.record.id = i
  BY DEF StoredIds
<1>3. IsFiniteSet(StoredIds)
  <2> DEFINE f == [row \in commits |-> row.record.id]
  <2>1. f \in Surjection(commits, StoredIds)
    BY DEF Surjection, StoredIds
  <2>2. QED
    BY <2>1, FS_Surjection DEF GraphInv
<1>4. ASSUME NEW row \in commits
      PROVE  row.record.id \in Nat /\ row.generation \in Nat
  BY RecordFields DEF TypeOK, Row
<1>5. ASSUME NEW i \in StoredIds
      PROVE  /\ i \in Nat /\ Graph!GenerationOf(Tables, i) \in Nat
             /\ \A p \in Graph!ParentsOf(Tables, i) :
                  /\ p \in StoredIds
                  /\ Graph!GenerationOf(Tables, p) < Graph!GenerationOf(Tables, i)
  <2>1. PICK row \in commits : row.record.id = i
    BY <1>2
  <2>2. /\ Graph!ParentsOf(Tables, i) = row.record.parents
        /\ Graph!GenerationOf(Tables, i) = row.generation
    BY <2>1, RowFacts
  <2>3. ASSUME NEW p \in row.record.parents
        PROVE  p \in StoredIds /\ Graph!GenerationOf(Tables, p) < row.generation
    <3>1. PICK parent \in commits :
            parent.record.id = p /\ parent.generation < row.generation
      BY DEF GraphInv, GraphWellFounded
    <3>2. QED
      BY <3>1, <1>1, RowFacts
  <2>4. QED
    BY <1>4, <2>1, <2>2, <2>3
<1>6. IsGraph(Tables)
  BY <1>1, <1>3, <1>5 DEF IsGraph
<1>7. Tables = [nodes |-> [i \in StoredIds |->
                             [parents |-> Graph!ParentsOf(Tables, i),
                              generation |-> Graph!GenerationOf(Tables, i)]],
                heads |-> heads]
  BY DEF Tables, Graph!ParentsOf, Graph!GenerationOf
<1>8. heads = Graph!RecoveredHeads(Tables)
  <2>1. ASSUME NEW i \in StoredIds
        PROVE  (\E arc \in edges : arc[2] = i)
                 <=> \E j \in StoredIds : i \in Graph!ParentsOf(Tables, j)
    <3>1. ASSUME NEW arc \in edges, arc[2] = i
          PROVE  \E j \in StoredIds : i \in Graph!ParentsOf(Tables, j)
      <4>1. PICK row \in commits : \E p \in row.record.parents : arc = <<row.record.id, p>>
        BY DEF GraphInv, EdgesMatch
      <4>2. i \in row.record.parents
        BY <3>1, <4>1
      <4>3. QED
        BY <4>2, <1>1, RowFacts
    <3>2. ASSUME NEW j \in StoredIds, i \in Graph!ParentsOf(Tables, j)
          PROVE  \E arc \in edges : arc[2] = i
      <4>1. PICK row \in commits : row.record.id = j
        BY <1>2
      <4>2. <<j, i>> \in edges
        BY <4>1, <3>2, RowFacts DEF GraphInv, EdgesMatch
      <4>3. QED
        BY <4>2
    <3>3. QED
      BY <3>1, <3>2
  <2>2. heads = {i \in StoredIds : ~ \E arc \in edges : arc[2] = i}
    BY DEF GraphInv, HeadsAreChildless, Childless
  <2>3. QED
    BY <1>1, <2>1, <2>2 DEF Graph!RecoveredHeads
<1>9. ASSUME NEW i \in StoredIds
      PROVE  IF Graph!ParentsOf(Tables, i) = {}
             THEN Graph!GenerationOf(Tables, i) = 0
             ELSE \E p \in Graph!ParentsOf(Tables, i) :
                    Graph!GenerationOf(Tables, i) = 1 + Graph!GenerationOf(Tables, p)
  <2>1. PICK row \in commits : row.record.id = i
    BY <1>2
  <2>2. /\ Graph!ParentsOf(Tables, i) = row.record.parents
        /\ Graph!GenerationOf(Tables, i) = row.generation
    BY <2>1, RowFacts
  <2>3. CASE row.record.parents = {}
    BY <2>2, <2>3 DEF GraphInv, GraphWellFounded
  <2>4. CASE row.record.parents # {}
    <3>1. PICK parent \in commits : /\ parent.record.id \in row.record.parents
                                    /\ row.generation = parent.generation + 1
      BY <2>4 DEF GraphInv, GraphWellFounded
    <3>2. Graph!GenerationOf(Tables, parent.record.id) = parent.generation
      BY RowFacts
    <3>3. row.generation = 1 + parent.generation
      BY <3>1, <1>4
    <3>4. QED
      BY <2>2, <2>4, <3>1, <3>2, <3>3
  <2>5. QED
    BY <2>3, <2>4
<1>10. ASSUME NEW i \in StoredIds, NEW j \in StoredIds,
              Graph!ParentsOf(Tables, i) = {}, Graph!ParentsOf(Tables, j) = {}
       PROVE  i = j
  <2>1. PICK row \in commits, other \in commits : row.record.id = i /\ other.record.id = j
    BY <1>2
  <2>2. row.record.parents = {} /\ other.record.parents = {}
    BY <1>10, <2>1, RowFacts
  <2>3. row = other
    BY <2>2 DEF GraphInv, GraphWellFounded
  <2>4. QED
    BY <2>1, <2>3
<1>11. QED
  BY <1>1, <1>6, <1>7, <1>8, <1>9, <1>10 DEF IsWhole

\* The inductive invariant implies what the library computes from the tables.
LEMMA IndexOfTables ==
  ASSUME TypeOK, GraphInv
  PROVE  IndexAgrees /\ AncestorIsLatest
<1>1. IsWhole(Tables) /\ Graph!Ids(Tables) = StoredIds
  BY TablesAreWhole
<1>2. \A held \in ClosedSets(Tables) : IsClosed(Tables, held)
  BY <1>1 DEF ClosedSets, IsClosed
<1>3. InsertionsGiveParts(Tables) /\ MissingCompletes(Tables)
  BY <1>1, <1>2, NothingIsAPart, WholeIsAPart, PartTakes, RestIsIndexed
     DEF InsertionsGiveParts, MissingCompletes
<1>4. AncestorIsLatest
  <2>1. ASSUME NEW i \in StoredIds, NEW j \in StoredIds,
               NEW other \in (Graph!Ancestors(Tables, i) \cap Graph!Ancestors(Tables, j))
                               \ {Graph!CommonAncestor(Tables, i, j)}
        PROVE  /\ other \in StoredIds
               /\ Graph!CommonAncestor(Tables, i, j) \notin Graph!Ancestors(Tables, other)
    <3>1. IsGraph(Tables) /\ i \in Graph!Ids(Tables) /\ j \in Graph!Ids(Tables)
      BY <1>1 DEF IsWhole
    <3>2. other \in StoredIds
      BY <1>1, <3>1, AncestorsFacts
    <3>3. QED
      BY <3>1, <3>2, LatestOfGraph
  <2> DEFINE below == [i \in StoredIds |-> Graph!Ancestors(Tables, i)]
  <2>2. \A i \in StoredIds : below[i] = Graph!Ancestors(Tables, i)
    OBVIOUS
  <2> HIDE DEF below
  <2>3. \A i, j \in StoredIds : i < j =>
          LET base == Graph!CommonAncestor(Tables, i, j)
          IN  \A other \in (below[i] \cap below[j]) \ {base} : base \notin below[other]
    BY <2>1, <2>2
  <2>4. QED
    BY <2>3 DEF AncestorIsLatest, below
<1>5. QED
  BY <1>3, <1>4 DEF IndexAgrees

----------------------------------------------------------------------------
\* The invariant and the theorems.

IInv == TypeOK /\ GraphInv /\ ServiceInv

\* An empty, stopped server satisfies the inductive invariant.
LEMMA InitIInv == Init => IInv
<1>1. SUFFICES ASSUME Init
               PROVE  IInv
  OBVIOUS
<1>2. TypeOK
  BY <1>1 DEF Init, TypeOK, Idle, Request, Steps
<1>3. IsFiniteSet(commits) /\ Cardinality(commits) = 0 /\ Cardinality(heads) = 0
  BY <1>1, FS_EmptySet DEF Init
<1>4. GraphInv
  BY <1>1, <1>3, BoundsAssumption
     DEF Init, GraphInv, IdsUnique, EdgesMatch, HeadsAreChildless, Childless,
         StoredIds, GraphWellFounded, SequencesContiguous, WithinLimits
<1>5. ServiceInv
  BY <1>1 DEF Init, ServiceInv, RequestInv, KeysRegistered, Active, Idle,
              SignedByRegisteredKey, StoredRepliesAreTrue
<1>6. QED
  BY <1>2, <1>4, <1>5 DEF IInv

\* Every step keeps the inductive invariant.
LEMMA StepIInv == IInv /\ [Next]_vars => IInv'
BY StepTypeOK, StepGraphInv, StepRequestInv, StepKeysRegistered,
   StepSignedByRegisteredKey, StepStoredRepliesAreTrue DEF IInv, ServiceInv

\* The inductive invariant holds in every reachable state.
THEOREM Invariance == Spec => []IInv
BY InitIInv, StepIInv, PTL DEF Spec

\* Type correctness.
THEOREM TypeCorrect == Spec => []TypeOK
<1>1. IInv => TypeOK
  BY DEF IInv
<1>2. QED
  BY <1>1, Invariance, PTL

\* The head table is exactly the set of childless commits.
THEOREM HeadsCorrect == Spec => []HeadsAreChildless
<1>1. IInv => HeadsAreChildless
  BY DEF IInv, GraphInv
<1>2. QED
  BY <1>1, Invariance, PTL

\* The stored graph is a rooted DAG whose generations are path lengths.
THEOREM WellFoundedGraph == Spec => []GraphWellFounded
<1>1. IInv => GraphWellFounded
  BY DEF IInv, GraphInv
<1>2. QED
  BY <1>1, Invariance, PTL

\* The commits of every device are numbered without gaps or repetitions.
THEOREM ContiguousSequences == Spec => []SequencesContiguous
<1>1. IInv => SequencesContiguous
  BY DEF IInv, GraphInv
<1>2. QED
  BY <1>1, Invariance, PTL

\* The limits on commits and heads are never exceeded.
THEOREM Limits == Spec => []WithinLimits
<1>1. IInv => WithinLimits
  BY DEF IInv, GraphInv
<1>2. QED
  BY <1>1, Invariance, PTL

\* The graph of the tables is sound in every reachable state.
THEOREM SoundGraph == Spec => []GraphIsSound
<1>1. IInv => GraphIsSound
  BY DEF IInv, GraphInv, GraphIsSound
<1>2. QED
  BY <1>1, Invariance, PTL

\* Signatures of stored commits verify with a key registered for their device.
THEOREM RegisteredSignatures == Spec => []SignedByRegisteredKey
<1>1. IInv => SignedByRegisteredKey
  BY DEF IInv, ServiceInv
<1>2. QED
  BY <1>1, Invariance, PTL

\* A "stored" answer tells the truth about the tables.
THEOREM TrueReplies == Spec => []StoredRepliesAreTrue
<1>1. IInv => StoredRepliesAreTrue
  BY DEF IInv, ServiceInv
<1>2. QED
  BY <1>1, Invariance, PTL

\* Stored commits and edges are neither removed nor rewritten.
THEOREM Immutability == Spec => CommitsAreImmutable
<1>1. IInv /\ IInv' /\ [Next]_vars =>
        [/\ commits \subseteq commits'
         /\ edges \subseteq edges'
         /\ \A row \in commits, new \in commits' :
              row.record.id = new.record.id => row = new]_vars
  <2>1. SUFFICES ASSUME IInv, IInv', [Next]_vars
                 PROVE  /\ commits \subseteq commits'
                        /\ edges \subseteq edges'
                        /\ \A row \in commits, new \in commits' :
                             row.record.id = new.record.id => row = new
    OBVIOUS
  <2>2. commits \subseteq commits' /\ edges \subseteq edges'
    BY <2>1, AddedRows DEF IInv, ServiceInv
  <2>3. QED
    BY <2>1, <2>2 DEF IInv, GraphInv, IdsUnique
<1>2. QED
  BY <1>1, Invariance, PTL DEF Spec, CommitsAreImmutable

\* Only devices that are active at that moment extend the graph.
THEOREM RevocationIsEffective == Spec => RevokedDeviceAddsNothing
<1>1. IInv /\ [Next]_vars =>
        [\A row \in commits' \ commits : Active(row.record.device)]_vars
  BY AddedRows DEF IInv, ServiceInv
<1>2. QED
  BY <1>1, Invariance, PTL DEF Spec, RevokedDeviceAddsNothing

\* An exact duplicate of a stored commit from an active device is not refused.
THEOREM DuplicatesAccepted == Spec => DuplicatesAreAccepted
<1>1. IInv /\ [Next]_vars =>
        [\A w \in Workers :
           /\ request[w].step = "checked"
           /\ request'[w].step = "refused"
           /\ Active(request[w].session)
           => request[w].record \notin Stored]_vars
  <2>1. SUFFICES ASSUME TypeOK, Next, NEW w \in Workers,
                        request[w].step = "checked",
                        request'[w].step = "refused",
                        Active(request[w].session)
                 PROVE  request[w].record \notin Stored
    BY DEF IInv
  <2>2. request' # request
    BY <2>1
  <2>3. ~DeviceNext /\ ~Restart
    BY <2>2 DEF DeviceNext, Register, RevokeBegin, RevokeFinish, Restart
  <2>4. ~Crash
    BY <2>1 DEF Crash, Idle
  <2>5. PICK v \in Workers :
          \/ \E s \in Devices, c \in Records : Submit(v, s, c)
          \/ RequireDevice(v) \/ VerifySignature(v) \/ CheckSession(v)
          \/ Insert(v) \/ Replay(v) \/ Refuse(v) \/ Answer(v) \/ Abandon(v)
    BY <2>1, <2>3, <2>4 DEF Next, RequestNext
  <2>6. v = w
    <3>1. ASSUME v # w
          PROVE  request'[w] = request[w]
      <4>1. CASE \E s \in Devices, c \in Records : Submit(v, s, c)
        BY <2>1, <3>1, <4>1 DEF Submit, TypeOK
      <4>2. CASE RequireDevice(v) \/ VerifySignature(v) \/ CheckSession(v)
        BY <2>1, <3>1, <4>2 DEF RequireDevice, VerifySignature, CheckSession,
                                Check, Goto, TypeOK
      <4>3. CASE Insert(v) \/ Replay(v) \/ Refuse(v)
        BY <2>1, <3>1, <4>3 DEF Insert, Replay, Refuse, Goto, TypeOK
      <4>4. CASE Answer(v) \/ Abandon(v)
        BY <2>1, <3>1, <4>4 DEF Answer, Abandon, TypeOK
      <4>5. QED
        BY <2>5, <4>1, <4>2, <4>3, <4>4
    <3>2. QED
      BY <2>1, <3>1
  <2>7. ~Insert(w) /\ ~Replay(w)
    <3>1. request \in [Workers -> Request]
      BY <2>1 DEF TypeOK
    <3>2. \A r : request' = [request EXCEPT ![w].step = "stored", ![w].reply = r]
            => request'[w].step = "stored"
      BY <3>1 DEF Request
    <3>3. QED
      BY <2>1, <3>2 DEF Insert, Replay
  <2>8. Refuse(w)
    <3>1. \A s \in Devices, c \in Records : ~Submit(w, s, c)
      BY <2>1 DEF Submit
    <3>2. ~RequireDevice(w) /\ ~VerifySignature(w) /\ ~CheckSession(w)
      BY <2>1 DEF RequireDevice, VerifySignature, CheckSession, Check
    <3>3. ~Answer(w) /\ ~Abandon(w)
      BY <2>1 DEF Answer, Abandon
    <3>4. QED
      BY <2>5, <2>6, <2>7, <3>1, <3>2, <3>3
  <2>9. QED
    BY <2>1, <2>8 DEF Refuse, Stored, StoredIds
<1>2. QED
  BY <1>1, Invariance, PTL DEF Spec, DuplicatesAreAccepted

\* A restart never has to repair the head table.
THEOREM RepairIsIdentity == Spec => RepairChangesNothing
<1>1. IInv /\ [Next]_vars => [~up /\ up' => heads' = heads]_vars
  <2>1. SUFFICES ASSUME IInv, [Next]_vars, ~up, up'
                 PROVE  heads' = heads
    OBVIOUS
  <2>2. Restart
    BY <2>1 DEF Next, DeviceNext, RequestNext, Register, RevokeBegin,
       RevokeFinish, Submit, RequireDevice, VerifySignature, CheckSession,
       Check, Insert, Replay, Refuse, Answer, Abandon, Crash, vars
  <2>3. QED
    BY <2>1, <2>2, RestartKeepsHeads DEF IInv, graphVars
<1>2. QED
  BY <1>1, Invariance, PTL DEF Spec, RepairChangesNothing

\* The library's graph keeps to the server's tables one insertion at a time, from any part
\* of them that has its parents: what has its parents there is taken, with the generation
\* and the heads of the next larger part, and anything else is refused; and what is missing
\* from any part, in the order of missing_from, completes it.
THEOREM IndexIsTheGraph == Spec => []IndexAgrees
<1>1. IInv => IndexAgrees
  BY IndexOfTables DEF IInv
<1>2. QED
  BY <1>1, Invariance, PTL

\* In any order of stored commits in which each comes after its parents, repetitions
\* included, they are inserted from nothing and the end is their part of the tables.
GraphInEveryOrder ==
  \A ids \in Seq(StoredIds) :
    (\A n \in 1 .. Len(ids) :
       Graph!ParentsOf(Tables, ids[n]) \subseteq {ids[k] : k \in 1 .. n - 1})
    => Indexed(Graph!NoGraph, Tables, ids) = Part(Tables, {ids[k] : k \in 1 .. Len(ids)})

\* Whatever the order in which all or some of the stored commits are inserted from nothing,
\* the library ends with their parents and generations, and for heads with those of them
\* that nobody's parent is.
THEOREM EveryOrderGivesTheGraph == Spec => []GraphInEveryOrder
<1>1. ASSUME IInv, NEW ids \in Seq(StoredIds),
             \A n \in 1 .. Len(ids) :
               Graph!ParentsOf(Tables, ids[n]) \subseteq {ids[k] : k \in 1 .. n - 1}
      PROVE  Indexed(Graph!NoGraph, Tables, ids)
               = Part(Tables, {ids[k] : k \in 1 .. Len(ids)})
  <2>1. IsWhole(Tables) /\ Graph!Ids(Tables) = StoredIds
    BY <1>1, TablesAreWhole DEF IInv
  <2>2. PICK K : K = {}
    OBVIOUS
  <2>3. IsClosed(Tables, K) /\ Graph!NoGraph = Part(Tables, K)
    BY <2>2, NothingIsAPart DEF IsClosed
  <2>4. PICK N \in Nat : N = Len(ids)
    OBVIOUS
  <2>5. \A n \in 1 .. N :
          /\ ids[n] \in Graph!Ids(Tables)
          /\ Graph!ParentsOf(Tables, ids[n]) \subseteq K \cup {ids[k] : k \in 1 .. n - 1}
    <3>1. \A n \in 1 .. N : ids[n] \in StoredIds
      BY <2>4
    <3>2. \A n \in 1 .. N : Graph!ParentsOf(Tables, ids[n]) \subseteq {ids[k] : k \in 1 .. n - 1}
      BY <1>1, <2>4
    <3>3. QED
      BY <2>1, <3>1, <3>2
  <2>6. Indexed(Part(Tables, K), Tables, ids) = Part(Tables, K \cup {ids[k] : k \in 1 .. N})
    BY <2>1, <2>3, <2>4, <2>5, PartsInOrder
  <2>7. K \cup {ids[k] : k \in 1 .. N} = {ids[k] : k \in 1 .. Len(ids)}
    BY <2>2, <2>4
  <2>8. QED
    BY <2>3, <2>6, <2>7
<1>2. IInv => GraphInEveryOrder
  BY <1>1 DEF GraphInEveryOrder
<1>3. QED
  BY <1>2, Invariance, PTL

\* What common_ancestor finds of two stored commits is the latest that both descend from.
THEOREM CommonAncestorIsTheLatest == Spec => []AncestorIsLatest
<1>1. IInv => AncestorIsLatest
  BY IndexOfTables DEF IInv
<1>2. QED
  BY <1>1, Invariance, PTL
----------------------------------------------------------------------------
\* The refinement of VaultHistory.

\* The abstract frontier of the stored records is what the head table holds.
LEMMA FrontierIsChildless ==
  ASSUME EdgesMatch
  PROVE  History!Maximal(Stored) = Childless(StoredIds, edges)
<1>1. History!IdsOf(Stored) = StoredIds
  BY DEF History!IdsOf, Stored, StoredIds
<1>2. \A i : (\A c \in Stored : i \notin c.parents)
              <=> (\A arc \in edges : arc[2] # i)
  <2>1. \A row \in commits : \A p \in row.record.parents :
          /\ <<row.record.id, p>> \in edges
          /\ <<row.record.id, p>>[2] = p
    BY DEF EdgesMatch
  <2>2. \A arc \in edges : \E row \in commits : arc[2] \in row.record.parents
    BY DEF EdgesMatch
  <2>3. QED
    BY <2>1, <2>2 DEF Stored
<1>3. QED
  BY <1>1, <1>2 DEF History!Maximal, Childless

\* There are as many stored records as rows.
LEMMA StoredCardinality ==
  ASSUME IsFiniteSet(commits)
  PROVE  Cardinality(Stored) <= Cardinality(commits)
<1> DEFINE f == [row \in commits |-> row.record]
<1>1. f \in Surjection(commits, Stored)
  BY DEF Surjection, Stored
<1>2. QED
  BY <1>1, FS_Surjection

\* The abstract module counts with the same operator.
LEMMA SameCardinality == \A S : History!Cardinality(S) = Cardinality(S)
BY DEF History!Cardinality, Cardinality

\* An insertion is an append to the abstract history.
LEMMA InsertAppends ==
  ASSUME IInv, GraphInv', NEW w \in Workers, Insert(w)
  PROVE  \E c \in Records : History!Append(c)
<1>1. PICK c \in Records : c = request[w].record
  BY DEF IInv, ServiceInv, RequestInv, Insert
<1>2. PICK g \in 0 .. MaxCommits :
        commits' = commits \cup {[record |-> c, generation |-> g]}
  BY <1>1, InsertRow
<1>3. /\ c.device \in Devices
      /\ c.sequence \in Nat \ {0}
  BY RecordFields
<1>4. /\ Active(c.device)
      /\ c.id \notin StoredIds
      /\ Cardinality(commits) < MaxCommits
      /\ commits = {} <=> c.parents = {}
      /\ Follows(c.sequence, SequencesOf(c.device), 1)
      /\ c.parents \subseteq StoredIds
      /\ Cardinality(heads') <= MaxHeads
      /\ UNCHANGED status
  BY <1>1 DEF Insert, Acceptable, IInv, ServiceInv, RequestInv
<1>5. History!IdsOf(Stored) = StoredIds
  BY DEF History!IdsOf, Stored, StoredIds
<1>6. Stored' = Stored \cup {c}
  <2>1. \A h : [record |-> c, generation |-> h].record = c
    OBVIOUS
  <2>2. QED
    BY <1>2, <2>1 DEF Stored
<1>7. Stored = {} <=> c.parents = {}
  BY <1>4 DEF Stored
<1>8. Cardinality(Stored) < MaxCommits
  <2>1. IsFiniteSet(commits)
    BY DEF IInv, GraphInv
  <2>2. Cardinality(commits) \in Nat /\ Cardinality(Stored) \in Nat
    <3> DEFINE f == [row \in commits |-> row.record]
    <3>1. f \in Surjection(commits, Stored)
      BY DEF Surjection, Stored
    <3>2. QED
      BY <2>1, <3>1, FS_Surjection, FS_CardinalityType
  <2>3. QED
    BY <1>4, <2>1, <2>2, StoredCardinality, BoundsAssumption
<1>9. History!NumbersOf(c.device, Stored) = 1 .. (c.sequence - 1)
  <2>1. History!NumbersOf(c.device, Stored) = SequencesOf(c.device)
    BY DEF History!NumbersOf, SequencesOf, Stored
  <2>2. SequencesOf(c.device) \subseteq 1 .. (c.sequence - 1)
    <3>1. SequencesOf(c.device) \subseteq Nat \ {0}
      BY RecordFields DEF SequencesOf, IInv, TypeOK, Row
    <3>2. QED
      BY <1>3, <1>4, <3>1 DEF Follows
  <2>3. 1 .. (c.sequence - 1) \subseteq SequencesOf(c.device)
    <3>1. SUFFICES ASSUME NEW n \in 1 .. (c.sequence - 1)
                   PROVE  n \in SequencesOf(c.device)
      OBVIOUS
    <3>2. PICK m \in SequencesOf(c.device) : c.sequence = m + 1
      BY <1>3, <1>4, <3>1 DEF Follows
    <3>3. PICK row \in commits : row.record.device = c.device
                               /\ row.record.sequence = m
      BY DEF SequencesOf
    <3>4. m \in Nat
      BY <3>3, RecordFields DEF IInv, TypeOK, Row
    <3>5. n \in 1 .. m
      BY <1>3, <3>1, <3>2, <3>4
    <3>6. QED
      BY <3>3, <3>5 DEF IInv, GraphInv, SequencesContiguous
  <2>4. QED
    BY <2>1, <2>2, <2>3
<1>10. heads' = History!Maximal(Stored')
  <2>1. History!Maximal(Stored') = Childless(StoredIds', edges')
    <3>1. (History!Maximal(Stored) = Childless(StoredIds, edges))'
      BY FrontierIsChildless, PTL DEF GraphInv
    <3>2. QED
      BY <3>1
  <2>2. QED
    BY <2>1 DEF GraphInv, HeadsAreChildless
<1>11. History!Append(c)
  BY <1>3, <1>4, <1>5, <1>6, <1>7, <1>8, <1>9, <1>10, SameCardinality
     DEF History!Append, Active
<1>12. QED
  BY <1>11
\* Registrations and revocations authorize and revoke; every other step
\* stutters.
LEMMA StepRefines ==
  IInv /\ IInv' /\ [Next]_vars => [History!Next]_History!vars
<1>1. SUFFICES ASSUME IInv, IInv', [Next]_vars
               PROVE  History!Next \/ UNCHANGED History!vars
  OBVIOUS
<1>2. ASSUME UNCHANGED <<status, commits, heads>>
      PROVE  UNCHANGED History!vars
  BY <1>2 DEF History!vars, Active, Stored
<1>3. ASSUME NEW d \in Devices, NEW k \in Keys, Register(d, k)
      PROVE  History!Next
  <2>1. {e \in Devices : Active(e)}' = {e \in Devices : Active(e)} \cup {d}
    BY <1>1, <1>3 DEF Register, Active, IInv, TypeOK
  <2>2. History!Authorize(d)
    BY <1>3, <2>1 DEF Register, History!Authorize, Stored
  <2>3. QED
    BY <2>2 DEF History!Next
<1>4. ASSUME NEW t \in Devices, RevokeFinish(t)
      PROVE  History!Next
  <2>1. {e \in Devices : Active(e)}' = {e \in Devices : Active(e)} \ {t}
    BY <1>1, <1>4 DEF RevokeFinish, Active, IInv, TypeOK
  <2>2. History!Revoke(t)
    BY <1>4, <2>1 DEF RevokeFinish, History!Revoke, Stored
  <2>3. QED
    BY <2>2 DEF History!Next
<1>5. ASSUME NEW w \in Workers, Insert(w)
      PROVE  History!Next
  BY <1>1, <1>5, InsertAppends DEF IInv, History!Next
<1>6. CASE \E s, t \in Devices : RevokeBegin(s, t)
  BY <1>2, <1>6 DEF RevokeBegin
<1>7. ASSUME NEW w \in Workers,
             \/ \E s \in Devices, c \in Records : Submit(w, s, c)
             \/ RequireDevice(w) \/ VerifySignature(w) \/ CheckSession(w)
             \/ Replay(w) \/ Refuse(w) \/ Answer(w) \/ Abandon(w)
      PROVE  UNCHANGED History!vars
  BY <1>2, <1>7 DEF Submit, RequireDevice, VerifySignature, CheckSession, Check,
                    Replay, Refuse, Answer, Abandon
<1>8. CASE Crash \/ UNCHANGED vars
  BY <1>2, <1>8 DEF Crash, vars
<1>9. CASE Restart
  BY <1>1, <1>2, <1>9, RestartKeepsHeads DEF Restart, IInv, graphVars
<1>10. QED
  BY <1>1, <1>3, <1>4, <1>5, <1>6, <1>7, <1>8, <1>9, IdentitiesAssumption
     DEF Next, DeviceNext, RequestNext

\* The server's tables and racing requests implement the abstract history.
THEOREM Refinement == Spec => ImplementsHistory
<1>1. Init => History!Init
  BY DEF Init, History!Init, Active, Stored
<1>2. QED
  BY <1>1, StepRefines, Invariance, PTL DEF Spec, ImplementsHistory, History!Spec

----------------------------------------------------------------------------
\* How a device learns the graph.

\* No generation is larger than the number of commits a vault may have.
GenerationsBounded == \A row \in commits : row.generation \in 0 .. MaxCommits

\* The server's invariant, and what every pull keeps beside it.
FeedInv ==
  /\ IInv
  /\ GenerationsBounded
  /\ FeedTypeOK
  /\ KnownIsClosed
  /\ OnlyTrustedCommits
  /\ ParentsBeforeChildren

----------------------------------------------------------------------------
\* The server's steps.

\* A step of the server adds commits whose identifiers are new.
LEMMA NewRows ==
  ASSUME IInv, IInv', [Next]_vars
  PROVE  /\ commits \subseteq commits'
         /\ \A row \in commits' \ commits : row.record.id \notin StoredIds
<1>1. commits \subseteq commits'
  BY AddedRows DEF IInv, ServiceInv
<1>2. \A row \in commits' \ commits : row.record.id \notin StoredIds
  BY <1>1 DEF IInv, GraphInv, IdsUnique, StoredIds
<1>3. QED
  BY <1>1, <1>2

\* Every step of the server keeps the generations bounded.
LEMMA StepGenerations ==
  ASSUME IInv, GenerationsBounded, [Next]_vars
  PROVE  GenerationsBounded'
<1>1. ASSUME NEW w \in Workers, Insert(w)
      PROVE  GenerationsBounded'
  <2>1. PICK g \in 0 .. MaxCommits :
          commits' = commits \cup {[record |-> request[w].record, generation |-> g]}
    BY <1>1, InsertRow
  <2>2. QED
    BY <2>1 DEF GenerationsBounded
<1>2. ASSUME UNCHANGED commits
      PROVE  GenerationsBounded'
  BY <1>2 DEF GenerationsBounded
<1>3. CASE DeviceNext \/ Crash \/ Restart \/ UNCHANGED vars
  BY <1>2, <1>3 DEF DeviceNext, Register, RevokeBegin, RevokeFinish, Crash,
                    Restart, vars
<1>4. ASSUME NEW w \in Workers,
             \/ \E s \in Devices, c \in Records : Submit(w, s, c)
             \/ RequireDevice(w) \/ VerifySignature(w) \/ CheckSession(w)
             \/ Replay(w) \/ Refuse(w) \/ Answer(w) \/ Abandon(w)
      PROVE  UNCHANGED commits
  BY <1>4 DEF Submit, RequireDevice, VerifySignature, CheckSession, Check,
              Replay, Refuse, Answer, Abandon
<1>5. QED
  BY <1>1, <1>2, <1>3, <1>4 DEF Next, RequestNext

\* A set of identifiers that was closed stays closed while the graph grows.
LEMMA ClosedForGood ==
  ASSUME IInv, IInv', [Next]_vars, NEW k, Closed(k)
  PROVE  Closed(k)'
<1>1. k \subseteq StoredIds'
  BY NewRows DEF Closed, StoredIds
<1>2. \A row \in commits' : row.record.id \in k => row.record.parents \subseteq k
  BY NewRows DEF Closed
<1>3. QED
  BY <1>1, <1>2 DEF Closed

\* What the server does leaves all that the pulls keep.
LEMMA ServerKeepsFeedInv ==
  ASSUME FeedInv, IInv', [Next]_vars, UNCHANGED feedVars
  PROVE  FeedInv'
<1>1. GenerationsBounded'
  BY StepGenerations DEF FeedInv
<1>2. FeedTypeOK' /\ ParentsBeforeChildren'
  BY DEF FeedInv, FeedTypeOK, ParentsBeforeChildren, feedVars
<1>3. KnownIsClosed'
  BY ClosedForGood DEF FeedInv, KnownIsClosed, feedVars
<1>4. OnlyTrustedCommits'
  <2>1. SUFFICES ASSUME NEW p \in Pullers, phase[p] # "idle",
                        NEW row \in commits', row.record.id \in fetched[p] \ known[p]
                 PROVE  <<row.record.device, row.record.key>> \in trusted[p]
    BY DEF OnlyTrustedCommits, feedVars
  <2>2. row \in commits
    BY <2>1, NewRows DEF FeedInv, KnownIsClosed, Closed
  <2>3. QED
    BY <2>1, <2>2 DEF FeedInv, OnlyTrustedCommits
<1>5. QED
  BY <1>1, <1>2, <1>3, <1>4 DEF FeedInv

----------------------------------------------------------------------------
\* Pages.

\* A parent of a commit on a page is known or comes before it on the page: what
\* the client does not know is ordered by generation, and generations rise
\* from a parent to its children.
LEMMA PagesAreOrdered ==
  ASSUME IInv, NEW k, NEW page \in Pages(Missing(k))
  PROVE  ParentsFirst(k, page)
<1>1. SUFFICES ASSUME NEW row \in page, NEW parent \in row.record.parents,
                      parent \notin k
               PROVE  \E other \in page :
                        other.record.id = parent /\ Precedes(other, row)
  BY DEF ParentsFirst
<1>2. row \in commits
  BY DEF Pages, IsPage, Missing
<1>3. PICK other \in commits :
        other.record.id = parent /\ other.generation < row.generation
  BY <1>2 DEF IInv, GraphInv, GraphWellFounded
<1>4. other.generation \in Nat /\ row.generation \in Nat
  BY <1>2 DEF IInv, TypeOK, Row
<1>5. Precedes(other, row) /\ ~Precedes(row, other)
  BY <1>3, <1>4 DEF Precedes
<1>6. other \in Missing(k)
  BY <1>1, <1>3 DEF Missing
<1>7. other \in page
  BY <1>5, <1>6 DEF Pages, IsPage
<1>8. QED
  BY <1>3, <1>5, <1>7

\* A page that is accepted leaves a closed set of identifiers closed.
LEMMA PageKeepsClosed ==
  ASSUME IInv, NEW k, Closed(k), NEW page \in Pages(Missing(k))
  PROVE  Closed(k \cup {row.record.id : row \in page})
<1> DEFINE more == k \cup {row.record.id : row \in page}
<1>1. page \subseteq commits
  BY DEF Pages, IsPage, Missing
<1>2. more \subseteq StoredIds
  BY <1>1 DEF Closed, StoredIds
<1>3. ASSUME NEW row \in commits, row.record.id \in more
      PROVE  row.record.parents \subseteq more
  <2>1. CASE row.record.id \in k
    BY <2>1 DEF Closed
  <2>2. CASE row.record.id \notin k
    <3>1. row \in page
      BY <1>1, <1>3, <2>2 DEF IInv, GraphInv, IdsUnique
    <3>2. ParentsFirst(k, page)
      BY PagesAreOrdered
    <3>3. QED
      BY <3>1, <3>2 DEF ParentsFirst
  <2>3. QED
    BY <2>1, <2>2
<1>4. QED
  BY <1>2, <1>3 DEF Closed

----------------------------------------------------------------------------
\* The steps of a pull.

\* A pull that stops, whatever the reason, leaves what it keeps.
LEMMA FailKeepsFeedInv ==
  ASSUME FeedInv, UNCHANGED vars, NEW p \in Pullers,
         NEW why \in Failures \ {"parent"}, Fail(p, why)
  PROVE  FeedInv'
<1>1. IInv' /\ GenerationsBounded'
  BY StepIInv DEF FeedInv, GenerationsBounded, vars
<1>2. FeedTypeOK'
  BY DEF FeedInv, FeedTypeOK, Fail, Phases
<1>3. \A q \in Pullers : phase'[q] # "idle" => phase[q] # "idle"
  BY DEF Fail, FeedInv, FeedTypeOK
<1>4. KnownIsClosed' /\ OnlyTrustedCommits'
  BY <1>3 DEF FeedInv, KnownIsClosed, Closed, StoredIds, OnlyTrustedCommits,
              Fail, vars
<1>5. ParentsBeforeChildren'
  BY DEF FeedInv, FeedTypeOK, ParentsBeforeChildren, Fail
<1>6. QED
  BY <1>1, <1>2, <1>4, <1>5 DEF FeedInv

\* The keys that a pull trusts are identities that have been registered.
LEMMA TrustedAreIdentities ==
  ASSUME IInv
  PROVE  TrustedNow \subseteq Identities
BY DEF IInv, TypeOK, ServiceInv, KeysRegistered, TrustedNow

\* A pull begins with what is known.
LEMMA BeginKeepsFeedInv ==
  ASSUME FeedInv, UNCHANGED vars, NEW p \in Pullers, PullBegin(p)
  PROVE  FeedInv'
<1>1. IInv' /\ GenerationsBounded'
  BY StepIInv DEF FeedInv, GenerationsBounded, vars
<1>2. FeedTypeOK'
  BY TrustedAreIdentities DEF FeedInv, FeedTypeOK, PullBegin, Phases
<1>3. ASSUME NEW q \in Pullers
      PROVE  /\ known'[q] = known[q]
             /\ q # p => /\ fetched'[q] = fetched[q] /\ trusted'[q] = trusted[q]
                         /\ phase'[q] = phase[q]
             /\ q = p => fetched'[q] = known[q]
  BY DEF PullBegin, FeedInv, FeedTypeOK
<1>4. KnownIsClosed'
  BY <1>3 DEF FeedInv, KnownIsClosed, Closed, StoredIds, vars
<1>5. OnlyTrustedCommits'
  BY <1>3 DEF FeedInv, OnlyTrustedCommits, vars
<1>6. ParentsBeforeChildren'
  BY DEF FeedInv, ParentsBeforeChildren, PullBegin
<1>7. QED
  BY <1>1, <1>2, <1>4, <1>5, <1>6 DEF FeedInv

\* A page is refused for some other reason than a missing parent, or it extends
\* a closed set by commits with trusted signatures.
LEMMA PageKeepsFeedInv ==
  ASSUME FeedInv, UNCHANGED vars, NEW p \in Pullers, PullPage(p)
  PROVE  FeedInv'
<1>1. PICK page \in Pages(Missing(fetched[p])) :
        IF Verdict(p, page) = "none"
        THEN /\ fetched' = [fetched EXCEPT ![p] =
                              @ \cup {row.record.id : row \in page}]
             /\ phase' = [phase EXCEPT ![p] = AfterPage(p, page)]
             /\ UNCHANGED <<known, trusted, failure>>
        ELSE Fail(p, Verdict(p, page))
  BY DEF PullPage
<1>2. ParentsFirst(fetched[p], page)
  BY PagesAreOrdered DEF FeedInv
<1>3. Verdict(p, page) \in {"empty", "signature", "none"}
  BY <1>2 DEF Verdict
<1>4. CASE Verdict(p, page) # "none"
  <2>1. Verdict(p, page) \in Failures \ {"parent"}
    BY <1>3 DEF Failures
  <2>2. QED
    BY <1>1, <1>4, <2>1, FailKeepsFeedInv
<1>5. CASE Verdict(p, page) = "none"
  <2> DEFINE more == {row.record.id : row \in page}
  <2>1. IInv' /\ GenerationsBounded'
    BY StepIInv DEF FeedInv, GenerationsBounded, vars
  <2>2. page \subseteq commits
    BY DEF Pages, IsPage, Missing
  <2>3. more \subseteq Nat
    BY <2>2, RecordFields DEF FeedInv, IInv, TypeOK, Row
  <2>4. FeedTypeOK'
    BY <1>1, <1>5, <2>3 DEF FeedInv, FeedTypeOK, Phases, AfterPage
  <2>5. ASSUME NEW q \in Pullers
        PROVE  /\ known'[q] = known[q] /\ trusted'[q] = trusted[q]
               /\ q # p => fetched'[q] = fetched[q] /\ phase'[q] = phase[q]
               /\ q = p => fetched'[q] = fetched[q] \cup more
    BY <1>1, <1>5 DEF FeedInv, FeedTypeOK
  <2>6. phase[p] = "paging"
    BY DEF PullPage
  <2>7. Closed(fetched[p]) /\ Closed(fetched[p] \cup more)
    BY <2>6, PageKeepsClosed DEF FeedInv, KnownIsClosed
  <2>8. KnownIsClosed'
    BY <2>5, <2>7 DEF FeedInv, KnownIsClosed, Closed, StoredIds, vars
  <2>9. Trusts(p, page)
    BY <1>5 DEF Verdict
  <2>10. \A row \in commits : row.record.id \in more => row \in page
    BY <2>2 DEF FeedInv, IInv, GraphInv, IdsUnique
  <2>11. OnlyTrustedCommits'
    <3>1. SUFFICES ASSUME NEW q \in Pullers, phase'[q] # "idle",
                          NEW row \in commits,
                          row.record.id \in fetched'[q] \ known'[q]
                   PROVE  <<row.record.device, row.record.key>> \in trusted'[q]
      BY DEF OnlyTrustedCommits, vars
    <3>2. CASE row.record.id \in fetched[q]
      BY <2>5, <2>6, <3>1, <3>2 DEF FeedInv, OnlyTrustedCommits
    <3>3. CASE row.record.id \notin fetched[q]
      BY <2>5, <2>9, <2>10, <3>1, <3>3 DEF Trusts
    <3>4. QED
      BY <3>2, <3>3
  <2>12. ParentsBeforeChildren'
    BY <1>1, <1>5 DEF FeedInv, ParentsBeforeChildren
  <2>13. QED
    BY <2>1, <2>4, <2>8, <2>11, <2>12 DEF FeedInv
<1>6. QED
  BY <1>4, <1>5

\* A pull that ends remembers what it fetched.
LEMMA EndKeepsFeedInv ==
  ASSUME FeedInv, UNCHANGED vars, NEW p \in Pullers,
         (PullHeads(p) /\ heads \subseteq fetched[p]) \/ PullEnd(p) \/ Publish(p)
  PROVE  FeedInv'
<1>1. IInv' /\ GenerationsBounded'
  BY StepIInv DEF FeedInv, GenerationsBounded, vars
<1>2. CASE PullHeads(p) /\ heads \subseteq fetched[p]
  <2>1. FeedTypeOK' /\ ParentsBeforeChildren'
    BY <1>2 DEF FeedInv, FeedTypeOK, ParentsBeforeChildren, PullHeads, Phases
  <2>2. \A q \in Pullers : phase'[q] # "idle" => phase[q] # "idle"
    BY <1>2 DEF PullHeads, FeedInv, FeedTypeOK
  <2>3. KnownIsClosed' /\ OnlyTrustedCommits'
    BY <1>2, <2>2 DEF FeedInv, KnownIsClosed, Closed, StoredIds,
                      OnlyTrustedCommits, PullHeads, vars
  <2>4. QED
    BY <1>1, <2>1, <2>3 DEF FeedInv
<1>3. CASE PullEnd(p)
  <2>1. FeedTypeOK' /\ ParentsBeforeChildren'
    BY <1>3 DEF FeedInv, FeedTypeOK, ParentsBeforeChildren, PullEnd, Phases, Failures
  <2>2. ASSUME NEW q \in Pullers
        PROVE  /\ fetched'[q] = fetched[q] /\ trusted'[q] = trusted[q]
               /\ q # p => known'[q] = known[q] /\ phase'[q] = phase[q]
               /\ q = p => known'[q] = fetched[q] /\ phase'[q] = "idle"
    BY <1>3 DEF PullEnd, FeedInv, FeedTypeOK
  <2>3. phase[p] # "idle"
    BY <1>3 DEF PullEnd
  <2>4. KnownIsClosed' /\ OnlyTrustedCommits'
    BY <2>2, <2>3 DEF FeedInv, KnownIsClosed, Closed, StoredIds,
                      OnlyTrustedCommits, vars
  <2>5. QED
    BY <1>1, <2>1, <2>4 DEF FeedInv
<1>4. CASE Publish(p)
  <2>1. PICK row \in commits :
          /\ row.record.parents \subseteq known[p]
          /\ known' = [known EXCEPT ![p] = @ \cup {row.record.id}]
    BY <1>4 DEF Publish
  <2>2. row.record.id \in Nat
    BY RecordFields DEF FeedInv, IInv, TypeOK, Row
  <2>3. phase[p] = "idle" /\ UNCHANGED <<fetched, trusted, phase, failure>>
    BY <1>4 DEF Publish
  <2>4. FeedTypeOK' /\ ParentsBeforeChildren'
    BY <2>1, <2>2, <2>3 DEF FeedInv, FeedTypeOK, ParentsBeforeChildren
  <2>5. ASSUME NEW q \in Pullers
        PROVE  /\ q # p => known'[q] = known[q]
               /\ q = p => known'[q] = known[q] \cup {row.record.id}
    BY <2>1 DEF FeedInv, FeedTypeOK
  <2>6. Closed(known[p] \cup {row.record.id})
    BY <2>1 DEF FeedInv, KnownIsClosed, Closed, StoredIds, IInv, GraphInv, IdsUnique
  <2>7. KnownIsClosed'
    BY <2>3, <2>5, <2>6 DEF FeedInv, KnownIsClosed, Closed, StoredIds, vars
  <2>8. OnlyTrustedCommits'
    BY <2>3, <2>5 DEF FeedInv, OnlyTrustedCommits, vars
  <2>9. QED
    BY <1>1, <2>4, <2>7, <2>8 DEF FeedInv
<1>5. QED
  BY <1>2, <1>3, <1>4

\* Every step of the server or of a device keeps the invariant.
LEMMA StepFeedInv == FeedInv /\ [FeedNext]_allVars => FeedInv'
<1>1. SUFFICES ASSUME FeedInv, [FeedNext]_allVars
               PROVE  FeedInv'
  OBVIOUS
<1>2. CASE [Next]_vars /\ UNCHANGED feedVars
  <2>1. IInv'
    BY <1>1, <1>2, StepIInv DEF FeedInv
  <2>2. QED
    BY <1>1, <1>2, <2>1, ServerKeepsFeedInv
<1>3. ASSUME NEW p \in Pullers,
             PullStep(p) \/ Interrupt(p) \/ Publish(p), UNCHANGED vars
      PROVE  FeedInv'
  <2>1. CASE PullBegin(p)
    BY <1>1, <1>3, <2>1, BeginKeepsFeedInv
  <2>2. CASE PullPage(p)
    BY <1>1, <1>3, <2>2, PageKeepsFeedInv
  <2>3. CASE Denied(p) \/ PageLimit(p) \/ Interrupt(p)
             \/ (PullHeads(p) /\ ~(heads \subseteq fetched[p]))
    <3>1. \E why \in Failures \ {"parent"} : Fail(p, why)
      BY <2>3 DEF Denied, PageLimit, Interrupt, PullHeads, Failures
    <3>2. QED
      BY <1>1, <1>3, <3>1, FailKeepsFeedInv
  <2>4. CASE (PullHeads(p) /\ heads \subseteq fetched[p]) \/ PullEnd(p) \/ Publish(p)
    BY <1>1, <1>3, <2>4, EndKeepsFeedInv
  <2>5. QED
    BY <1>3, <2>1, <2>2, <2>3, <2>4 DEF PullStep
<1>4. CASE FeedNext
  BY <1>2, <1>3, <1>4 DEF FeedNext
<1>5. CASE UNCHANGED allVars
  BY <1>2, <1>5 DEF allVars
<1>6. QED
  BY <1>1, <1>4, <1>5

----------------------------------------------------------------------------
\* The theorems.

\* The invariant of the feed holds in every reachable state.
THEOREM FeedInvariance == FeedSpec => []FeedInv
<1>1. FeedInit => FeedInv
  <2>1. SUFFICES ASSUME FeedInit
                 PROVE  FeedInv
    OBVIOUS
  <2>2. IInv
    BY <2>1, InitIInv DEF FeedInit
  <2>3. GenerationsBounded
    BY <2>1 DEF FeedInit, Init, GenerationsBounded
  <2>4. FeedTypeOK /\ OnlyTrustedCommits /\ ParentsBeforeChildren
    BY <2>1 DEF FeedInit, FeedTypeOK, Phases, Failures, OnlyTrustedCommits,
                ParentsBeforeChildren
  <2>5. KnownIsClosed
    BY <2>1 DEF FeedInit, KnownIsClosed, Closed
  <2>6. QED
    BY <2>2, <2>3, <2>4, <2>5 DEF FeedInv
<1>2. QED
  BY <1>1, StepFeedInv, PTL DEF FeedSpec

\* The variables of the pulls keep their types.
THEOREM FeedTypeCorrect == FeedSpec => []FeedTypeOK
<1>1. FeedInv => FeedTypeOK
  BY DEF FeedInv
<1>2. QED
  BY <1>1, FeedInvariance, PTL

\* What a device knows, or is fetching, is a closed part of the server's graph.
THEOREM KnowledgeIsClosed == FeedSpec => []KnownIsClosed
<1>1. FeedInv => KnownIsClosed
  BY DEF FeedInv
<1>2. QED
  BY <1>1, FeedInvariance, PTL

\* Pages of any size never show a commit before one of its parents.
THEOREM ParentsComeFirst == FeedSpec => []ParentsBeforeChildren
<1>1. FeedInv => ParentsBeforeChildren
  BY DEF FeedInv
<1>2. QED
  BY <1>1, FeedInvariance, PTL

\* What a device fetches is signed with keys that were active when it began.
THEOREM FetchedIsTrusted == FeedSpec => []OnlyTrustedCommits
<1>1. FeedInv => OnlyTrustedCommits
  BY DEF FeedInv
<1>2. QED
  BY <1>1, FeedInvariance, PTL

\* A closed set of identifiers that holds every head holds every commit: of the
\* commits that were missing, one of the greatest generation would be childless.
LEMMA HeadsReachAll ==
  ASSUME IInv, GenerationsBounded, NEW k, Closed(k), heads \subseteq k
  PROVE  k = StoredIds
<1> DEFINE missing == {row \in commits : row.record.id \notin k}
           distance == {MaxCommits - row.generation : row \in missing}
<1>1. ASSUME missing # {}
      PROVE  FALSE
  <2>1. distance \subseteq Nat /\ distance # {}
    BY <1>1, BoundsAssumption DEF GenerationsBounded
  <2>2. PICK x \in distance : \A y \in distance : ~ (<<y, x>> \in OpToRel(<, Nat))
    BY <2>1, WFMin, NatLessThanWellFounded, Zenon
  <2>3. \A y \in distance : ~ (y < x)
    BY <2>1, <2>2 DEF OpToRel
  <2>4. PICK row \in missing : x = MaxCommits - row.generation
    OBVIOUS
  <2>5. PICK arc \in edges : arc[2] = row.record.id
    BY <2>4 DEF IInv, GraphInv, HeadsAreChildless, Childless, StoredIds
  <2>6. PICK child \in commits : \E p \in child.record.parents :
                                   arc = <<child.record.id, p>>
    BY DEF IInv, GraphInv, EdgesMatch
  <2>7. row.record.id \in child.record.parents
    BY <2>5, <2>6
  <2>8. child \in missing
    BY <2>4, <2>7 DEF Closed
  <2>9. row.generation < child.generation
    BY <2>4, <2>7 DEF IInv, GraphInv, GraphWellFounded, IdsUnique
  <2>10. /\ row.generation \in 0 .. MaxCommits
         /\ child.generation \in 0 .. MaxCommits
    BY <2>4, <2>8 DEF GenerationsBounded
  <2>11. MaxCommits - child.generation < x
    BY <2>4, <2>9, <2>10, BoundsAssumption
  <2>12. QED
    BY <2>3, <2>8, <2>11
<1>2. QED
  BY <1>1 DEF Closed, StoredIds

\* A pull that accepts the heads has every commit that is stored at that moment.
THEOREM Completeness == FeedSpec => AcceptedHeadsMeanComplete
<1> DEFINE Complete ==
      \A p \in Pullers :
        phase[p] = "heads" /\ phase'[p] = "merging" => fetched[p] = StoredIds
<1>1. FeedInv /\ [FeedNext]_allVars => [Complete]_allVars
  <2>1. SUFFICES ASSUME FeedInv, FeedNext, NEW p \in Pullers,
                        phase[p] = "heads", phase'[p] = "merging"
                 PROVE  fetched[p] = StoredIds
    BY DEF allVars, vars, feedVars
  <2>2. PICK q \in Pullers : PullStep(q) \/ Interrupt(q) \/ Publish(q)
    BY <2>1 DEF FeedNext, feedVars
  <2>3. PullHeads(p) /\ heads \subseteq fetched[p]
    BY <2>1, <2>2 DEF FeedInv, FeedTypeOK, PullStep, Denied, PullBegin, PageLimit,
                      PullPage, AfterPage, PullHeads, PullEnd, Interrupt, Publish, Fail
  <2>4. Closed(fetched[p])
    BY <2>1 DEF FeedInv, KnownIsClosed
  <2>5. QED
    BY <2>1, <2>3, <2>4, HeadsReachAll DEF FeedInv
<1>2. QED
  BY <1>1, FeedInvariance, PTL DEF FeedSpec, AcceptedHeadsMeanComplete
=============================================================================
