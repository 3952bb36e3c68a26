---------------------------- MODULE VaultSyncProofs ----------------------------
(***************************************************************************)
(* The history that devices publish, proved for every set of devices,      *)
(* files and objects: a number signs one commit, the Lamport time of a     *)
(* commit exceeds those of its parents, and no commit forgets an object    *)
(* that a parent of it names.                                              *)
(*                                                                         *)
(* From that history, the target of a pull: a single head names every      *)
(* object that any commit names, so that its entries leave nothing of a    *)
(* device without edits behind, and compete with no others.                *)
(***************************************************************************)
EXTENDS VaultSyncTypes

\* A commit of a device has a number that the device has used, or the next one; the next one
\* is that of the commit it has prepared, and only of that.
Numbers(d, s, graph) ==
  /\ s.prepared # None => s.prepared.id = <<d, s.sequence + 1>>
  /\ \A n \in Nat : <<d, n>> \in DOMAIN graph =>
       /\ n <= s.sequence + 1
       /\ n = s.sequence + 1 => s.prepared # None /\ graph[<<d, n>>] = s.prepared.commit

\* Records cover commits when they have every object of them, and a time when it is not
\* before theirs.
Covers(records, ids, graph) == \A id \in ids : DOMAIN graph[id].manifest \subseteq DOMAIN records
Reaches(lamport, ids, graph) == \A id \in ids : graph[id].lamport <= lamport

\* From the pull to the signature, the records and the time of a device cover its heads, and
\* the records that it prepares are no fewer; a prepared commit covers its parents.
Covered(s, r, graph) ==
  /\ r.phase = "applying" => Covers(r.selected, r.heads, graph)
  /\ r.phase \in {"pulled", "preparing"} =>
       Covers(s.records, s.heads, graph) /\ Reaches(s.lamport, s.heads, graph)
  /\ r.phase = "preparing" => s.prepared = None /\ DOMAIN s.records \subseteq DOMAIN r.records
  /\ s.prepared # None =>
       /\ Covers(s.prepared.commit.manifest, s.prepared.commit.parents, graph)
       /\ Reaches(s.prepared.commit.lamport - 1, s.prepared.commit.parents, graph)
       /\ s.prepared.commit.lamport \in Nat \ {0}

\* The inductive invariant, together with SyncInv.
HistoryInv ==
  /\ TimeFollowsHistory
  /\ NoObjectIsForgotten
  /\ \A d \in Devices :
       /\ Numbers(d, state[d], commits)
       /\ Covered(state[d], run[d], commits)

----------------------------------------------------------------------------
\* Steps that leave the graph alone.

\* The invariant is kept when it holds for the device that goes on.
LEMMA HistoryOneDevice ==
  ASSUME SyncInv, HistoryInv, NEW d \in Devices, NEW s \in SyncStates, NEW r \in Runs,
         Becomes(d, s, r), commits' = commits,
         Numbers(d, s, commits), Covered(s, r, commits)
  PROVE  HistoryInv'
<1>1. /\ state'[d] = s /\ run'[d] = r
      /\ \A e \in Devices \ {d} : state'[e] = state[e] /\ run'[e] = run[e]
  BY BecomesEffect, DeviceFacts
<1>2. TimeFollowsHistory' /\ NoObjectIsForgotten'
  BY DEF HistoryInv, TimeFollowsHistory, NoObjectIsForgotten
<1>3. ASSUME NEW e \in Devices
      PROVE  Numbers(e, state'[e], commits') /\ Covered(state'[e], run'[e], commits')
  <2>1. CASE e = d
    BY <1>1, <2>1
  <2>2. CASE e # d
    <3>1. Numbers(e, state[e], commits) /\ Covered(state[e], run[e], commits)
      BY DEF HistoryInv
    <3>2. QED
      BY <1>1, <2>2, <3>1
  <2>3. QED
    BY <2>1, <2>2
<1>4. QED
  BY <1>2, <1>3 DEF HistoryInv

\* The invariant for one device.
LEMMA HistoryFacts ==
  ASSUME HistoryInv, NEW d \in Devices
  PROVE  Numbers(d, state[d], commits) /\ Covered(state[d], run[d], commits)
BY DEF HistoryInv

\* A synchronization ends, or the device does nothing.
LEMMA EndKeepsHistory ==
  ASSUME SyncInv, HistoryInv, NEW d \in Devices,
         Becomes(d, state[d], Idle) \/ Becomes(d, state[d], run[d]), commits' = commits
  PROVE  HistoryInv'
<1>1. Idle \in Runs /\ Idle.phase = "idle"
  BY IdleRun DEF Phases
<1>2. Covered(state[d], Idle, commits)
  BY <1>1, HistoryFacts DEF Covered
<1>3. QED
  BY <1>1, <1>2, HistoryFacts, DeviceFacts, StateFacts, RunFacts, HistoryOneDevice

\* Users, interruptions, failures.
LEMMA OthersKeepHistory ==
  ASSUME SyncInv, HistoryInv, NEW d \in Devices,
         UserStep(d) \/ Interrupt(d) \/ ApplyInterrupted(d) \/ Throw(d)
  PROVE  HistoryInv'
<1>1. CASE UserStep(d)
  <2>1. Becomes(d, state[d], run[d]) /\ commits' = commits
    BY <1>1 DEF UserStep, Create, Modify, Move, Delete, Edit, Becomes
  <2>2. QED
    BY <2>1, EndKeepsHistory
<1>2. CASE Interrupt(d) \/ ApplyInterrupted(d)
  <2>1. Becomes(d, state[d], Idle) /\ commits' = commits
    BY <1>2 DEF Interrupt, ApplyInterrupted, Becomes
  <2>2. QED
    BY <2>1, EndKeepsHistory
<1>3. CASE Throw(d)
  <2>1. Becomes(d, state[d], Idle) /\ commits' = commits
    BY <1>3 DEF Throw, Advance, Becomes
  <2>2. QED
    BY <2>1, EndKeepsHistory
<1>4. QED
  BY <1>1, <1>2, <1>3

\* A state with the numbers and the prepared commit of before keeps the numbers.
LEMMA SameNumbers ==
  ASSUME HistoryInv, NEW d \in Devices, NEW s,
         s.sequence = state[d].sequence,
         s.prepared = None <=> state[d].prepared = None,
         s.prepared # None => /\ s.prepared.id = state[d].prepared.id
                              /\ s.prepared.commit = state[d].prepared.commit
  PROVE  Numbers(d, s, commits)
<1>1. Numbers(d, state[d], commits)
  BY HistoryFacts
<1>2. QED
  BY <1>1 DEF Numbers

\* The start of a pull: a merge of the heads names every object that a head names.
LEMMA PullStartKeepsHistory ==
  ASSUME SyncInv, HistoryInv, NEW d \in Devices, PullStart(d)
  PROVE  HistoryInv'
<1> DEFINE heads == ServerHeads(commits)
           choices == SelectEntries(heads)
           selected == Selected(heads)
           conflicts == [o \in DOMAIN choices |-> choices[o].conflicts]
<1>1. heads \subseteq DOMAIN commits
  BY HeadsAccepted
<1>2. CASE heads = {}
  <2> DEFINE s == [state[d] EXCEPT !.initialized = TRUE, !.heads = {}]
             r == [Idle EXCEPT !.phase = "pulled"]
  <2>1. Becomes(d, s, r) /\ commits' = commits
    BY <1>2 DEF PullStart, Becomes, Advance
  <2>2. r \in Runs /\ r.phase = "pulled"
    BY IdleRun DEF Phases
  <2>3. /\ s \in SyncStates /\ s.heads = {} /\ s.sequence = state[d].sequence
        /\ s.prepared = state[d].prepared
    BY DeviceFacts, StateFacts DEF SyncStates
  <2> HIDE DEF s, r
  <2>4. Numbers(d, s, commits)
    BY <2>3, SameNumbers
  <2>5. Covered(s, r, commits)
    BY <2>2, <2>3, HistoryFacts DEF Covered, Covers, Reaches
  <2>6. QED
    BY <2>1, <2>2, <2>3, <2>4, <2>5, HistoryOneDevice
<1>3. CASE heads # {}
  <2> DEFINE r == [Idle EXCEPT !.phase = "applying", !.local = vault[d],
                               !.selected = selected, !.conflicts = conflicts,
                               !.todo = DOMAIN choices, !.heads = heads]
  <2>1. Becomes(d, state[d], r) /\ commits' = commits
    BY <1>3 DEF PullStart, Becomes, Advance
  <2>2. /\ selected \in MapsTo(Records) /\ DOMAIN selected = DOMAIN choices
        /\ conflicts \in MapsTo(SUBSET Records)
        /\ DOMAIN choices \subseteq Objects
        /\ \A head \in heads : DOMAIN commits[head].manifest \subseteq DOMAIN selected
    BY <1>1, SelectionType, DeviceFacts, MapFacts
  <2>3. vault[d] \in FileMaps /\ heads \subseteq CommitIds
    BY <1>1, DeviceFacts DEF GraphOK
  <2> HIDE DEF heads, choices, selected, conflicts
  <2>4. /\ r \in Runs /\ r.phase = "applying" /\ r.selected = selected /\ r.heads = heads
    BY <2>2, <2>3, EmptyMap DEF Idle, Runs, Phases
  <2> HIDE DEF r
  <2>5. Covered(state[d], r, commits)
    BY <2>2, <2>4, HistoryFacts DEF Covered, Covers
  <2>6. QED
    BY <2>1, <2>4, <2>5, DeviceFacts, StateFacts, HistoryFacts, HistoryOneDevice
<1>4. QED
  BY <1>2, <1>3

\* An entry of the merge that is written to the vault: what is selected stays.
LEMMA ApplyEntryKeepsHistory ==
  ASSUME SyncInv, HistoryInv, NEW d \in Devices, ApplyEntry(d)
  PROVE  HistoryInv'
<1> DEFINE o == Min(run[d].todo)
           r == [run[d] EXCEPT !.todo = @ \ {o}]
<1>1. commits' = commits /\ run[d].phase = "applying"
      /\ (Becomes(d, state[d], Idle) \/ Becomes(d, state[d], r))
  BY DEF ApplyEntry, Becomes, Advance
<1>2. /\ r \in Runs /\ r.phase = "applying" /\ r.selected = run[d].selected
      /\ r.heads = run[d].heads
  BY <1>1, RunFacts, DeviceFacts DEF Runs
<1> HIDE DEF r
<1>3. Covered(state[d], r, commits)
  BY <1>1, <1>2, HistoryFacts DEF Covered
<1>4. QED
  BY <1>1, <1>2, <1>3, DeviceFacts, StateFacts, HistoryFacts, HistoryOneDevice, EndKeepsHistory

\* The end of a pull: the records become what was selected, with the heads it was selected
\* from, and the time of the device is raised to theirs.
LEMMA PullSaveKeepsHistory ==
  ASSUME SyncInv, HistoryInv, NEW d \in Devices, PullSave(d)
  PROVE  HistoryInv'
<1> DEFINE known == UNION {commits[id].past : id \in run[d].heads}
           times == {state[d].lamport} \cup {commits[id].lamport : id \in known}
           lamport == Max(times)
           s == [state[d] EXCEPT !.initialized = TRUE, !.known = known,
                                 !.heads = run[d].heads, !.lamport = lamport,
                                 !.records = run[d].selected]
           r == [Idle EXCEPT !.phase = "pulled"]
<1>1. Becomes(d, s, r) /\ commits' = commits /\ run[d].phase = "applying"
  BY Zenon DEF PullSave, Becomes, Advance
<1>2. /\ run[d].heads \subseteq DOMAIN commits /\ known \subseteq DOMAIN commits
      /\ run[d].heads \subseteq known
  BY DeviceFacts DEF RefersTo, GraphOK
<1>3. lamport \in Nat /\ \A time \in times : time <= lamport
  BY <1>2, TimeOfKnown
<1>4. \A id \in run[d].heads : commits[id].lamport <= lamport
  BY <1>2, <1>3
<1>5. known \subseteq CommitIds /\ run[d].heads \subseteq CommitIds
  BY <1>2, DeviceFacts DEF GraphOK
<1>6. r \in Runs /\ r.phase = "pulled"
  BY IdleRun DEF Phases
<1> HIDE DEF known, times, lamport
<1>7. /\ s \in SyncStates /\ s.heads = run[d].heads /\ s.lamport = lamport
      /\ s.records = run[d].selected /\ s.sequence = state[d].sequence
      /\ s.prepared = state[d].prepared
  BY <1>3, <1>5, DeviceFacts, StateFacts, RunFacts DEF SyncStates
<1> HIDE DEF s, r
<1>8. Numbers(d, s, commits)
  BY <1>7, SameNumbers
<1>9. Covered(s, r, commits)
  BY <1>1, <1>4, <1>6, <1>7, HistoryFacts DEF Covered, Covers, Reaches
<1>10. QED
  BY <1>1, <1>6, <1>7, <1>8, <1>9, HistoryOneDevice

\* The scan of the vault: a prepared commit may lose what it completes, never its content.
LEMMA ReconcileKeepsHistory ==
  ASSUME SyncInv, HistoryInv, NEW d \in Devices, Reconcile(d)
  PROVE  HistoryInv'
<1>1. PICK pending \in MapsTo(PendingOperations), prepared \in PreparedCommits \cup {None} :
        LET s == [state[d] EXCEPT !.pending = pending, !.prepared = prepared]
            r == NextOfPush(d, pending)
        IN
        /\ Becomes(d, s, r)
        /\ prepared = None <=> state[d].prepared = None
        /\ prepared # None => /\ prepared.id = state[d].prepared.id
                              /\ prepared.commit = state[d].prepared.commit
        /\ run[d].phase = "pulled"
        /\ UNCHANGED <<commits, vault>>
  BY ReconcileForm
<1> DEFINE s == [state[d] EXCEPT !.pending = pending, !.prepared = prepared]
           r == NextOfPush(d, pending)
<1>2. /\ r \in Runs
      /\ r.phase \in {"idle", "preparing", "publishing"}
      /\ r.phase = "preparing" => r.records = state[d].records /\ state[d].prepared = None
  BY NextOfPushType
<1>3. /\ s \in SyncStates /\ s.heads = state[d].heads /\ s.lamport = state[d].lamport
      /\ s.records = state[d].records /\ s.sequence = state[d].sequence
      /\ s.prepared = prepared
  BY DeviceFacts, StateFacts DEF SyncStates
<1>4. Becomes(d, s, r)
  BY <1>1
<1> HIDE DEF s, r
<1>5. Numbers(d, s, commits)
  BY <1>1, <1>3, SameNumbers
<1>6. Covered(s, r, commits)
  BY <1>1, <1>2, <1>3, HistoryFacts DEF Covered
<1>7. QED
  BY <1>1, <1>2, <1>3, <1>4, <1>5, <1>6, HistoryOneDevice

\* A record more among records.
LEMMA PutRecord ==
  ASSUME NEW CONSTANT records \in MapsTo(Records), NEW CONSTANT o \in Objects,
         NEW CONSTANT record \in Records
  PROVE  /\ Put(records, o, record) \in MapsTo(Records)
         /\ DOMAIN Put(records, o, record) = DOMAIN records \cup {o}
<1>1. Put(records, o, record) \in MapsTo(Records)
  BY PutMap
<1>2. DOMAIN Put(records, o, record) = DOMAIN records \cup {o}
  BY DEF Put
<1>3. QED
  BY <1>1, <1>2

\* One more record of a push: records are added to those of the device, none is dropped.
LEMMA PrepareKeepsHistory ==
  ASSUME SyncInv, HistoryInv, NEW d \in Devices, Prepare(d)
  PROVE  HistoryInv'
<1>1. CASE Throw(d)
  BY <1>1, OthersKeepHistory
<1>2. ASSUME NEW o \in run[d].todo, NEW record \in Records,
             o \in DOMAIN state[d].pending,
             Becomes(d, state[d], [run[d] EXCEPT !.todo = @ \ {o}, !.records = Put(@, o, record)]),
             run[d].phase = "preparing",
             UNCHANGED <<commits, drawn, vault>>
      PROVE  HistoryInv'
  <2>1. run[d].records \in MapsTo(Records)
    BY RunFacts, DeviceFacts
  <2>2. o \in Objects /\ record \in Records
    BY RunFacts, DeviceFacts
  <2> DEFINE m == run[d].records
  <2> HIDE DEF m
  <2>8. m \in MapsTo(Records)
    BY <2>1 DEF m
  <2>3. Put(m, o, record) \in MapsTo(Records) /\ DOMAIN Put(m, o, record) = DOMAIN m \cup {o}
    BY <2>2, <2>8, PutRecord
  <2> DEFINE r == [run[d] EXCEPT !.todo = @ \ {o}, !.records = Put(m, o, record)]
  <2>9. Becomes(d, state[d], r)
    BY <1>2 DEF m
  <2>4. r \in Runs /\ r.phase = "preparing" /\ r.records = Put(m, o, record)
    BY <1>2, <2>3, RunFacts, DeviceFacts DEF Runs, m
  <2> HIDE DEF r
  <2>5. DOMAIN m \subseteq DOMAIN r.records
    BY <2>3, <2>4
  <2>6. Covered(state[d], r, commits)
    BY <1>2, <2>4, <2>5, HistoryFacts DEF Covered, m
  <2>7. QED
    BY <1>2, <2>9, <2>4, <2>6, DeviceFacts, StateFacts, HistoryFacts, HistoryOneDevice
<1>3. QED
  BY <1>1, <1>2, PrepareForm

\* The signature: the commit takes the heads for parents, and the number after the last.
LEMMA SignKeepsHistory ==
  ASSUME SyncInv, HistoryInv, NEW d \in Devices, Sign(d)
  PROVE  HistoryInv'
<1> DEFINE prepared == [id |-> NextId(d), commit |-> SignedCommit(d),
                        completes |-> DOMAIN state[d].pending]
           s == [state[d] EXCEPT !.prepared = prepared]
           r == [Idle EXCEPT !.phase = "publishing"]
<1>1. /\ Becomes(d, s, r) /\ commits' = commits
      /\ prepared \in PreparedCommits /\ prepared # None
      /\ run[d].phase = "preparing"
  BY SignForm, DeviceFacts
<1>2. r \in Runs /\ r.phase = "publishing"
  BY IdleRun DEF Phases
<1>3. /\ prepared.id = <<d, state[d].sequence + 1>>
      /\ prepared.commit = SignedCommit(d)
      /\ SignedCommit(d).parents = state[d].heads
      /\ SignedCommit(d).lamport = state[d].lamport + 1
      /\ SignedCommit(d).manifest = run[d].records
  BY DEF NextId, SignedCommit
<1>4. state[d].lamport \in Nat /\ state[d].sequence \in Nat
  BY DeviceFacts, StateFacts
<1> HIDE DEF prepared
<1>5. s \in SyncStates /\ s.sequence = state[d].sequence /\ s.prepared = prepared
  BY <1>1, DeviceFacts, StateFacts DEF SyncStates
<1> HIDE DEF s, r
<1>6. /\ state[d].prepared = None
      /\ Covers(state[d].records, state[d].heads, commits)
      /\ Reaches(state[d].lamport, state[d].heads, commits)
      /\ DOMAIN state[d].records \subseteq DOMAIN run[d].records
      /\ Numbers(d, state[d], commits)
  BY <1>1, HistoryFacts DEF Covered
<1>7. Numbers(d, s, commits)
  BY <1>1, <1>3, <1>5, <1>6 DEF Numbers
<1>8. /\ Covers(SignedCommit(d).manifest, SignedCommit(d).parents, commits)
      /\ Reaches(SignedCommit(d).lamport - 1, SignedCommit(d).parents, commits)
      /\ SignedCommit(d).lamport \in Nat \ {0}
  BY <1>3, <1>4, <1>6 DEF Covers, Reaches
<1>9. Covered(s, r, commits)
  BY <1>2, <1>3, <1>5, <1>8 DEF Covered
<1>10. QED
  BY <1>1, <1>2, <1>5, <1>7, <1>9, HistoryOneDevice

\* The end of a push: the number of the commit is used now, and no commit is prepared.
LEMMA PublishPreparedKeepsHistory ==
  ASSUME SyncInv, HistoryInv, NEW d \in Devices, PublishPrepared(d)
  PROVE  HistoryInv'
<1> DEFINE prepared == state[d].prepared
           left == DOMAIN state[d].pending \ prepared.completes
           pending == Restrict(state[d].pending, left)
           s == [state[d] EXCEPT
                   !.initialized = TRUE,
                   !.sequence = prepared.id[2],
                   !.lamport = prepared.commit.lamport,
                   !.known = state[d].known \cup {prepared.id},
                   !.heads = run[d].heads,
                   !.records = prepared.commit.manifest,
                   !.pending = pending,
                   !.prepared = None]
<1>1. CASE Throw(d)
  BY <1>1, OthersKeepHistory
<1>2. ASSUME run[d].phase = "accepted", prepared # None, Becomes(d, s, Idle), commits' = commits
      PROVE  HistoryInv'
  <2>1. /\ prepared.id \in CommitIds /\ prepared.commit.manifest \in MapsTo(Records)
        /\ prepared.commit.lamport \in Nat
    BY <1>2, PreparedFacts
  <2>2. pending \in MapsTo(PendingOperations)
    BY DeviceFacts, StateFacts, RestrictMap
  <2>3. prepared.id = <<d, state[d].sequence + 1>> /\ state[d].sequence \in Nat
    BY <1>2, HistoryFacts, DeviceFacts, StateFacts DEF Numbers
  <2>4. Numbers(d, state[d], commits)
    BY HistoryFacts
  <2> HIDE DEF prepared, left, pending
  <2>10. prepared.id[2] = state[d].sequence + 1 /\ prepared.id[2] \in Nat
    BY <2>3
  <2>11. s \in SyncStates /\ s.sequence = prepared.id[2] /\ s.prepared = None
    BY <2>1, <2>2, <2>10, DeviceFacts, StateFacts, RunFacts DEF SyncStates
  <2> HIDE DEF s
  <2>5. s \in SyncStates /\ s.sequence = state[d].sequence + 1 /\ s.prepared = None
    BY <2>10, <2>11
  <2>6. Numbers(d, s, commits)
    BY <2>3, <2>4, <2>5 DEF Numbers
  <2>7. Idle \in Runs /\ Idle.phase = "idle"
    BY IdleRun DEF Phases
  <2>8. Covered(s, Idle, commits)
    BY <2>5, <2>7 DEF Covered
  <2>9. QED
    BY <1>2, <2>5, <2>6, <2>7, <2>8, HistoryOneDevice
<1>3. QED
  BY <1>1, <1>2, PublishPreparedForm

----------------------------------------------------------------------------
\* The step that adds to the graph.

\* Commits that are accepted stay as they are.
Extends(graph, more) ==
  /\ DOMAIN graph \subseteq DOMAIN more
  /\ \A id \in DOMAIN graph : more[id] = graph[id]

\* What covers accepted commits covers them in a greater graph.
LEMMA CoveredInMore ==
  ASSUME NEW s, NEW r, NEW graph, NEW more, Extends(graph, more),
         s.heads \subseteq DOMAIN graph, r.heads \subseteq DOMAIN graph,
         s.prepared # None => s.prepared.commit.parents \subseteq DOMAIN graph,
         Covered(s, r, graph)
  PROVE  Covered(s, r, more)
BY DEF Covered, Covers, Reaches, Extends

\* The commit reaches the server: its number is new there, or the commit is there already.
LEMMA PutCommitKeepsHistory ==
  ASSUME SyncInv, HistoryInv, NEW d \in Devices, PutCommit(d)
  PROVE  HistoryInv'
<1> DEFINE id == state[d].prepared.id
           commit == state[d].prepared.commit
<1>1. CASE Throw(d)
  BY <1>1, OthersKeepHistory
<1>2. ASSUME NEW heads,
             run[d].phase = "publishing", state[d].prepared # None,
             Acceptable(id, commit),
             commits' = Put(commits, id, commit),
             heads \subseteq DOMAIN commits',
             Becomes(d, state[d], [Idle EXCEPT !.phase = "accepted", !.heads = heads])
      PROVE  HistoryInv'
  <2> DEFINE r == [Idle EXCEPT !.phase = "accepted", !.heads = heads]
  <2>1. /\ GraphOK'
        /\ DOMAIN commits' = DOMAIN commits \cup {id}
        /\ commits'[id] = commit
        /\ \A other \in DOMAIN commits \ {id} : commits'[other] = commits[other]
    BY <1>2, GraphGrows
  <2>2. id \in DOMAIN commits => commits[id] = commit
    BY <1>2 DEF Acceptable
  <2>3. Extends(commits, commits')
    BY <2>1, <2>2 DEF Extends
  <2>4. id = <<d, state[d].sequence + 1>>
    BY <1>2, HistoryFacts DEF Numbers
  <2>5. /\ commit.parents \subseteq DOMAIN commits /\ commit.lamport \in Nat
        /\ Covers(commit.manifest, commit.parents, commits)
        /\ Reaches(commit.lamport - 1, commit.parents, commits)
    BY <1>2, DeviceFacts, PreparedFacts, HistoryFacts DEF RefersTo, Covered
  <2>6. heads \subseteq CommitIds
    BY <1>2, <2>1 DEF GraphOK
  <2>7. r \in Runs /\ r.phase = "accepted"
    BY <2>6, EmptyMap DEF Idle, Runs, Phases
  <2>8. /\ state'[d] = state[d] /\ run'[d] = r
        /\ \A e \in Devices \ {d} : state'[e] = state[e] /\ run'[e] = run[e]
    BY <1>2, <2>7, BecomesEffect, DeviceFacts, StateFacts
  <2> HIDE DEF id, commit, r
  <2>9. TimeFollowsHistory'
    <3>1. ASSUME NEW new \in DOMAIN commits', NEW parent \in commits'[new].parents
          PROVE  commits'[parent].lamport < commits'[new].lamport
      <4>1. CASE new \in DOMAIN commits
        <5>1. commits'[new] = commits[new] /\ parent \in DOMAIN commits
          BY <2>3, <4>1, DeviceFacts DEF GraphOK, Extends
        <5>2. commits[parent].lamport < commits[new].lamport
          BY <4>1, <5>1 DEF HistoryInv, TimeFollowsHistory
        <5>3. QED
          BY <2>3, <5>1, <5>2 DEF Extends
      <4>2. CASE new \notin DOMAIN commits
        <5>1. new = id /\ parent \in commit.parents /\ parent \in DOMAIN commits
          BY <2>1, <2>5, <4>2
        <5>2. commits[parent].lamport <= commit.lamport - 1 /\ commits[parent].lamport \in Nat
          BY <2>5, <5>1, IdFacts, DeviceFacts DEF Reaches
        <5>3. QED
          BY <2>1, <2>3, <2>5, <5>1, <5>2 DEF Extends
      <4>3. QED
        BY <4>1, <4>2
    <3>2. QED
      BY <3>1 DEF TimeFollowsHistory
  <2>10. NoObjectIsForgotten'
    <3>1. ASSUME NEW new \in DOMAIN commits', NEW parent \in commits'[new].parents
          PROVE  DOMAIN commits'[parent].manifest \subseteq DOMAIN commits'[new].manifest
      <4>1. CASE new \in DOMAIN commits
        <5>1. commits'[new] = commits[new] /\ parent \in DOMAIN commits
          BY <2>3, <4>1, DeviceFacts DEF GraphOK, Extends
        <5>2. DOMAIN commits[parent].manifest \subseteq DOMAIN commits[new].manifest
          BY <4>1, <5>1 DEF HistoryInv, NoObjectIsForgotten
        <5>3. QED
          BY <2>3, <5>1, <5>2 DEF Extends
      <4>2. CASE new \notin DOMAIN commits
        <5>1. new = id /\ parent \in commit.parents /\ parent \in DOMAIN commits
          BY <2>1, <2>5, <4>2
        <5>2. DOMAIN commits[parent].manifest \subseteq DOMAIN commit.manifest
          BY <2>5, <5>1 DEF Covers
        <5>3. QED
          BY <2>1, <2>3, <5>1, <5>2 DEF Extends
      <4>3. QED
        BY <4>1, <4>2
    <3>2. QED
      BY <3>1 DEF NoObjectIsForgotten
  <2>11. Numbers(d, state'[d], commits') /\ Covered(state'[d], run'[d], commits')
    <3>1. Numbers(d, state[d], commits')
      <4>1. Numbers(d, state[d], commits)
        BY HistoryFacts
      <4>2. ASSUME NEW n \in Nat, <<d, n>> \in DOMAIN commits'
            PROVE  /\ n <= state[d].sequence + 1
                   /\ n = state[d].sequence + 1 => commits'[<<d, n>>] = commit
        <5>1. CASE <<d, n>> \in DOMAIN commits
          BY <2>3, <4>1, <5>1 DEF Numbers, Extends, commit
        <5>2. CASE <<d, n>> = id
          BY <2>1, <2>4, <5>2, DeviceFacts, StateFacts
        <5>3. QED
          BY <2>1, <4>2, <5>1, <5>2
      <4>3. QED
        BY <1>2, <4>1, <4>2 DEF Numbers, commit
    <3>2. Covered(state[d], r, commits')
      <4>1. /\ Covers(commit.manifest, commit.parents, commits')
            /\ Reaches(commit.lamport - 1, commit.parents, commits')
        BY <2>3, <2>5 DEF Covers, Reaches, Extends
      <4>2. commit.lamport \in Nat \ {0}
        BY <1>2, HistoryFacts DEF Covered, commit
      <4>3. QED
        BY <2>7, <4>1, <4>2 DEF Covered, commit
    <3>3. QED
      BY <2>8, <3>1, <3>2
  <2>12. ASSUME NEW e \in Devices, e # d
         PROVE  Numbers(e, state'[e], commits') /\ Covered(state'[e], run'[e], commits')
    <3>1. Numbers(e, state[e], commits')
      <4>1. Numbers(e, state[e], commits)
        BY HistoryFacts
      <4>2. \A n \in Nat : <<e, n>> \in DOMAIN commits' =>
              <<e, n>> \in DOMAIN commits /\ commits'[<<e, n>>] = commits[<<e, n>>]
        BY <2>1, <2>3, <2>4, <2>12 DEF Extends
      <4>3. QED
        BY <4>1, <4>2 DEF Numbers
    <3>2. Covered(state[e], run[e], commits')
      <4>1. /\ state[e].heads \subseteq DOMAIN commits /\ run[e].heads \subseteq DOMAIN commits
            /\ state[e].prepared # None =>
                 state[e].prepared.commit.parents \subseteq DOMAIN commits
            /\ Covered(state[e], run[e], commits)
        BY DeviceFacts, HistoryFacts DEF RefersTo
      <4>2. QED
        BY <2>3, <4>1, CoveredInMore
    <3>3. QED
      BY <2>8, <2>12, <3>1, <3>2
  <2>13. QED
    BY <2>9, <2>10, <2>11, <2>12 DEF HistoryInv
<1>3. QED
  BY <1>1, <1>2, PutCommitForm

----------------------------------------------------------------------------
\* All steps.

\* Every step.
LEMMA NextKeepsHistory ==
  ASSUME SyncInv, HistoryInv, [Next]_syncVars
  PROVE  HistoryInv'
<1>1. CASE UNCHANGED syncVars
  BY <1>1 DEF syncVars, vars, HistoryInv, TimeFollowsHistory, NoObjectIsForgotten
<1>2. ASSUME NEW d \in Devices,
             UserStep(d) \/ Interrupt(d) \/ ApplyInterrupted(d) \/ SyncStep(d)
      PROVE  HistoryInv'
  <2>1. CASE UserStep(d) \/ Interrupt(d) \/ ApplyInterrupted(d)
    BY <2>1, OthersKeepHistory
  <2>2. CASE SyncStep(d)
    <3>1. CASE PullStep(d)
      BY <3>1, PullStartKeepsHistory, ApplyEntryKeepsHistory, PullSaveKeepsHistory DEF PullStep
    <3>2. CASE PushStep(d)
      BY <3>2, ReconcileKeepsHistory, PrepareKeepsHistory, SignKeepsHistory,
         PutCommitKeepsHistory, PublishPreparedKeepsHistory DEF PushStep
    <3>3. QED
      BY <2>2, <3>1, <3>2 DEF SyncStep
  <2>3. QED
    BY <1>2, <2>1, <2>2
<1>3. QED
  BY <1>1, <1>2 DEF Next

\* At the beginning there is no commit, or the one from which all devices start.
LEMMA InitHistory == Init => HistoryInv
<1> SUFFICES ASSUME Init PROVE HistoryInv
  OBVIOUS
<1>1. PICK notes \in Beginnings :
        /\ run = [d \in Devices |-> Idle]
        /\ IF notes = Empty
           THEN /\ commits = [id \in {} |-> None]
                /\ state = [d \in Devices |-> EmptyState]
           ELSE /\ commits = [id \in {Root} |->
                     [parents |-> {}, past |-> {Root}, lamport |-> 1,
                      manifest |-> Shared(notes)]]
                /\ state = [d \in Devices |-> SharedState(d, notes)]
  BY Zenon DEF Init
<1>2. Idle.phase = "idle"
  BY IdleRun DEF Phases
<1>3. CASE notes = Empty
  <2>1. DOMAIN commits = {} /\ \A d \in Devices : state[d] = EmptyState /\ run[d] = Idle
    BY <1>1, <1>3
  <2>2. EmptyState.prepared = None
    BY DEF EmptyState
  <2>3. QED
    BY <1>2, <2>1, <2>2 DEF HistoryInv, TimeFollowsHistory, NoObjectIsForgotten, Numbers, Covered
<1>4. CASE notes # Empty
  <2>1. /\ DOMAIN commits = {Root} /\ commits[Root].parents = {}
        /\ \A d \in Devices : state[d] = SharedState(d, notes) /\ run[d] = Idle
    BY <1>1, <1>4
  <2>2. ASSUME NEW d \in Devices
        PROVE  /\ SharedState(d, notes).prepared = None
               /\ SharedState(d, notes).sequence = IF d = Author THEN 1 ELSE 0
    BY DEF SharedState, EmptyState
  <2>3. ASSUME NEW d \in Devices
        PROVE  Numbers(d, state[d], commits) /\ Covered(state[d], run[d], commits)
    <3>1. \A n \in Nat : <<d, n>> = Root => d = Author /\ n = 1
      BY DEF Root
    <3>2. QED
      BY <1>2, <2>1, <2>2, <3>1 DEF Numbers, Covered
  <2>4. QED
    BY <2>1, <2>3 DEF HistoryInv, TimeFollowsHistory, NoObjectIsForgotten
<1>5. QED
  BY <1>3, <1>4

\* Both invariants hold together.
LEMMA HistoryAlways == Spec => [](SyncInv /\ HistoryInv)
<1>1. Init => SyncInv /\ HistoryInv
  BY InitInv, InitHistory
<1>2. SyncInv /\ HistoryInv /\ [Next]_syncVars => (SyncInv /\ HistoryInv)'
  BY NextKeepsInv, NextKeepsHistory
<1>3. QED
  BY <1>1, <1>2, PTL DEF Spec

\* A number has one commit: the next number of a device is free, or is that of the commit it
\* has prepared.
LEMMA NumbersUsed ==
  ASSUME SyncInv, HistoryInv
  PROVE  NumbersAreUsedOnce
<1>1. ASSUME NEW d \in Devices
      PROVE  /\ state[d].prepared # None /\ state[d].prepared.id \in DOMAIN commits =>
                  commits[state[d].prepared.id] = state[d].prepared.commit
             /\ state[d].prepared = None => NextId(d) \notin DOMAIN commits
  <2>1. Numbers(d, state[d], commits) /\ state[d].sequence + 1 \in Nat
    BY HistoryFacts, DeviceFacts, StateFacts
  <2>2. QED
    BY <2>1 DEF Numbers, NextId
<1>2. QED
  BY <1>1 DEF NumbersAreUsedOnce

----------------------------------------------------------------------------
\* The target of a pull.

\* The objects that commits name.
NamedIn(graph) == UNION {DOMAIN graph[id].manifest : id \in DOMAIN graph}

\* A device that pulls a single head, began the pull without edits, remembers no deleted note,
\* and has no path to pass from one note to another.
Plain(s, r) ==
  /\ Cardinality(r.heads) = 1
  /\ r.local = FilesOf(s.records)
  /\ ActiveObjects(s.records) = DOMAIN s.records
  /\ \A o \in ActiveObjects(r.selected), other \in DOMAIN s.records :
       o # other => r.selected[o].path # s.records[other].path

\* Half way through a pull, the entries that are left have their record still, and the others
\* what was selected for them.
Halfway(s, r) ==
  [o \in (DOMAIN r.selected \ r.todo) \cup DOMAIN s.records |->
     IF o \in r.todo THEN s.records[o] ELSE r.selected[o]]

\* While entries are applied, each path has one note, what was selected is named by commits,
\* and no record is without its entry; a plain device has the files of Halfway.
Underway(s, r, files, graph) ==
  /\ PathsUnique(r.selected)
  /\ DOMAIN r.selected \subseteq NamedIn(graph)
  /\ Cardinality(r.heads) = 1 =>
       /\ DOMAIN s.records \subseteq DOMAIN r.selected
       /\ \A o \in DOMAIN r.conflicts : r.conflicts[o] = {}
  /\ Plain(s, r) => files = FilesOf(Halfway(s, r))

\* The inductive invariant of one device, which only reads the named fields of its state and
\* its synchronization.
Targeted(s, r, files, graph) ==
  /\ PathsUnique(s.records)
  /\ DOMAIN s.records \subseteq NamedIn(graph)
  /\ r.phase = "applying" => Underway(s, r, files, graph)

TargetInv == \A d \in Devices : Targeted(state[d], run[d], vault[d], commits)

----------------------------------------------------------------------------
\* Files and records.

\* The files of records hold the contents of the active ones, and nothing else.
LEMMA FilesOfFacts ==
  ASSUME NEW records \in MapsTo(Records), PathsUnique(records)
  PROVE  /\ FilesOf(records) \in FileMaps
         /\ \A o \in ActiveObjects(records) :
              /\ records[o].path \in Files /\ records[o].hash \in Contents
              /\ FilesOf(records)[records[o].path] = records[o].hash
         /\ \A f \in Files : FilesOf(records)[f] # None =>
              \E o \in ActiveObjects(records) : records[o].path = f
<1>1. FilesOf(records) \in FileMaps
  BY FilesOfType
<1>2. ASSUME NEW o \in ActiveObjects(records)
      PROVE  /\ records[o].path \in Files /\ records[o].hash \in Contents
             /\ FilesOf(records)[records[o].path] = records[o].hash
  <2>1. records[o] \in Records
    BY MapFacts DEF ActiveObjects
  <2>2. records[o].path \in Files /\ records[o].hash \in Contents
    BY <2>1 DEF Records
  <2>3. RecordAt(records, records[o].path) = {o}
    BY DEF RecordAt, PathsUnique
  <2>4. (CHOOSE other \in {o} : TRUE) = o
    OBVIOUS
  <2>5. QED
    BY <2>2, <2>3, <2>4 DEF FilesOf
<1>3. ASSUME NEW f \in Files, FilesOf(records)[f] # None
      PROVE  \E o \in ActiveObjects(records) : records[o].path = f
  BY <1>3 DEF FilesOf, RecordAt
<1>4. QED
  BY <1>1, <1>2, <1>3

\* Files that hold those contents and nothing else are the files of the records.
LEMMA FilesOfIs ==
  ASSUME NEW records \in MapsTo(Records), PathsUnique(records), NEW files \in FileMaps,
         \A o \in ActiveObjects(records) : files[records[o].path] = records[o].hash,
         \A f \in Files : files[f] # None =>
           \E o \in ActiveObjects(records) : records[o].path = f
  PROVE  files = FilesOf(records)
<1> DEFINE ofRecords == FilesOf(records)
<1>1. /\ ofRecords \in FileMaps
      /\ \A o \in ActiveObjects(records) : ofRecords[records[o].path] = records[o].hash
      /\ \A f \in Files : ofRecords[f] # None =>
           \E o \in ActiveObjects(records) : records[o].path = f
  BY FilesOfFacts
<1> HIDE DEF ofRecords
<1>2. \A f \in Files : files[f] = ofRecords[f]
  <2>1. ASSUME NEW f \in Files
        PROVE  files[f] = ofRecords[f]
    <3>1. CASE \E o \in ActiveObjects(records) : records[o].path = f
      BY <1>1, <3>1
    <3>2. CASE ~ \E o \in ActiveObjects(records) : records[o].path = f
      BY <1>1, <3>2
    <3>3. QED
      BY <3>1, <3>2
  <2>2. QED
    BY <2>1
<1>3. files = ofRecords
  BY <1>1, <1>2 DEF FileMaps
<1>4. QED
  BY <1>3 DEF ofRecords

\* No copies are made of no entries.
LEMMA NoCopies ==
  ASSUME NEW d, NEW files \in FileMaps
  PROVE  WithCopies(d, files, {}) = files
<1>1. {entry \in {} : ~entry.tombstone} = {}
  OBVIOUS
<1>2. WithCopies(d, files, {}) = [f \in Files |-> files[f]]
  BY <1>1 DEF WithCopies
<1>3. QED
  BY <1>2 DEF FileMaps

\* Half way, the records are those of the device or what was selected, each at its own path.
LEMMA HalfwayFacts ==
  ASSUME NEW s, NEW r, s.records \in MapsTo(Records), r.selected \in MapsTo(Records),
         PathsUnique(s.records), PathsUnique(r.selected),
         DOMAIN s.records \subseteq DOMAIN r.selected, r.todo \subseteq DOMAIN r.selected,
         Plain(s, r)
  PROVE  Halfway(s, r) \in MapsTo(Records) /\ PathsUnique(Halfway(s, r))
<1> DEFINE half == Halfway(s, r)
           objects == (DOMAIN r.selected \ r.todo) \cup DOMAIN s.records
<1>1. /\ DOMAIN half = objects
      /\ \A o \in objects : half[o] = IF o \in r.todo THEN s.records[o] ELSE r.selected[o]
  BY DEF Halfway
<1>2. /\ DOMAIN s.records \subseteq Objects /\ DOMAIN r.selected \subseteq Objects
      /\ \A o \in DOMAIN s.records : s.records[o] \in Records
      /\ \A o \in DOMAIN r.selected : r.selected[o] \in Records
  BY MapFacts
<1>3. half \in [objects -> Records] /\ objects \subseteq Objects
  BY <1>2 DEF Halfway
<1>4. half \in MapsTo(Records)
  BY <1>3, MapIsMap
<1> HIDE DEF half
<1>5. PathsUnique(half)
  <2>1. ASSUME NEW o \in ActiveObjects(half), NEW other \in ActiveObjects(half),
               half[o].path = half[other].path
        PROVE  o = other
    <3>1. /\ o \in objects /\ other \in objects /\ ~half[o].tombstone /\ ~half[other].tombstone
      BY <1>1 DEF ActiveObjects
    <3>2. CASE o \in r.todo /\ other \in r.todo
      <4>1. o \in ActiveObjects(s.records) /\ other \in ActiveObjects(s.records)
        BY <1>1, <3>1, <3>2 DEF ActiveObjects
      <4>2. QED
        BY <1>1, <2>1, <3>1, <3>2, <4>1 DEF PathsUnique
    <3>3. CASE o \notin r.todo /\ other \notin r.todo
      <4>1. o \in ActiveObjects(r.selected) /\ other \in ActiveObjects(r.selected)
        BY <1>1, <3>1, <3>3 DEF ActiveObjects
      <4>2. QED
        BY <1>1, <2>1, <3>1, <3>3, <4>1 DEF PathsUnique
    <3>4. CASE o \in r.todo /\ other \notin r.todo
      <4>1. o \in DOMAIN s.records /\ other \in ActiveObjects(r.selected)
        BY <1>1, <3>1, <3>4 DEF ActiveObjects
      <4>2. QED
        BY <1>1, <2>1, <3>1, <3>4, <4>1 DEF Plain
    <3>5. CASE o \notin r.todo /\ other \in r.todo
      <4>1. other \in DOMAIN s.records /\ o \in ActiveObjects(r.selected)
        BY <1>1, <3>1, <3>5 DEF ActiveObjects
      <4>2. QED
        BY <1>1, <2>1, <3>1, <3>5, <4>1 DEF Plain
    <3>6. QED
      BY <3>2, <3>3, <3>4, <3>5
  <2>2. QED
    BY <2>1 DEF PathsUnique
<1>6. QED
  BY <1>4, <1>5 DEF half

\* The files when one object goes over from a record to another: what is at the path of its
\* record goes, unless the new one has that path, and what the new one says is there.
LEMMA FilesWithEntry ==
  ASSUME NEW half \in MapsTo(Records), PathsUnique(half),
         NEW next \in MapsTo(Records), PathsUnique(next), NEW o,
         DOMAIN next = DOMAIN half \cup {o},
         \A p \in DOMAIN half \ {o} : next[p] = half[p],
         NEW files \in FileMaps, \A p \in ActiveObjects(next) \ {o} :
                                   files[half[p].path] = half[p].hash,
         ~next[o].tombstone => files[next[o].path] = next[o].hash,
         \A f \in Files : files[f] # None =>
           \/ \E p \in ActiveObjects(half) \ {o} : half[p].path = f
           \/ ~next[o].tombstone /\ next[o].path = f
  PROVE  files = FilesOf(next)
<1>1. ActiveObjects(next) \ {o} = ActiveObjects(half) \ {o}
  BY DEF ActiveObjects
<1>2. \A p \in ActiveObjects(next) : files[next[p].path] = next[p].hash
  BY <1>1 DEF ActiveObjects
<1>3. \A f \in Files : files[f] # None => \E p \in ActiveObjects(next) : next[p].path = f
  <2>1. ~next[o].tombstone => o \in ActiveObjects(next)
    BY DEF ActiveObjects
  <2>2. \A p \in ActiveObjects(half) \ {o} : p \in ActiveObjects(next) /\ next[p] = half[p]
    BY <1>1 DEF ActiveObjects
  <2>3. QED
    BY <2>1, <2>2
<1>4. QED
  BY <1>2, <1>3, FilesOfIs

\* The next entry of a plain device: it is applied without a copy and without an error, and the
\* files are those of the records that are half way then.
LEMMA PlainEntry ==
  ASSUME SyncInv, NEW d \in Devices, NEW o \in run[d].todo, NEW r,
         r.heads = run[d].heads, r.local = run[d].local, r.selected = run[d].selected,
         r.todo = run[d].todo \ {o},
         PathsUnique(state[d].records), PathsUnique(run[d].selected),
         DOMAIN state[d].records \subseteq DOMAIN run[d].selected,
         run[d].todo \subseteq DOMAIN run[d].selected,
         Plain(state[d], run[d]), vault[d] = FilesOf(Halfway(state[d], run[d]))
  PROVE  LET applied == Applied(d, vault[d], run[d].local, o, run[d].selected[o]) IN
         ~applied.thrown /\ applied.files = FilesOf(Halfway(state[d], r))
<1> DEFINE records == state[d].records
           selected == run[d].selected
           local == run[d].local
           remote == selected[o]
           files == vault[d]
           half == Halfway(state[d], run[d])
           next == Halfway(state[d], r)
           applied == Applied(d, files, local, o, remote)
<1>1. /\ records \in MapsTo(Records) /\ selected \in MapsTo(Records)
      /\ \A p \in DOMAIN records : records[p] \in Records
      /\ \A p \in DOMAIN selected : selected[p] \in Records
  BY DeviceFacts, StateFacts, RunFacts, MapFacts
<1>2. half \in MapsTo(Records) /\ PathsUnique(half)
  BY <1>1, HalfwayFacts
<1>3. Plain(state[d], r)
  BY DEF Plain
<1>4. next \in MapsTo(Records) /\ PathsUnique(next)
  BY <1>1, <1>3, HalfwayFacts
<1>5. /\ DOMAIN half = (DOMAIN selected \ run[d].todo) \cup DOMAIN records
      /\ \A p \in DOMAIN half : half[p] = IF p \in run[d].todo THEN records[p] ELSE selected[p]
  BY DEF Halfway
<1>6. /\ DOMAIN next = (DOMAIN selected \ r.todo) \cup DOMAIN records
      /\ \A p \in DOMAIN next : next[p] = IF p \in r.todo THEN records[p] ELSE selected[p]
  BY DEF Halfway
<1> HIDE DEF half, next
<1>7. /\ DOMAIN next = DOMAIN half \cup {o} /\ next[o] = remote
      /\ \A p \in DOMAIN half \ {o} : next[p] = half[p]
      /\ o \in DOMAIN half <=> o \in DOMAIN records
      /\ o \in DOMAIN records => half[o] = records[o]
  BY <1>5, <1>6
<1>8. /\ files \in FileMaps
      /\ \A p \in ActiveObjects(half) :
           half[p].path \in Files /\ half[p].hash \in Contents /\ files[half[p].path] = half[p].hash
      /\ \A f \in Files : files[f] # None => \E p \in ActiveObjects(half) : half[p].path = f
  BY <1>2, FilesOfFacts DEF half
<1>9. /\ local \in FileMaps
      /\ \A p \in DOMAIN records : /\ records[p].path \in Files /\ records[p].hash \in Contents
                                   /\ local[records[p].path] = records[p].hash
      /\ \A f \in Files : local[f] # None => \E p \in DOMAIN records : records[p].path = f
  <2>1. local = FilesOf(records) /\ ActiveObjects(records) = DOMAIN records
    BY DEF Plain
  <2>2. QED
    BY <1>1, <2>1, FilesOfFacts
<1>10. /\ remote.path \in Files /\ remote.hash \in Contents /\ remote.tombstone \in BOOLEAN
  BY <1>1 DEF Records
<1>11. ~remote.tombstone =>
        /\ \A p \in DOMAIN records : p # o => records[p].path # remote.path
        /\ \A p \in ActiveObjects(half) : p # o => half[p].path # remote.path
  <2>1. ASSUME ~remote.tombstone
        PROVE  \A p \in DOMAIN records : p # o => records[p].path # remote.path
    BY <2>1 DEF Plain, ActiveObjects
  <2>2. ASSUME ~remote.tombstone
        PROVE  \A p \in ActiveObjects(half) : p # o => half[p].path # remote.path
    BY <1>4, <1>7, <2>2 DEF ActiveObjects, PathsUnique
  <2>3. QED
    BY <2>1, <2>2
<1>12. None \notin Contents /\ None \notin Files
  BY NamesAssumption
<1>13. \A p \in ActiveObjects(next) \ {o} : p \in ActiveObjects(half)
  BY <1>7 DEF ActiveObjects
<1>14. ~remote.tombstone /\ (o \notin DOMAIN records \/ records[o].path # remote.path) =>
         local[remote.path] = None /\ files[remote.path] = None
  <2>1. o \in ActiveObjects(half) => o \in DOMAIN records /\ half[o] = records[o]
    BY <1>7 DEF ActiveObjects
  <2>2. QED
    BY <1>8, <1>9, <1>10, <1>11, <2>1
<1>15. Done(files).files = files /\ ~Done(files).thrown
  BY DEF Done
<1>16. CASE o \notin DOMAIN records
  <2>1. ActiveObjects(half) \ {o} = ActiveObjects(half)
    BY <1>7, <1>16 DEF ActiveObjects
  <2>2. CASE remote.tombstone
    <3>1. applied = Done(files)
      BY <1>16, <2>2 DEF Applied
    <3>2. files = FilesOf(next)
      BY <1>2, <1>4, <1>7, <1>8, <1>13, <2>1, <2>2, FilesWithEntry, SMTT(30)
    <3>3. QED
      BY <1>15, <3>1, <3>2 DEF next
  <2>3. CASE ~remote.tombstone
    <3> DEFINE new == [files EXCEPT ![remote.path] = remote.hash]
    <3>1. local[remote.path] = None /\ files[remote.path] = None
      BY <1>14, <1>16, <2>3
    <3>2. applied = Done(new)
      BY <1>16, <2>3, <3>1 DEF Applied, CreationApplied
    <3>3. /\ new \in FileMaps /\ new[remote.path] = remote.hash
          /\ \A f \in Files \ {remote.path} : new[f] = files[f]
      BY <1>8, <1>10 DEF FileMaps
    <3> HIDE DEF new
    <3>4. \A p \in ActiveObjects(next) \ {o} : new[half[p].path] = half[p].hash
      BY <1>8, <1>11, <1>13, <2>3, <3>3
    <3>5. \A g \in Files : new[g] # None =>
            (\E p \in ActiveObjects(half) \ {o} : half[p].path = g) \/ next[o].path = g
      BY <1>7, <1>8, <2>1, <3>3
    <3>6. new = FilesOf(next)
      BY <1>2, <1>4, <1>7, <2>3, <3>3, <3>4, <3>5, FilesWithEntry, SMTT(30)
    <3>7. QED
      BY <3>2, <3>6 DEF Done, next
  <2>4. QED
    BY <1>10, <2>2, <2>3
<1>17. CASE o \in DOMAIN records
  <2> DEFINE record == records[o]
             f == record.path
  <2>1. f \in Files /\ local[f] = record.hash /\ local[f] # None
    BY <1>9, <1>12, <1>17
  <2>2. Located(local, record) = f /\ Unchanged(local, record, f) /\ f # None
    BY <1>12, <2>1 DEF Located, Unchanged
  <2>3. o \in ActiveObjects(half) /\ half[o] = record /\ files[f] = record.hash
    <3>1. o \in DOMAIN half /\ half[o] = record /\ o \in ActiveObjects(records)
      BY <1>7, <1>17 DEF Plain
    <3>2. QED
      BY <1>8, <3>1 DEF ActiveObjects
  <2>4. \A p \in ActiveObjects(half) \ {o} : half[p].path # f
    BY <1>2, <2>3 DEF PathsUnique
  <2> HIDE DEF record
  <2>5. CASE remote.tombstone
    <3>1. applied = Done(Without(files, f))
      BY <1>17, <2>2, <2>5 DEF Applied, EntryApplied, TombstoneApplied, record
    <3>2. /\ Without(files, f) \in FileMaps /\ Without(files, f)[f] = None
          /\ \A g \in Files \ {f} : Without(files, f)[g] = files[g]
      BY <1>8, <2>1, WithoutType DEF Without, FileMaps
    <3>3. \A p \in ActiveObjects(next) \ {o} : Without(files, f)[half[p].path] = half[p].hash
      BY <1>8, <1>13, <2>4, <3>2
    <3>4. \A g \in Files : Without(files, f)[g] # None =>
            \E p \in ActiveObjects(half) \ {o} : half[p].path = g
      BY <1>8, <2>3, <3>2
    <3>5. Without(files, f) = FilesOf(next)
      BY <1>2, <1>4, <1>7, <2>5, <3>2, <3>3, <3>4, FilesWithEntry, SMTT(30)
    <3>6. QED
      BY <3>1, <3>5 DEF Done, next
  <2>6. CASE ~remote.tombstone
    <3>1. applied = WinnerApplied(d, files, local, f, remote)
      BY <1>17, <2>2, <2>6 DEF Applied, EntryApplied, record
    <3>2. CASE remote.path = f
      <4> DEFINE new == [files EXCEPT ![f] = remote.hash]
      <4>1. applied = Done(new)
        BY <3>1, <3>2 DEF WinnerApplied
      <4>2. /\ new \in FileMaps /\ new[f] = remote.hash
            /\ \A g \in Files \ {f} : new[g] = files[g]
        BY <1>8, <1>10, <2>1 DEF FileMaps
      <4> HIDE DEF new
      <4>3. \A p \in ActiveObjects(next) \ {o} : new[half[p].path] = half[p].hash
        BY <1>8, <1>13, <2>4, <4>2
      <4>4. \A g \in Files : new[g] # None =>
              (\E p \in ActiveObjects(half) \ {o} : half[p].path = g) \/ next[o].path = g
        BY <1>7, <1>8, <2>3, <3>2, <4>2
      <4>5. new = FilesOf(next)
        BY <1>2, <1>4, <1>7, <2>6, <3>2, <4>2, <4>3, <4>4, FilesWithEntry, SMTT(30)
      <4>6. QED
        BY <4>1, <4>5 DEF Done, next
    <3>3. CASE remote.path # f
      <4> DEFINE target == remote.path
                 new == [Without(files, f) EXCEPT ![target] = remote.hash]
      <4>1. local[target] = None /\ files[target] = None
        BY <1>14, <1>17, <2>6, <3>3 DEF record
      <4>2. files[f] # None
        BY <2>1, <2>3
      <4>3. applied = Done(new)
        BY <3>1, <3>3, <4>1, <4>2 DEF WinnerApplied
      <4>4. /\ new \in FileMaps /\ new[f] = None /\ new[target] = remote.hash
            /\ \A g \in Files \ {f, target} : new[g] = files[g]
        BY <1>8, <1>10, <2>1, <3>3 DEF Without, FileMaps
      <4> HIDE DEF new
      <4>5. \A p \in ActiveObjects(next) \ {o} : new[half[p].path] = half[p].hash
        BY <1>8, <1>11, <1>13, <2>4, <2>6, <4>4
      <4>6. \A g \in Files : new[g] # None =>
              (\E p \in ActiveObjects(half) \ {o} : half[p].path = g) \/ next[o].path = g
        BY <1>7, <1>8, <2>3, <4>4
      <4>7. new = FilesOf(next)
        BY <1>2, <1>4, <1>7, <2>6, <4>4, <4>5, <4>6, FilesWithEntry, SMTT(30)
      <4>8. QED
        BY <4>3, <4>7 DEF Done, next
    <3>4. QED
      BY <3>2, <3>3
  <2>7. QED
    BY <1>10, <2>5, <2>6
<1>18. QED
  BY <1>16, <1>17

----------------------------------------------------------------------------
\* A single head.

\* The accepted commits are finitely many.
LEMMA CommitsAreFinite ==
  ASSUME GraphOK
  PROVE  IsFiniteSet(DOMAIN commits)
<1>1. PICK n \in Nat : \A id \in DOMAIN commits : id[1] <= n /\ id[2] <= n
  BY DEF GraphOK
<1>2. DOMAIN commits \subseteq (0 .. n) \X (0 .. n)
  BY <1>1, IdFacts
<1>3. IsFiniteSet(0 .. n)
  BY FS_Interval
<1>4. IsFiniteSet((0 .. n) \X (0 .. n))
  BY <1>3, FS_Product
<1>5. QED
  BY <1>2, <1>4, FS_Subset

\* An object that a commit names is named by a head: the latest commit that names it has no
\* child, which would name it as well.
LEMMA HeadsNameEverything ==
  ASSUME SyncInv, HistoryInv, NEW o \in NamedIn(commits)
  PROVE  \E head \in ServerHeads(commits) : o \in DOMAIN commits[head].manifest
<1> DEFINE holders == {id \in DOMAIN commits : o \in DOMAIN commits[id].manifest}
<1>1. holders # {} /\ holders \subseteq DOMAIN commits
  BY DEF NamedIn
<1>2. PICK id \in holders : \A other \in holders \ {id} : Below(other, id)
  BY <1>1, HighestExists, DeviceFacts DEF SyncInv, TypesOK
<1>3. ASSUME NEW child \in DOMAIN commits, id \in commits[child].parents
      PROVE  FALSE
  <2>1. child \in holders /\ commits[id].lamport < commits[child].lamport
    BY <1>3 DEF HistoryInv, NoObjectIsForgotten, TimeFollowsHistory
  <2>2. GraphOK
    BY DEF SyncInv, TypesOK
  <2>3. commits[id].lamport \in Nat /\ commits[child].lamport \in Nat
    BY <2>2, IdFacts
  <2>4. child # id
    BY <2>1, <2>3
  <2>5. Below(child, id)
    BY <1>2, <2>1, <2>4
  <2>6. QED
    BY <2>1, <2>3, <2>5 DEF Below
<1>4. id \in ServerHeads(commits)
  BY <1>3 DEF ServerHeads
<1>5. QED
  BY <1>4

\* A single head names everything.
LEMMA OneHeadNamesEverything ==
  ASSUME SyncInv, HistoryInv, Cardinality(ServerHeads(commits)) = 1
  PROVE  \E head \in DOMAIN commits : /\ ServerHeads(commits) = {head}
                                      /\ NamedIn(commits) \subseteq DOMAIN commits[head].manifest
<1>1. IsFiniteSet(ServerHeads(commits))
  BY HeadsAccepted, CommitsAreFinite, FS_Subset DEF SyncInv, TypesOK
<1>2. PICK head : ServerHeads(commits) = {head}
  BY <1>1, FS_Singleton
<1>3. head \in DOMAIN commits
  BY <1>2, HeadsAccepted
<1>4. NamedIn(commits) \subseteq DOMAIN commits[head].manifest
  BY <1>2, HeadsNameEverything
<1>5. QED
  BY <1>2, <1>3, <1>4

\* A selection names what commits name.
LEMMA SelectionIsNamed ==
  ASSUME SyncInv, NEW heads, heads \subseteq DOMAIN commits
  PROVE  DOMAIN Selected(heads) \subseteq NamedIn(commits)
<1>1. GraphOK
  BY DEF SyncInv, TypesOK
<1>2. DOMAIN BaseOf(heads) \subseteq NamedIn(commits)
  <2>1. CASE BaseOf(heads) = Empty
    BY <2>1, EmptyMap
  <2>2. ASSUME NEW id \in DOMAIN commits, BaseOf(heads) = Snapshot(id)
        PROVE  DOMAIN BaseOf(heads) \subseteq NamedIn(commits)
    BY <1>1, <2>2, SnapshotType DEF NamedIn
  <2>3. QED
    BY <1>1, <2>1, <2>2, BaseType
<1>3. \A head \in heads : DOMAIN commits[head].manifest \subseteq NamedIn(commits)
  BY DEF NamedIn
<1>4. /\ DOMAIN Selected(heads) = DOMAIN SelectEntries(heads)
      /\ DOMAIN SelectEntries(heads) \subseteq
           DOMAIN BaseOf(heads) \cup UNION {DOMAIN commits[head].manifest : head \in heads}
  BY <1>1, SelectionType
<1>5. QED
  BY <1>2, <1>3, <1>4

\* Entries of a single head do not compete.
LEMMA OneHeadHasNoConflicts ==
  ASSUME SyncInv, NEW head \in DOMAIN commits, NEW base, NEW o
  PROVE  Choice({head}, base, o).conflicts = {}
<1> DEFINE heads == {head}
           variants == Variants(heads, o)
           changed == Changed(base, variants, o)
           candidates == IF changed = {} THEN variants ELSE changed
           winner == IF variants = {} THEN base[o] ELSE Winner(heads, o, candidates)
<1>1. Choice(heads, base, o) = [selected |-> winner, conflicts |-> changed \ {winner}]
  BY Zenon DEF Choice
<1>2. changed \subseteq variants
  BY DEF Changed
<1>3. \A entry \in variants : entry = Snapshot(head)[o]
  BY DEF Variants, Bearers
<1> HIDE DEF changed
<1>4. CASE changed = {}
  <2> HIDE DEF winner
  <2>1. QED
    BY <1>1, <1>4
<1>5. CASE changed # {}
  <2>1. candidates = changed /\ variants # {} /\ candidates # {} /\ candidates \subseteq variants
    BY <1>2, <1>5
  <2>2. GraphOK
    BY DEF SyncInv, TypesOK
  <2> HIDE DEF candidates
  <2>3. Winner(heads, o, candidates) \in candidates
    BY <2>1, <2>2, WinnerIsOne
  <2>4. winner \in changed
    BY <2>1, <2>3
  <2> HIDE DEF winner, variants
  <2>5. changed \ {winner} = {}
    BY <1>2, <1>3, <2>4
  <2>6. QED
    BY <1>1, <2>5
<1>6. QED
  BY <1>4, <1>5

----------------------------------------------------------------------------
\* Every step keeps the target.

\* The invariant for one device.
LEMMA TargetFacts ==
  ASSUME TargetInv, NEW d \in Devices
  PROVE  Targeted(state[d], run[d], vault[d], commits)
BY DEF TargetInv

\* The invariant is kept when it holds for the device that goes on.
LEMMA TargetOneDevice ==
  ASSUME SyncInv, TargetInv, NEW d \in Devices, NEW s \in SyncStates, NEW r \in Runs,
         Becomes(d, s, r), \A e \in Devices \ {d} : vault'[e] = vault[e],
         NamedIn(commits) \subseteq NamedIn(commits'),
         Targeted(s, r, vault'[d], commits')
  PROVE  TargetInv'
<1>1. /\ state'[d] = s /\ run'[d] = r
      /\ \A e \in Devices \ {d} : state'[e] = state[e] /\ run'[e] = run[e]
  BY BecomesEffect, DeviceFacts
<1>2. ASSUME NEW e \in Devices
      PROVE  Targeted(state'[e], run'[e], vault'[e], commits')
  <2>1. CASE e = d
    BY <1>1, <2>1
  <2>2. CASE e # d
    <3>1. Targeted(state[e], run[e], vault[e], commits)
      BY TargetFacts
    <3>2. Targeted(state[e], run[e], vault[e], commits')
      BY <3>1 DEF Targeted, Underway
    <3>3. QED
      BY <1>1, <2>2, <3>2
  <2>3. QED
    BY <2>1, <2>2
<1>3. QED
  BY <1>2 DEF TargetInv

\* A device that applies no entries, with its records of before.
LEMMA RestKeepsTarget ==
  ASSUME SyncInv, TargetInv, NEW d \in Devices, NEW s \in SyncStates, NEW r \in Runs,
         Becomes(d, s, r), \A e \in Devices \ {d} : vault'[e] = vault[e],
         NamedIn(commits) \subseteq NamedIn(commits'),
         s.records = state[d].records, r.phase # "applying"
  PROVE  TargetInv'
<1>1. Targeted(s, r, vault'[d], commits')
  BY TargetFacts DEF Targeted
<1>2. QED
  BY <1>1, TargetOneDevice

\* A synchronization ends.
LEMMA EndKeepsTarget ==
  ASSUME SyncInv, TargetInv, NEW d \in Devices, Becomes(d, state[d], Idle), commits' = commits,
         \A e \in Devices \ {d} : vault'[e] = vault[e]
  PROVE  TargetInv'
<1>1. Idle \in Runs /\ Idle.phase = "idle"
  BY IdleRun DEF Phases
<1>2. NamedIn(commits) \subseteq NamedIn(commits')
  OBVIOUS
<1>3. QED
  BY <1>1, <1>2, DeviceFacts, StateFacts, RestKeepsTarget

\* Users edit between two synchronizations; interruptions and failures end one.
LEMMA OthersKeepTarget ==
  ASSUME SyncInv, TargetInv, NEW d \in Devices,
         UserStep(d) \/ Interrupt(d) \/ ApplyInterrupted(d) \/ Throw(d)
  PROVE  TargetInv'
<1>1. CASE UserStep(d)
  <2>1. PICK kind, files : Edit(d, kind, files)
    BY <1>1 DEF UserStep, Create, Modify, Move, Delete
  <2>2. /\ Becomes(d, state[d], run[d]) /\ commits' = commits /\ run[d].phase = "idle"
        /\ vault' = [vault EXCEPT ![d] = files]
    BY <2>1 DEF Edit, Becomes
  <2>3. \A e \in Devices \ {d} : vault'[e] = vault[e]
    BY <2>2, DeviceFacts
  <2>4. NamedIn(commits) \subseteq NamedIn(commits')
    BY <2>2
  <2>5. QED
    BY <2>2, <2>3, <2>4, DeviceFacts, StateFacts, RunFacts, RestKeepsTarget
<1>2. CASE Interrupt(d)
  <2>1. Becomes(d, state[d], Idle) /\ commits' = commits /\ vault' = vault
    BY <1>2 DEF Interrupt, Becomes
  <2>2. QED
    BY <2>1, EndKeepsTarget
<1>3. CASE ApplyInterrupted(d)
  <2>1. /\ Becomes(d, state[d], Idle) /\ commits' = commits
        /\ \E files : vault' = [vault EXCEPT ![d] = files]
    BY <1>3 DEF ApplyInterrupted, Becomes
  <2>2. \A e \in Devices \ {d} : vault'[e] = vault[e]
    BY <2>1, DeviceFacts
  <2>3. QED
    BY <2>1, <2>2, EndKeepsTarget
<1>4. CASE Throw(d)
  <2>1. Becomes(d, state[d], Idle) /\ commits' = commits /\ vault' = vault
    BY <1>4 DEF Throw, Advance, Becomes
  <2>2. QED
    BY <2>1, EndKeepsTarget
<1>5. QED
  BY <1>1, <1>2, <1>3, <1>4

\* The start of a pull: a plain device has the files of its records, and a single head names
\* every object that the device knows.
LEMMA PullStartKeepsTarget ==
  ASSUME SyncInv, HistoryInv, TargetInv, NEW d \in Devices, PullStart(d)
  PROVE  TargetInv'
<1> DEFINE heads == ServerHeads(commits)
           choices == SelectEntries(heads)
           selected == Selected(heads)
           conflicts == [o \in DOMAIN choices |-> choices[o].conflicts]
<1>1. heads \subseteq DOMAIN commits /\ GraphOK
  BY HeadsAccepted, DeviceFacts
<1>2. NamedIn(commits) \subseteq NamedIn(commits') /\ vault' = vault /\ commits' = commits
  BY DEF PullStart
<1>3. CASE heads = {}
  <2> DEFINE s == [state[d] EXCEPT !.initialized = TRUE, !.heads = {}]
             r == [Idle EXCEPT !.phase = "pulled"]
  <2>1. Becomes(d, s, r)
    BY <1>3 DEF PullStart, Becomes, Advance
  <2>2. r \in Runs /\ r.phase = "pulled"
    BY IdleRun DEF Phases
  <2>3. s \in SyncStates /\ s.records = state[d].records
    BY DeviceFacts, StateFacts DEF SyncStates
  <2> HIDE DEF s, r
  <2>4. QED
    BY <1>2, <2>1, <2>2, <2>3, RestKeepsTarget
<1>4. CASE heads # {}
  <2> DEFINE r == [Idle EXCEPT !.phase = "applying", !.local = vault[d],
                               !.selected = selected, !.conflicts = conflicts,
                               !.todo = DOMAIN choices, !.heads = heads]
  <2>1. Becomes(d, state[d], r) /\ PathsUnique(selected)
    BY <1>4 DEF PullStart, Becomes, Advance
  <2>2. /\ selected \in MapsTo(Records) /\ DOMAIN selected = DOMAIN choices
        /\ conflicts \in MapsTo(SUBSET Records)
        /\ DOMAIN choices \subseteq Objects
        /\ \A head \in heads : DOMAIN commits[head].manifest \subseteq DOMAIN selected
    BY <1>1, SelectionType, MapFacts
  <2>3. vault[d] \in FileMaps /\ heads \subseteq CommitIds
    BY <1>1, DeviceFacts DEF GraphOK
  <2>4. DOMAIN selected \subseteq NamedIn(commits)
    BY <1>1, SelectionIsNamed
  <2>5. PathsUnique(state[d].records) /\ DOMAIN state[d].records \subseteq NamedIn(commits)
    BY TargetFacts DEF Targeted
  <2>6. ASSUME Cardinality(heads) = 1
        PROVE  /\ NamedIn(commits) \subseteq DOMAIN selected
               /\ \A o \in DOMAIN choices : choices[o].conflicts = {}
    <3>1. PICK head \in DOMAIN commits :
            heads = {head} /\ NamedIn(commits) \subseteq DOMAIN commits[head].manifest
      BY <2>6, OneHeadNamesEverything
    <3>2. NamedIn(commits) \subseteq DOMAIN selected
      BY <2>2, <3>1
    <3>3. \A o \in DOMAIN choices : choices[o] = Choice({head}, BaseOf(heads), o)
      BY <3>1 DEF SelectEntries
    <3>4. \A o \in DOMAIN choices : choices[o].conflicts = {}
      BY <3>3, OneHeadHasNoConflicts
    <3>5. QED
      BY <3>2, <3>4
  <2>7. \A o \in DOMAIN choices : conflicts[o] = choices[o].conflicts
    OBVIOUS
  <2>8. DOMAIN conflicts = DOMAIN choices
    OBVIOUS
  <2> HIDE DEF heads, choices, selected, conflicts
  <2>9. /\ r \in Runs /\ r.phase = "applying" /\ r.local = vault[d] /\ r.heads = heads
        /\ r.selected = selected /\ r.todo = DOMAIN choices /\ r.conflicts = conflicts
    BY <2>2, <2>3, EmptyMap DEF Idle, Runs, Phases
  <2> HIDE DEF r
  <2>10. Cardinality(r.heads) = 1 =>
           /\ DOMAIN state[d].records \subseteq DOMAIN r.selected
           /\ \A o \in DOMAIN r.conflicts : r.conflicts[o] = {}
    BY <2>5, <2>6, <2>7, <2>8, <2>9
  <2>11. Plain(state[d], r) => vault[d] = FilesOf(Halfway(state[d], r))
    <3>1. SUFFICES ASSUME Plain(state[d], r)
                   PROVE  /\ Halfway(state[d], r) = state[d].records
                          /\ vault[d] = FilesOf(state[d].records)
      OBVIOUS
    <3>2. vault[d] = FilesOf(state[d].records) /\ DOMAIN state[d].records \subseteq r.todo
      BY <2>2, <2>9, <2>10, <3>1 DEF Plain
    <3>3. DOMAIN r.selected \ r.todo = {}
      BY <2>2, <2>9
    <3>4. state[d].records \in [DOMAIN state[d].records -> Records]
      BY DeviceFacts, StateFacts, MapFacts
    <3>5. Halfway(state[d], r) = [o \in DOMAIN state[d].records |-> state[d].records[o]]
      BY <3>2, <3>3 DEF Halfway
    <3>6. QED
      BY <3>2, <3>4, <3>5
  <2>12. Targeted(state[d], r, vault[d], commits)
    BY <2>1, <2>4, <2>5, <2>9, <2>10, <2>11 DEF Targeted, Underway
  <2>13. QED
    BY <1>2, <2>1, <2>9, <2>12, DeviceFacts, StateFacts, TargetOneDevice
<1>5. QED
  BY <1>3, <1>4

\* An entry is applied: a plain device goes on to the files of the next half way, without the
\* copies that competing entries get.
LEMMA ApplyEntryKeepsTarget ==
  ASSUME SyncInv, TargetInv, NEW d \in Devices, ApplyEntry(d)
  PROVE  TargetInv'
<1> DEFINE o == Min(run[d].todo)
           applied == Applied(d, vault[d], run[d].local, o, run[d].selected[o])
           copied == WithCopies(d, applied.files, run[d].conflicts[o])
           r == [run[d] EXCEPT !.todo = @ \ {o}]
<1>1. /\ run[d].phase = "applying" /\ run[d].todo # {}
      /\ IF applied.thrown
         THEN /\ vault' = [vault EXCEPT ![d] = applied.files]
              /\ Advance(d, Idle)
         ELSE /\ vault' = [vault EXCEPT ![d] = copied]
              /\ Advance(d, [run[d] EXCEPT !.todo = @ \ {o}])
      /\ UNCHANGED <<commits, drawn, state>>
  BY Zenon DEF ApplyEntry
<1>2. o \in run[d].todo
  BY <1>1, RunFacts, DeviceFacts, Least, IdentifiersAssumption
<1>3. /\ run[d].local \in FileMaps /\ run[d].todo \subseteq DOMAIN run[d].selected
      /\ DOMAIN run[d].conflicts = DOMAIN run[d].selected
  BY <1>1, DeviceFacts DEF PhaseOK
<1>4. run[d].selected[o] \in Records
  BY <1>2, <1>3, RunFacts, DeviceFacts, MapFacts
<1>5. applied.files \in FileMaps
  BY <1>3, <1>4, DeviceFacts, StateFacts, AppliedType
<1>6. /\ \A e \in Devices \ {d} : vault'[e] = vault[e]
      /\ NamedIn(commits) \subseteq NamedIn(commits')
  BY <1>1, DeviceFacts
<1>7. CASE applied.thrown
  <2>1. Becomes(d, state[d], Idle) /\ commits' = commits
    BY <1>1, <1>7 DEF Becomes, Advance
  <2>2. QED
    BY <1>6, <2>1, EndKeepsTarget
<1>8. CASE ~applied.thrown
  <2>1. Becomes(d, state[d], r) /\ vault'[d] = copied /\ commits' = commits
    BY <1>1, <1>8, DeviceFacts DEF Becomes, Advance
  <2>2. /\ Targeted(state[d], run[d], vault[d], commits)
        /\ Underway(state[d], run[d], vault[d], commits)
    BY <1>1, TargetFacts DEF Targeted
  <2>3. /\ r \in Runs /\ r.phase = "applying" /\ r.local = run[d].local
        /\ r.selected = run[d].selected /\ r.conflicts = run[d].conflicts
        /\ r.todo = run[d].todo \ {o} /\ r.heads = run[d].heads
    BY <1>1, RunFacts, DeviceFacts DEF Runs
  <2> HIDE DEF r
  <2>4. ASSUME Plain(state[d], r)
        PROVE  copied = FilesOf(Halfway(state[d], r))
    <3>1. Plain(state[d], run[d]) /\ Cardinality(run[d].heads) = 1
      BY <2>3, <2>4 DEF Plain
    <3>2. /\ PathsUnique(state[d].records) /\ PathsUnique(run[d].selected)
          /\ DOMAIN state[d].records \subseteq DOMAIN run[d].selected
          /\ run[d].conflicts[o] = {}
          /\ vault[d] = FilesOf(Halfway(state[d], run[d]))
      BY <1>2, <1>3, <2>2, <3>1 DEF Targeted, Underway
    <3>3. applied.files = FilesOf(Halfway(state[d], r))
      BY <1>2, <1>3, <2>3, <3>1, <3>2, PlainEntry
    <3>4. copied = applied.files
      BY <1>5, <3>2, NoCopies
    <3>5. QED
      BY <3>3, <3>4
  <2>5. Targeted(state[d], r, copied, commits)
    BY <2>2, <2>3, <2>4 DEF Targeted, Underway
  <2>6. QED
    BY <1>6, <2>1, <2>3, <2>5, DeviceFacts, StateFacts, TargetOneDevice
<1>9. QED
  BY <1>7, <1>8

\* The end of a pull: what was selected becomes the records.
LEMMA PullSaveKeepsTarget ==
  ASSUME SyncInv, TargetInv, NEW d \in Devices, PullSave(d)
  PROVE  TargetInv'
<1> DEFINE known == UNION {commits[id].past : id \in run[d].heads}
           lamport == Max({state[d].lamport} \cup {commits[id].lamport : id \in known})
           s == [state[d] EXCEPT !.initialized = TRUE, !.known = known,
                                 !.heads = run[d].heads, !.lamport = lamport,
                                 !.records = run[d].selected]
           r == [Idle EXCEPT !.phase = "pulled"]
<1>1. /\ Becomes(d, s, r) /\ UNCHANGED <<commits, drawn, vault>>
      /\ run[d].phase = "applying"
  BY Zenon DEF PullSave, Becomes, Advance
<1>2. run[d].heads \subseteq DOMAIN commits /\ known \subseteq DOMAIN commits
  BY DeviceFacts DEF RefersTo, GraphOK
<1>3. lamport \in Nat
  BY <1>2, TimeOfKnown
<1>4. known \subseteq CommitIds /\ run[d].heads \subseteq CommitIds
  BY <1>2, DeviceFacts DEF GraphOK
<1>5. r \in Runs /\ r.phase = "pulled"
  BY IdleRun DEF Phases
<1> HIDE DEF known, lamport
<1>6. s \in SyncStates /\ s.records = run[d].selected
  BY <1>3, <1>4, DeviceFacts, StateFacts, RunFacts DEF SyncStates
<1> HIDE DEF s, r
<1>7. PathsUnique(run[d].selected) /\ DOMAIN run[d].selected \subseteq NamedIn(commits)
  BY <1>1, TargetFacts DEF Targeted, Underway
<1>8. Targeted(s, r, vault[d], commits)
  BY <1>5, <1>6, <1>7 DEF Targeted
<1>9. QED
  BY <1>1, <1>5, <1>6, <1>8, TargetOneDevice

\* The scan of the vault keeps the records.
LEMMA ReconcileKeepsTarget ==
  ASSUME SyncInv, TargetInv, NEW d \in Devices, Reconcile(d)
  PROVE  TargetInv'
<1>1. PICK pending \in MapsTo(PendingOperations), prepared \in PreparedCommits \cup {None} :
        LET s == [state[d] EXCEPT !.pending = pending, !.prepared = prepared]
            r == NextOfPush(d, pending)
        IN
        /\ Becomes(d, s, r)
        /\ UNCHANGED <<commits, vault>>
  BY ReconcileForm
<1> DEFINE s == [state[d] EXCEPT !.pending = pending, !.prepared = prepared]
           r == NextOfPush(d, pending)
<1>2. r \in Runs /\ r.phase # "applying"
  <2>1. r \in Runs /\ r.phase \in {"idle", "preparing", "publishing"}
    BY NextOfPushType
  <2> HIDE DEF r
  <2>2. QED
    BY <2>1
<1>3. s \in SyncStates /\ s.records = state[d].records
  BY DeviceFacts, StateFacts DEF SyncStates
<1>4. Becomes(d, s, r)
  BY <1>1
<1> HIDE DEF s, r
<1>5. QED
  BY <1>1, <1>2, <1>3, <1>4, RestKeepsTarget

\* One more record of a push: those of the device stay.
LEMMA PrepareKeepsTarget ==
  ASSUME SyncInv, TargetInv, NEW d \in Devices, Prepare(d)
  PROVE  TargetInv'
<1>1. CASE Throw(d)
  BY <1>1, OthersKeepTarget
<1>2. ASSUME NEW o \in run[d].todo, NEW record \in Records,
             Becomes(d, state[d], [run[d] EXCEPT !.todo = @ \ {o}, !.records = Put(@, o, record)]),
             run[d].phase = "preparing",
             UNCHANGED <<commits, drawn, vault>>
      PROVE  TargetInv'
  <2> DEFINE m == run[d].records
  <2>1. m \in MapsTo(Records) /\ o \in Objects /\ record \in Records
    BY RunFacts, DeviceFacts
  <2> HIDE DEF m
  <2>2. Put(m, o, record) \in MapsTo(Records)
    BY <2>1, PutMap
  <2> DEFINE r == [run[d] EXCEPT !.todo = @ \ {o}, !.records = Put(m, o, record)]
  <2>3. Becomes(d, state[d], r)
    BY <1>2 DEF m
  <2>4. r \in Runs /\ r.phase = "preparing"
    BY <1>2, <2>2, RunFacts, DeviceFacts DEF Runs
  <2> HIDE DEF r
  <2>5. QED
    BY <1>2, <2>3, <2>4, DeviceFacts, StateFacts, RestKeepsTarget
<1>3. QED
  BY <1>1, <1>2, PrepareForm

\* The signature keeps the records.
LEMMA SignKeepsTarget ==
  ASSUME SyncInv, TargetInv, NEW d \in Devices, Sign(d)
  PROVE  TargetInv'
<1> DEFINE prepared == [id |-> NextId(d), commit |-> SignedCommit(d),
                        completes |-> DOMAIN state[d].pending]
           s == [state[d] EXCEPT !.prepared = prepared]
           r == [Idle EXCEPT !.phase = "publishing"]
<1>1. Becomes(d, s, r) /\ prepared \in PreparedCommits /\ UNCHANGED <<commits, drawn, vault>>
  BY SignForm
<1>2. r \in Runs /\ r.phase = "publishing"
  BY IdleRun DEF Phases
<1> HIDE DEF prepared
<1>3. s \in SyncStates /\ s.records = state[d].records
  BY <1>1, DeviceFacts, StateFacts DEF SyncStates
<1> HIDE DEF s, r
<1>4. QED
  BY <1>1, <1>2, <1>3, RestKeepsTarget

\* The commit reaches the server, where it names what it names.
LEMMA PutCommitKeepsTarget ==
  ASSUME SyncInv, TargetInv, NEW d \in Devices, PutCommit(d)
  PROVE  TargetInv'
<1>1. CASE Throw(d)
  BY <1>1, OthersKeepTarget
<1>2. ASSUME NEW heads,
             state[d].prepared # None,
             Acceptable(state[d].prepared.id, state[d].prepared.commit),
             commits' = Put(commits, state[d].prepared.id, state[d].prepared.commit),
             heads \subseteq DOMAIN commits',
             Becomes(d, state[d], [Idle EXCEPT !.phase = "accepted", !.heads = heads]),
             UNCHANGED <<drawn, vault>>
      PROVE  TargetInv'
  <2> DEFINE id == state[d].prepared.id
             r == [Idle EXCEPT !.phase = "accepted", !.heads = heads]
  <2>1. /\ GraphOK'
        /\ DOMAIN commits' = DOMAIN commits \cup {id}
        /\ commits'[id] = state[d].prepared.commit
        /\ \A other \in DOMAIN commits \ {id} : commits'[other] = commits[other]
    BY <1>2, GraphGrows
  <2>2. id \in DOMAIN commits => commits[id] = state[d].prepared.commit
    BY <1>2 DEF Acceptable
  <2>3. NamedIn(commits) \subseteq NamedIn(commits')
    BY <2>1, <2>2 DEF NamedIn
  <2>4. heads \subseteq CommitIds
    BY <1>2, <2>1 DEF GraphOK
  <2>5. r \in Runs /\ r.phase = "accepted"
    BY <2>4, EmptyMap DEF Idle, Runs, Phases
  <2> HIDE DEF r
  <2>6. QED
    BY <1>2, <2>3, <2>5, DeviceFacts, StateFacts, RestKeepsTarget DEF r
<1>3. QED
  BY <1>1, <1>2, PutCommitForm

\* The end of a push: the records become those of an accepted commit, one at each path.
LEMMA PublishPreparedKeepsTarget ==
  ASSUME SyncInv, HistoryInv, TargetInv, NEW d \in Devices, PublishPrepared(d)
  PROVE  TargetInv'
<1> DEFINE prepared == state[d].prepared
           left == DOMAIN state[d].pending \ prepared.completes
           pending == Restrict(state[d].pending, left)
           s == [state[d] EXCEPT
                   !.initialized = TRUE,
                   !.sequence = prepared.id[2],
                   !.lamport = prepared.commit.lamport,
                   !.known = state[d].known \cup {prepared.id},
                   !.heads = run[d].heads,
                   !.records = prepared.commit.manifest,
                   !.pending = pending,
                   !.prepared = None]
<1>1. CASE Throw(d)
  BY <1>1, OthersKeepTarget
<1>2. ASSUME ~Throw(d)
      PROVE  TargetInv'
  <2>1. /\ run[d].phase = "accepted" /\ prepared # None
        /\ Becomes(d, s, Idle) /\ UNCHANGED <<commits, drawn, vault>>
    BY <1>2, PublishPreparedForm
  <2>2. PathsUnique(prepared.commit.manifest)
    BY <1>2 DEF PublishPrepared
  <2>3. /\ prepared.id \in CommitIds /\ prepared.commit.manifest \in MapsTo(Records)
        /\ prepared.commit.lamport \in Nat /\ prepared.id \in DOMAIN commits
    BY <2>1, PreparedFacts, DeviceFacts DEF PhaseOK
  <2>4. commits[prepared.id] = prepared.commit
    BY <2>1, <2>3, NumbersUsed DEF NumbersAreUsedOnce
  <2>5. DOMAIN prepared.commit.manifest \subseteq NamedIn(commits)
    BY <2>3, <2>4 DEF NamedIn
  <2>6. prepared.id[2] \in Nat
    BY <2>3 DEF CommitIds
  <2>7. pending \in MapsTo(PendingOperations)
    BY DeviceFacts, StateFacts, RestrictMap
  <2> HIDE DEF prepared, left, pending
  <2>8. s \in SyncStates /\ s.records = prepared.commit.manifest
    <3>1. /\ state[d] \in SyncStates /\ state[d].known \cup {prepared.id} \in SUBSET CommitIds
          /\ run[d].heads \in SUBSET CommitIds
      BY <2>3, DeviceFacts, StateFacts, RunFacts
    <3>2. QED
      BY <2>3, <2>6, <2>7, <3>1 DEF SyncStates
  <2> HIDE DEF s
  <2>9. Idle \in Runs /\ Idle.phase = "idle"
    BY IdleRun DEF Phases
  <2>10. Targeted(s, Idle, vault[d], commits)
    BY <2>2, <2>5, <2>8, <2>9 DEF Targeted
  <2>11. QED
    BY <2>1, <2>8, <2>9, <2>10, TargetOneDevice
<1>3. QED
  BY <1>1, <1>2

\* Every step.
LEMMA NextKeepsTarget ==
  ASSUME SyncInv, HistoryInv, TargetInv, [Next]_syncVars
  PROVE  TargetInv'
<1>1. CASE UNCHANGED syncVars
  BY <1>1 DEF syncVars, vars, TargetInv
<1>2. ASSUME NEW d \in Devices,
             UserStep(d) \/ Interrupt(d) \/ ApplyInterrupted(d) \/ SyncStep(d)
      PROVE  TargetInv'
  <2>1. CASE UserStep(d) \/ Interrupt(d) \/ ApplyInterrupted(d)
    BY <2>1, OthersKeepTarget
  <2>2. CASE SyncStep(d)
    <3>1. CASE PullStep(d)
      BY <3>1, PullStartKeepsTarget, ApplyEntryKeepsTarget, PullSaveKeepsTarget DEF PullStep
    <3>2. CASE PushStep(d)
      BY <3>2, ReconcileKeepsTarget, PrepareKeepsTarget, SignKeepsTarget,
         PutCommitKeepsTarget, PublishPreparedKeepsTarget DEF PushStep
    <3>3. QED
      BY <2>2, <3>1, <3>2 DEF SyncStep
  <2>3. QED
    BY <1>2, <2>1, <2>2
<1>3. QED
  BY <1>1, <1>2 DEF Next

\* The notes that devices share at the beginning have paths of their own.
LEMMA InitTarget == Init => TargetInv
<1> SUFFICES ASSUME Init PROVE TargetInv
  OBVIOUS
<1>1. PICK notes \in Beginnings :
        /\ run = [d \in Devices |-> Idle]
        /\ IF notes = Empty
           THEN /\ commits = [id \in {} |-> None]
                /\ state = [d \in Devices |-> EmptyState]
           ELSE /\ commits = [id \in {Root} |->
                     [parents |-> {}, past |-> {Root}, lamport |-> 1,
                      manifest |-> Shared(notes)]]
                /\ state = [d \in Devices |-> SharedState(d, notes)]
  BY Zenon DEF Init
<1>2. Idle.phase # "applying"
  BY IdleRun DEF Phases
<1>3. CASE notes = Empty
  <2>1. \A d \in Devices : state[d] = EmptyState /\ run[d] = Idle
    BY <1>1, <1>3
  <2>2. DOMAIN EmptyState.records = {}
    BY EmptyMap DEF EmptyState
  <2>3. QED
    BY <1>2, <2>1, <2>2 DEF TargetInv, Targeted, PathsUnique, ActiveObjects
<1>4. CASE notes # Empty
  <2>1. /\ DOMAIN commits = {Root} /\ commits[Root].manifest = Shared(notes)
        /\ \A d \in Devices : state[d] = SharedState(d, notes) /\ run[d] = Idle
    BY <1>1, <1>4
  <2>2. \A d \in Devices : SharedState(d, notes).records = Shared(notes)
    BY DEF SharedState, EmptyState
  <2>3. PathsUnique(Shared(notes))
    <3>1. /\ DOMAIN Shared(notes) = DOMAIN notes
          /\ \A o \in DOMAIN notes : Shared(notes)[o].path = notes[o].path
      BY DEF Shared
    <3>2. QED
      BY <3>1, BeginningsAssumption DEF PathsUnique, ActiveObjects
  <2>4. DOMAIN Shared(notes) \subseteq NamedIn(commits)
    BY <2>1 DEF NamedIn
  <2>5. QED
    BY <1>2, <2>1, <2>2, <2>3, <2>4 DEF TargetInv, Targeted
<1>5. QED
  BY <1>3, <1>4

\* When no entry is left, half way is the end.
LEMMA TargetAtTheEnd ==
  ASSUME SyncInv, TargetInv
  PROVE  TargetIsReached
<1>1. ASSUME NEW d \in Devices, EndsUnedited(d),
             ActiveObjects(state[d].records) = DOMAIN state[d].records, ~HandsOver(d)
      PROVE  vault[d] = FilesOf(run[d].selected)
  <2>1. Plain(state[d], run[d]) /\ run[d].phase = "applying" /\ run[d].todo = {}
    BY <1>1 DEF Plain, EndsUnedited, HandsOver
  <2>2. /\ vault[d] = FilesOf(Halfway(state[d], run[d]))
        /\ DOMAIN state[d].records \subseteq DOMAIN run[d].selected
    BY <2>1, TargetFacts DEF Targeted, Underway, Plain
  <2>3. run[d].selected \in [DOMAIN run[d].selected -> Records]
    BY DeviceFacts, RunFacts, MapFacts
  <2>4. (DOMAIN run[d].selected \ {}) \cup DOMAIN state[d].records = DOMAIN run[d].selected
    BY <2>2
  <2>5. Halfway(state[d], run[d]) = [o \in DOMAIN run[d].selected |-> run[d].selected[o]]
    BY <2>1, <2>4 DEF Halfway
  <2>6. Halfway(state[d], run[d]) = run[d].selected
    BY <2>3, <2>5
  <2>7. QED
    BY <2>2, <2>6
<1>2. QED
  BY <1>1 DEF TargetIsReached

----------------------------------------------------------------------------
\* A device never signs two different commits with one number, whatever answers were lost and
\* wherever the application ended (engine.ts: push, publishPrepared).
THEOREM OneCommitPerNumber == Spec => []NumbersAreUsedOnce
<1>1. SyncInv /\ HistoryInv => NumbersAreUsedOnce
  BY NumbersUsed
<1>2. QED
  BY <1>1, HistoryAlways, PTL

\* The Lamport time of a commit exceeds those of its parents (pull.ts: pullVerified, which takes
\* the greatest time of what it knows; engine.ts: push).
THEOREM TimeGrowsAlongHistory == Spec => []TimeFollowsHistory
<1>1. SyncInv /\ HistoryInv => TimeFollowsHistory
  BY DEF HistoryInv
<1>2. QED
  BY <1>1, HistoryAlways, PTL

\* A commit names every object that one of its parents names: no note vanishes from the history
\* without a tombstone (pull.ts: selectEntries; engine.ts: prepareOperation).
THEOREM HistoryForgetsNothing == Spec => []NoObjectIsForgotten
<1>1. SyncInv /\ HistoryInv => NoObjectIsForgotten
  BY DEF HistoryInv
<1>2. QED
  BY <1>1, HistoryAlways, PTL

\* "For one head, the signed manifest is the target snapshot" (docs/synchronization.md): a
\* device without edits ends the pull of a single head with the files of that snapshot, if it
\* remembers no deleted note and no path passes from one note to another (pull.ts: selectEntries,
\* applyEntry, applyRemoteWinner).
THEOREM PullReachesTarget == Spec => []TargetIsReached
<1>1. Init => SyncInv /\ HistoryInv /\ TargetInv
  BY InitInv, InitHistory, InitTarget
<1>2. SyncInv /\ HistoryInv /\ TargetInv /\ [Next]_syncVars =>
        (SyncInv /\ HistoryInv /\ TargetInv)'
  BY NextKeepsInv, NextKeepsHistory, NextKeepsTarget
<1>3. SyncInv /\ TargetInv => TargetIsReached
  BY TargetAtTheEnd
<1>4. QED
  BY <1>1, <1>2, <1>3, PTL DEF Spec
=============================================================================
