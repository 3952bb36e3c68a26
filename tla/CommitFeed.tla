----------------------------- MODULE CommitFeed -----------------------------
(***************************************************************************)
(* How a device learns the commit graph (plugin/src/sync/pull.ts, first    *)
(* half of pullVerified) while the server of CommitStore goes on accepting *)
(* commits and revocations: a snapshot of the trusted keys, pages of       *)
(* Storage::changes until has_more is false, then a separate GetHeads.     *)
(***************************************************************************)
EXTENDS CommitStore

CONSTANTS
  Pullers,    \* the devices that pull
  PageSize,   \* MAX_CHANGES_PER_RESPONSE, which the client asks for
  MaxKnown    \* MAX_KNOWN_COMMITS

ASSUME FeedAssumption ==
  /\ Pullers \subseteq Devices
  /\ PageSize \in Nat \ {0}
  /\ MaxKnown \in Nat

VARIABLES
  known,    \* knownCommitIds in the persistent state of each device
  fetched,  \* the known set of the running pull, in memory
  trusted,  \* the <<device, key>> pairs listed when the pull began
  phase,    \* where each pull stands
  failure   \* why the last pull threw

feedVars == <<known, fetched, trusted, phase, failure>>
allVars == <<vars, feedVars>>

Phases == {"idle", "paging", "heads", "merging"}
Failures == {"none", "limit", "denied", "empty", "signature", "parent",
             "head", "interrupted"}

----------------------------------------------------------------------------
\* Storage::changes: the first PageSize rows of (generation, commit_id) order
\* whose identifiers the client does not know.

Missing(k) == {row \in commits : row.record.id \notin k}

\* Mutant of Precedes: pages are ordered by identifier alone.
PrecedesById(row, other) == row.record.id < other.record.id

Precedes(row, other) ==
  \/ row.generation < other.generation
  \/ row.generation = other.generation /\ row.record.id < other.record.id

IsPage(page, missing) ==
  /\ page \subseteq missing
  /\ Cardinality(page) <= PageSize
  /\ Cardinality(page) < PageSize => page = missing
  /\ \A row \in page, other \in missing \ page : Precedes(row, other)

Pages(missing) == {page \in SUBSET missing : IsPage(page, missing)}

\* Mutant of Trusts: the result of the verification is ignored.
TrustsAll(p, page) == TRUE

\* What the client checks while it walks a page in order.
Trusts(p, page) ==
  \A row \in page : <<row.record.device, row.record.key>> \in trusted[p]

ParentsFirst(k, page) ==
  \A row \in page : \A parent \in row.record.parents :
    \/ parent \in k
    \/ \E other \in page : other.record.id = parent /\ Precedes(other, row)

----------------------------------------------------------------------------
TrustedNow == {<<d, publicKey[d]>> : d \in {e \in Devices : Active(e)}}

\* A throw leaves the persistent state as it was.
Fail(p, why) ==
  /\ phase' = [phase EXCEPT ![p] = "idle"]
  /\ failure' = [failure EXCEPT ![p] = why]
  /\ UNCHANGED <<known, fetched, trusted>>

\* Every request of a pull passes require_device.
Denied(p) ==
  /\ up
  /\ phase[p] \in {"paging", "heads"}
  /\ ~Active(p)
  /\ Fail(p, "denied")

\* The pull reads its state and lists the active devices.
PullBegin(p) ==
  /\ up
  /\ Active(p)
  /\ phase[p] = "idle"
  /\ phase' = [phase EXCEPT ![p] = "paging"]
  /\ fetched' = [fetched EXCEPT ![p] = known[p]]
  /\ trusted' = [trusted EXCEPT ![p] = TrustedNow]
  /\ UNCHANGED <<known, failure>>

\* More known identifiers than a request may carry.
PageLimit(p) ==
  /\ up
  /\ Active(p)
  /\ phase[p] = "paging"
  /\ Cardinality(fetched[p]) > MaxKnown
  /\ Fail(p, "limit")

\* Why a page is not accepted, if so.
Verdict(p, page) ==
  CASE page = {} /\ Missing(fetched[p]) # {} -> "empty"
    [] ~Trusts(p, page) -> "signature"
    [] ~ParentsFirst(fetched[p], page) -> "parent"
    [] OTHER -> "none"

\* Mutant of AfterPage: has_more is ignored.
AfterOnePage(p, page) == "heads"

\* The loop goes on while the response says has_more.
AfterPage(p, page) == IF page = Missing(fetched[p]) THEN "heads" ELSE "paging"

\* One page, verified row by row.
PullPage(p) ==
  /\ up
  /\ Active(p)
  /\ phase[p] = "paging"
  /\ Cardinality(fetched[p]) <= MaxKnown
  /\ \E page \in Pages(Missing(fetched[p])) :
       IF Verdict(p, page) = "none"
       THEN /\ fetched' = [fetched EXCEPT ![p] =
                             @ \cup {row.record.id : row \in page}]
            /\ phase' = [phase EXCEPT ![p] = AfterPage(p, page)]
            /\ UNCHANGED <<known, trusted, failure>>
       ELSE Fail(p, Verdict(p, page))

\* Mutant of PullHeads: the heads are accepted without a look at the commits.
PullHeadsUnchecked(p) ==
  /\ up
  /\ Active(p)
  /\ phase[p] = "heads"
  /\ phase' = [phase EXCEPT ![p] = "merging"]
  /\ UNCHANGED <<known, fetched, trusted, failure>>

\* GetHeads: every head must be a commit the pull has verified.
PullHeads(p) ==
  /\ up
  /\ Active(p)
  /\ phase[p] = "heads"
  /\ IF heads \subseteq fetched[p]
     THEN /\ phase' = [phase EXCEPT ![p] = "merging"]
          /\ UNCHANGED <<known, fetched, trusted, failure>>
     ELSE Fail(p, "head")

\* Mutant of PullEnd: only the heads are remembered.
PullEndHeads(p) ==
  /\ phase[p] = "merging"
  /\ phase' = [phase EXCEPT ![p] = "idle"]
  /\ known' = [known EXCEPT ![p] = @ \cup heads]
  /\ failure' = [failure EXCEPT ![p] = "none"]
  /\ UNCHANGED <<fetched, trusted>>

\* The merge of the snapshots is applied and the state is saved.
PullEnd(p) ==
  /\ phase[p] = "merging"
  /\ phase' = [phase EXCEPT ![p] = "idle"]
  /\ known' = [known EXCEPT ![p] = fetched[p]]
  /\ failure' = [failure EXCEPT ![p] = "none"]
  /\ UNCHANGED <<fetched, trusted>>

\* The application is closed, the merge throws or a response is lost.
Interrupt(p) ==
  /\ phase[p] # "idle"
  /\ Fail(p, "interrupted")

\* publishPrepared, which never overlaps a pull of its device, records the
\* device's own accepted commit.  Its parents were the heads of the last pull.
Publish(p) ==
  /\ phase[p] = "idle"
  /\ \E row \in commits :
       /\ row.record.device = p
       /\ row.record.parents \subseteq known[p]
       /\ known' = [known EXCEPT ![p] = @ \cup {row.record.id}]
  /\ UNCHANGED <<fetched, trusted, phase, failure>>

----------------------------------------------------------------------------
FeedInit ==
  /\ Init
  /\ known = [p \in Pullers |-> {}]
  /\ fetched = [p \in Pullers |-> {}]
  /\ trusted = [p \in Pullers |-> {}]
  /\ phase = [p \in Pullers |-> "idle"]
  /\ failure = [p \in Pullers |-> "none"]

PullStep(p) ==
  \/ Denied(p)
  \/ PullBegin(p)
  \/ PageLimit(p)
  \/ PullPage(p)
  \/ PullHeads(p)
  \/ PullEnd(p)

FeedNext ==
  \/ Next /\ UNCHANGED feedVars
  \/ \E p \in Pullers :
       /\ PullStep(p) \/ Interrupt(p) \/ Publish(p)
       /\ UNCHANGED vars

FeedSpec == FeedInit /\ [][FeedNext]_allVars

\* A periodic scan starts a pull every five minutes and each awaited response
\* or timeout moves it on, so a pull that can take a step takes one.
FairFeedSpec ==
  FeedSpec /\ \A p \in Pullers : WF_allVars(PullStep(p) /\ UNCHANGED vars)

----------------------------------------------------------------------------
(***************************************************************************)
(* Properties.                                                             *)
(***************************************************************************)

\* The variables of the pulls keep their types.
FeedTypeOK ==
  /\ known \in [Pullers -> SUBSET Nat]
  /\ fetched \in [Pullers -> SUBSET Nat]
  /\ trusted \in [Pullers -> SUBSET Identities]
  /\ phase \in [Pullers -> Phases]
  /\ failure \in [Pullers -> Failures]

Closed(k) ==
  /\ k \subseteq StoredIds
  /\ \A row \in commits : row.record.id \in k => row.record.parents \subseteq k

\* What a device knows is always a closed part of the server's graph, whatever
\* was accepted between the pages of its pulls.
KnownIsClosed ==
  \A p \in Pullers : Closed(known[p]) /\ (phase[p] # "idle" => Closed(fetched[p]))

\* No pull ever meets a commit before one of its parents, although pages are
\* cut from a graph that grows at every generation.
ParentsBeforeChildren == \A p \in Pullers : failure[p] # "parent"

\* A pull that accepts the heads has, at that moment, every stored commit: the
\* race between the last page and GetHeads is always noticed.
AcceptedHeadsMeanComplete ==
  [][\A p \in Pullers :
       phase[p] = "heads" /\ phase'[p] = "merging" => fetched[p] = StoredIds]_allVars

\* A device verified every commit it learned from a page with a key that was
\* active when its pull began.
OnlyTrustedCommits ==
  \A p \in Pullers : phase[p] # "idle" =>
    \A row \in commits : row.record.id \in fetched[p] \ known[p] =>
      <<row.record.device, row.record.key>> \in trusted[p]

SignersActive ==
  \A row \in commits : <<row.record.device, row.record.key>> \in TrustedNow

\* From some moment on p can reach the server, and is left alone.
Undisturbed(p) == <>[](up /\ Active(p) /\ failure[p] # "interrupted")

\* An undisturbed device learns the whole graph, if no signer of a stored
\* commit stays revoked and the graph has at most one commit more than a
\* request may carry: the last commit never has to be carried.
EventuallyKnowsAll ==
  \A p \in Pullers :
    Undisturbed(p) /\ <>[](SignersActive /\ Cardinality(commits) <= MaxKnown + 1)
      => <>[](known[p] = StoredIds)

=============================================================================
