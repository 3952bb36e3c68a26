---------------------------- MODULE VaultHistory ----------------------------
(***************************************************************************)
(* What the server promises its devices: one history of immutable commits, *)
(* extended atomically by devices authorized at that moment, with a        *)
(* frontier that is always the set of its maximal commits.  There are no   *)
(* requests, transactions, tables or crashes here.                         *)
(***************************************************************************)
EXTENDS Naturals, FiniteSets

CONSTANTS Devices, Records, MaxCommits, MaxHeads

VARIABLES
  authorized,  \* the devices that may commit
  history,     \* the accepted commit records
  frontier     \* the identifiers clients merge next

vars == <<authorized, history, frontier>>

IdsOf(H) == {c.id : c \in H}
Maximal(H) == {i \in IdsOf(H) : \A c \in H : i \notin c.parents}
NumbersOf(d, H) == {c.sequence : c \in {h \in H : h.device = d}}

Init ==
  /\ authorized = {}
  /\ history = {}
  /\ frontier = {}

Authorize(d) ==
  /\ authorized' = authorized \cup {d}
  /\ UNCHANGED <<history, frontier>>

Revoke(d) ==
  /\ authorized' = authorized \ {d}
  /\ UNCHANGED <<history, frontier>>

\* A fresh commit on stored parents, the first one a root, numbered next after
\* everything its device committed.
Append(c) ==
  /\ c.device \in authorized
  /\ c.id \notin IdsOf(history)
  /\ c.parents \subseteq IdsOf(history)
  /\ history = {} <=> c.parents = {}
  /\ NumbersOf(c.device, history) = 1 .. (c.sequence - 1)
  /\ Cardinality(history) < MaxCommits
  /\ history' = history \cup {c}
  /\ frontier' = Maximal(history')
  /\ Cardinality(frontier') <= MaxHeads
  /\ UNCHANGED authorized

Next ==
  \/ \E d \in Devices : Authorize(d) \/ Revoke(d)
  \/ \E c \in Records : Append(c)

Spec == Init /\ [][Next]_vars
=============================================================================
