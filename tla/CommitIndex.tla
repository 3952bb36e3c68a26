----------------------------- MODULE CommitIndex -----------------------------
(***************************************************************************)
(* The commits of the server (CommitStore) in the commit graph of the      *)
(* library ll-versioning (VersionGraph): what the library computes from    *)
(* records alone is what the server keeps in its tables.                   *)
(***************************************************************************)
EXTENDS CommitStore, Sequences

Graph == INSTANCE VersionGraph

\* What the tables say, as a graph.
Tables ==
  [nodes |-> [i \in StoredIds |->
                [parents |-> {arc[2] : arc \in {e \in edges : e[1] = i}},
                 generation |-> CHOOSE n \in Generations({i}) : TRUE]],
   heads |-> heads]

\* The commits of the tables are inserted into a graph in the order of a list.
Indexed(graph, tables, ids) ==
  LET after[n \in 0 .. Len(ids)] ==
        IF n = 0
        THEN graph
        ELSE Graph!Insert(after[n - 1], ids[n], Graph!ParentsOf(tables, ids[n]))
  IN after[Len(ids)]

\* The part of a graph that some of its commits are, its heads those that nobody's parent
\* among them is.
Part(tables, ids) ==
  [nodes |-> [i \in ids |-> tables.nodes[i]],
   heads |-> ids \ UNION {Graph!ParentsOf(tables, i) : i \in ids}]

\* Commits that have all their parents among them.
ClosedSets(tables) ==
  {ids \in SUBSET StoredIds : \A i \in ids : Graph!ParentsOf(tables, i) \subseteq ids}

----------------------------------------------------------------------------
\* The graph keeps to the tables one insertion at a time, from any part of them: a commit
\* whose parents are there, new or repeated, is taken and gives the next larger part, with
\* the generation of the tables and the heads that the parents alone imply, and any other
\* is refused.  Nothing is the first part and the tables are the last, so this says it of
\* every order in which records can be inserted (graph.rs:27, 63, 85).
InsertionsGiveParts(tables) ==
  /\ Part(tables, {}) = Graph!NoGraph
  /\ Part(tables, StoredIds) = tables
  /\ \A held \in ClosedSets(tables), id \in StoredIds :
       LET parents == Graph!ParentsOf(tables, id)
           graph == Graph!Insert(Part(tables, held), id, parents)
       IN graph = Part(tables, IF parents \subseteq held THEN held \cup {id} ELSE held)

\* From any part, what is missing can be inserted in the order of missing_from, nothing of
\* it is refused, and the end is the graph of the tables (graph.rs:126).
MissingCompletes(tables) ==
  \A held \in ClosedSets(tables) :
    Indexed(Part(tables, held), tables, Graph!MissingFrom(tables, held)) = tables

\* What the library computes from records agrees with what the server keeps in its tables,
\* whatever the order of the records.
IndexAgrees ==
  LET tables == Tables
  IN InsertionsGiveParts(tables) /\ MissingCompletes(tables)

\* What common_ancestor finds of two stored commits is behind no other that they share
\* (graph.rs:103).  The merges of the clients do not call it: see PullMerge.
AncestorIsLatest ==
  LET tables == Tables
      below == [i \in StoredIds |-> Graph!Ancestors(tables, i)]
  IN \A i, j \in StoredIds :
       i < j =>
         LET base == Graph!CommonAncestor(tables, i, j)
         IN \A other \in (below[i] \cap below[j]) \ {base} : base \notin below[other]
=============================================================================
