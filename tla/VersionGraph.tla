---------------------------- MODULE VersionGraph ----------------------------
(***************************************************************************)
(* The commit graph of the library ll-versioning (graph.rs CommitGraph):   *)
(* commits are inserted after their parents, with the heads maintained on  *)
(* the way.  Nothing in the repository but the library's own tests builds  *)
(* one: the server keeps its tables and the plugin its own merge base.     *)
(* Identifiers are numbers, in the order of their bytes.                   *)
(***************************************************************************)
EXTENDS Integers, FiniteSets, FiniteSetsExt

NoGraph == [nodes |-> <<>>, heads |-> {}]

Ids(graph) == DOMAIN graph.nodes
ParentsOf(graph, id) == graph.nodes[id].parents
GenerationOf(graph, id) == graph.nodes[id].generation

\* Why an insertion is refused, in the order of the checks; a duplicate is no error.
Refusal(graph, id, parents) ==
  CASE id \in Ids(graph) ->
         IF ParentsOf(graph, id) = parents THEN "duplicate" ELSE "CommitCollision"
    [] id \notin Ids(graph) /\ parents = {} /\ Ids(graph) # {} -> "InvalidRoot"
    [] id \notin Ids(graph) /\ ~(parents \subseteq Ids(graph)) -> "MissingParent"
    [] OTHER -> "none"

NewGeneration(graph, parents) ==
  IF parents = {} THEN 0 ELSE 1 + Max({GenerationOf(graph, p) : p \in parents})

\* Mutant of NewHeads: only the first parent stops being a head.
NewHeadsOfMainline(graph, id, parents) ==
  (graph.heads \ (IF parents = {} THEN {} ELSE {Min(parents)})) \cup {id}

NewHeads(graph, id, parents) == (graph.heads \ parents) \cup {id}

\* CommitGraph::insert, for parents that are sorted and distinct: a set.
Insert(graph, id, parents) ==
  IF Refusal(graph, id, parents) # "none"
  THEN graph
  ELSE [nodes |-> [i \in Ids(graph) \cup {id} |->
                     IF i = id
                     THEN [parents |-> parents, generation |-> NewGeneration(graph, parents)]
                     ELSE graph.nodes[i]],
        heads |-> NewHeads(graph, id, parents)]

\* recovered_heads: the commits that are nobody's parent.
RecoveredHeads(graph) == Ids(graph) \ UNION {ParentsOf(graph, i) : i \in Ids(graph)}

\* ancestors: breadth first from start, which belongs to them.
Ancestors(graph, start) ==
  LET level[n \in 0..Cardinality(Ids(graph))] ==
        IF n = 0
        THEN {start}
        ELSE level[n - 1] \cup UNION {ParentsOf(graph, i) : i \in level[n - 1]}
  IN level[Cardinality(Ids(graph))]

\* Generations first, then identifiers.
IsBefore(graph, i, j) ==
  \/ GenerationOf(graph, i) < GenerationOf(graph, j)
  \/ GenerationOf(graph, i) = GenerationOf(graph, j) /\ i < j

Common(graph, left, right) == Ancestors(graph, left) \cap Ancestors(graph, right)

\* Mutant of CommonAncestor: the greatest identifier is taken.
CommonAncestorById(graph, left, right) == Max(Common(graph, left, right))

\* common_ancestor: the last in that order (of two commits that share their root).
CommonAncestor(graph, left, right) ==
  LET common == Common(graph, left, right)
  IN CHOOSE i \in common : \A o \in common : o = i \/ IsBefore(graph, o, i)

\* The members of a set in an order: at its place each has as many before it.
InOrder(S, Before(_, _)) ==
  [n \in 1 .. Cardinality(S) |->
     CHOOSE i \in S : Cardinality({o \in S : Before(o, i)}) = n - 1]

\* missing_from: what is not known, parents before children.
MissingFrom(graph, known) ==
  InOrder(Ids(graph) \ known, LAMBDA i, j : IsBefore(graph, i, j))
=============================================================================
