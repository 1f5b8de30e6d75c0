---------------------------- MODULE RecipeOrder ----------------------------
(***************************************************************************)
(* The order in which a recipe's nodes are executed: Kahn's algorithm, as  *)
(* utils/recipe_dag.py runs it, on any graph without self-loops.           *)
(***************************************************************************)
EXTENDS Integers, Sequences, FiniteSets, SequencesExt

CONSTANT Size   \* nodes, numbered in the order of their names

Vertex == 1 .. Size

ASSUME OrderAssumption == Size \in Nat \ {0}

VARIABLES
  arcs,   \* <<source, target>>
  degree,  \* in_degree
  queue,
  order,
  outcome  \* the function's result: still "sorting", "sorted", or a "cycle"

orderVars == <<arcs, degree, queue, order, outcome>>

OTypeOK ==
  /\ arcs \subseteq Vertex \X Vertex
  /\ degree \in [Vertex -> 0 .. Size]
  /\ queue \in BoundedSeq(Vertex, Size) /\ order \in BoundedSeq(Vertex, Size)
  /\ outcome \in {"sorting", "sorted", "cycle"}

Sources(n) == {s \in Vertex : <<s, n>> \in arcs}
Sorted(S) ==
  [n \in 1 .. Cardinality(S) |-> CHOOSE s \in S : Cardinality({t \in S : t < s}) = n - 1]

\* Mutant of InDegree: an edge is noted, not counted.
InDegreeOnce(n) == IF Sources(n) = {} THEN 0 ELSE 1

InDegree(n) == Cardinality(Sources(n))

\* parse_recipe has refused self-loops and edges given twice.
OrderInit ==
  /\ arcs \in SUBSET {e \in Vertex \X Vertex : e[1] # e[2]}
  /\ degree = [n \in Vertex |-> InDegree(n)]
  /\ queue = Sorted({n \in Vertex : degree[n] = 0})
  /\ order = <<>>
  /\ outcome = "sorting"

\* The targets whose last source this was.
Ready(current) == {n \in Vertex : <<current, n>> \in arcs /\ degree[n] = 1}

Pops ==
  /\ queue # <<>>
  /\ LET current == Head(queue) IN
       /\ order' = Append(order, current)
       /\ degree' = [n \in Vertex |-> IF <<current, n>> \in arcs THEN degree[n] - 1 ELSE degree[n]]
       /\ queue' = Tail(queue) \o Sorted(Ready(current))
  /\ UNCHANGED <<arcs, outcome>>

SortReturns ==
  /\ queue = <<>> /\ outcome = "sorting"
  /\ outcome' = IF Len(order) # Size THEN "cycle" ELSE "sorted"
  /\ UNCHANGED <<arcs, degree, queue, order>>

OrderNext == Pops \/ SortReturns

OrderSpec == OrderInit /\ [][OrderNext]_orderVars

-----------------------------------------------------------------------------
(* Properties.                                                             *)

\* The order has every node once and no edge against it (_topological_sort): what a
\* recipe run relies on to find the rows of all predecessors.
OrderIsTopological ==
  outcome = "sorted" =>
    /\ ToSet(order) = Vertex /\ IsInjective(order)
    /\ \A i, j \in 1 .. Size : <<order[i], order[j]>> \in arcs => i < j

\* Some nodes only follow from each other.
Cyclic == \E S \in SUBSET Vertex : S # {} /\ \A n \in S : Sources(n) \cap S # {}

\* A recipe is refused exactly when it has a cycle.
RefusedIfCyclic == outcome # "sorting" => (outcome = "cycle" <=> Cyclic)

\* The sort ends in an order or in a refusal, and in the right one.
SortsOrRefuses == OrderIsTopological /\ RefusedIfCyclic
=============================================================================
