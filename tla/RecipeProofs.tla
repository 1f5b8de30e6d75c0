---------------------------- MODULE RecipeProofs ----------------------------
(***************************************************************************)
(* A recipe resumes on what it really produced, for every DAG, every set   *)
(* of samplers and rows, and any number of runs that fail, die, resume or  *)
(* begin afresh.  What the properties leave out is what the run in         *)
(* progress knows: that the checkpoint on disk is the one it would write,  *)
(* that it has been through every node before the one it is at, and what   *)
(* it has in memory of them.  Then the order the nodes are run in: Kahn's  *)
(* algorithm sorts any graph that can be sorted and refuses the others.    *)
(***************************************************************************)
EXTENDS RecipeRun, RecipeOrder, FiniteSetTheorems, WellFoundedInduction, TLAPS

USE RecipeAssumption

Running == run.pc # "over"
InHand == run.pc \in {"persisting", "marking"}

\* The run and the checkpoint agree, and the nodes before the one the run is at are
\* finished, which the node it has in hand is not.
RunIsOnCourse ==
  Running =>
    /\ run.completed = FinishedNodes
    /\ \A m \in Node : m < run.at => m \in FinishedNodes
    /\ InHand => run.at \in Node \ FinishedNodes

\* What the run has in hand is in the files it has already written.
HandIsSaved ==
  /\ run.pc = "marking" => run.outputs[run.at] = run.result
  /\ run.pc = "marking" /\ run.at \notin unsaved => sidecar[run.at] = run.result
  /\ InHand /\ run.at \in Samplers => published[run.at] = run.result

\* No finished node's sidecar is missing.
AllSaved == unsaved \cap FinishedNodes = {}

\* Then the rows in memory are those produced ...
MemoryIsReal ==
  Running /\ AllSaved => \A m \in Node : m < run.at => run.outputs[m] = produced[m]

\* ... and were given on.  A node that has failed to save and is not finished yet does
\* not excuse the others, so that this survives the death of the run.
GivenIsReal ==
  AllSaved => \A n \in FinishedNodes \ Seeds : given[n] = Union(produced, Predecessors(n))

RecipeInv ==
  /\ QTypeOK
  /\ FinishedBackToTheSeeds /\ RunIsOnCourse
  /\ SidecarIsReal /\ PublishedIsReal /\ HandIsSaved
  /\ MemoryIsReal /\ GivenIsReal

\* What a run may be; QTypeOK says that of the run in progress.
Runs ==
  [pc : {"over", "next", "persisting", "marking"}, at : 0 .. N + 1, completed : SUBSET Node,
   outputs : [Node -> Rows], result : Rows]

-----------------------------------------------------------------------------
\* The edges of a recipe lead from a node to a later one.
LEMMA EdgesAscend == \A n \in Node : Predecessors(n) \subseteq {m \in Node : m < n}
  BY DEF Predecessors, Node

\* A node's input is made of rows.
LEMMA InputsAreRows == ASSUME QTypeOK, NEW n \in Node PROVE Input(n) \in Rows
<1>1. \A p \in Predecessors(n) : run.outputs[p] \subseteq Row
  BY EdgesAscend DEF QTypeOK, Rows
<1>2. Union(run.outputs, Predecessors(n)) \subseteq Row
  BY <1>1 DEF Union
<1> QED BY <1>2 DEF Input, Rows

\* No run is one, too.
LEMMA OverIsARun == RunOver \in Runs
<1>1. Nothing \in [Node -> Rows] /\ {} \in Rows /\ 0 \in 0 .. N + 1
  BY DEF Nothing, Rows
<1> QED BY <1>1 DEF RunOver, Runs

\* Two runs of the same rows have the same union.
LEMMA UnionsAgree ==
  ASSUME NEW f, NEW g, NEW S, \A p \in S : f[p] = g[p]
  PROVE  Union(f, S) = Union(g, S)
<1>1. {f[p] : p \in S} = {g[p] : p \in S}
  OBVIOUS
<1> QED BY <1>1 DEF Union

-----------------------------------------------------------------------------
LEMMA RecipeInvInit == RecipeInit => RecipeInv
  BY DEF RecipeInit, RecipeInv, QTypeOK, FinishedBackToTheSeeds, RunIsOnCourse, SidecarIsReal,
         PublishedIsReal, HandIsSaved, MemoryIsReal, GivenIsReal, Running, InHand,
         FinishedNodes, RunOver, Nothing, Rows, Node

\* The variables keep their types.
LEMMA TypeNext == RecipeInv /\ [RecipeNext]_recipeVars => QTypeOK'
<1> SUFFICES ASSUME RecipeInv, [RecipeNext]_recipeVars PROVE QTypeOK'
  OBVIOUS
<1> USE DEF RecipeInv, QTypeOK, Saved
<1>1. ASSUME NEW resume \in BOOLEAN, Starts(resume) PROVE QTypeOK'
  <2> DEFINE done == Skipped(resume)
  <2>1. done \subseteq Node
    BY DEF Skipped
  <2>2. checkpoint' = [status |-> "running", completed |-> done]
    BY <1>1 DEF Starts
  <2>3. run' = [pc |-> "next", at |-> 1, completed |-> done, outputs |-> Nothing, result |-> {}]
    BY <1>1 DEF Starts, RunOver
  <2>4. given' \in [Node -> Rows] /\ produced' \in [Node -> Rows]
    BY <1>1 DEF Starts, Rows
  <2>5. unsaved' \subseteq Node
    BY <1>1 DEF Starts
  <2>6. sidecar' \in [Node -> Rows] /\ published' \in [Samplers -> Rows]
    BY <1>1 DEF Starts, rowFiles
  <2> HIDE DEF done
  <2>7. checkpoint' \in [status : {"none", "running", "failed", "completed"},
                         completed : SUBSET Node]
    BY <2>1, <2>2
  <2>8. Nothing \in [Node -> Rows] /\ {} \in Rows /\ 1 \in 0 .. N + 1
    BY DEF Nothing, Rows
  <2>9. run' \in Runs
    BY <2>1, <2>3, <2>8 DEF Runs
  <2> QED BY <2>4, <2>5, <2>6, <2>7, <2>9 DEF Runs
<1>2. ASSUME NEW n \in Node, Skips(n) PROVE QTypeOK'
  <2>1. n + 1 \in 0 .. N + 1
    BY DEF Node
  <2>2. sidecar[n] \in Rows
    OBVIOUS
  <2>3. run' = [run EXCEPT !.outputs[n] = sidecar[n], !.at = n + 1]
    BY <1>2 DEF Skips, Rehydrated
  <2>4. run' \in Runs
    BY <2>1, <2>2, <2>3 DEF Runs
  <2> QED BY <1>2, <2>4 DEF Skips, rowFiles, runHistory, Runs
<1>3. ASSUME NEW n \in Node, NodeFails(n) PROVE QTypeOK'
  BY <1>3, OverIsARun DEF NodeFails, rowFiles, runHistory, Runs
<1>4. ASSUME NEW n \in Node, Persists(n) PROVE QTypeOK'
  BY <1>4 DEF Persists, Persisted, runHistory
<1>5. ASSUME NEW n \in Node, PersistFails(n) PROVE QTypeOK'
  BY <1>5 DEF PersistFails, rowFiles
<1>6. ASSUME NEW n \in Node, MarksFinished(n) PROVE QTypeOK'
  <2>1. n + 1 \in 0 .. N + 1
    BY DEF Node
  <2>2. run' = [run EXCEPT !.pc = "next", !.at = n + 1, !.completed = @ \cup {n}, !.result = {}]
    BY <1>6 DEF MarksFinished
  <2>3. run' \in Runs
    BY <2>1, <2>2 DEF Runs, Rows
  <2>4. Input(n) \in Rows /\ run.result \in Rows
    BY InputsAreRows
  <2>5. given' \in [Node -> Rows] /\ produced' \in [Node -> Rows]
    BY <1>6, <2>4 DEF MarksFinished
  <2>6. checkpoint' \in [status : {"none", "running", "failed", "completed"},
                         completed : SUBSET Node]
    BY <1>6 DEF MarksFinished, WithFinished
  <2> QED BY <1>6, <2>3, <2>5, <2>6 DEF MarksFinished, rowFiles, Runs
<1>7. ASSUME NEW n \in Node, NEW rows \in Rows, Executes(n, rows) PROVE QTypeOK'
  BY <1>7 DEF Executes, Published, runHistory
<1>8. CASE Completes
  BY <1>8, OverIsARun DEF Completes, rowFiles, runHistory, Runs
<1>9. CASE RunDies
  <2>1. unsaved' \subseteq Node
    BY <1>9 DEF RunDies
  <2>2. run' \in Runs
    BY <1>9, OverIsARun DEF RunDies
  <2> QED BY <1>9, <2>1, <2>2 DEF RunDies, rowFiles, Runs
<1>10. CASE UNCHANGED recipeVars
  BY <1>10 DEF recipeVars
<1> QED BY <1>1, <1>2, <1>3, <1>4, <1>5, <1>6, <1>7, <1>8, <1>9, <1>10 DEF RecipeNext

-----------------------------------------------------------------------------
\* What the two steps that move the run on do to it, field by field.
LEMMA AfterSkip ==
  ASSUME QTypeOK, NEW n \in Node, Skips(n)
  PROVE  /\ run'.pc = "next" /\ run'.at = n + 1 /\ run'.completed = run.completed
         /\ run'.outputs[n] = sidecar[n]
         /\ \A m \in Node \ {n} : run'.outputs[m] = run.outputs[m]
<1>1. run' = [run EXCEPT !.outputs[n] = sidecar[n], !.at = n + 1]
  BY DEF Skips, Rehydrated
<1>2. run.pc = "next"
  BY DEF Skips
<1> QED BY <1>1, <1>2 DEF QTypeOK

LEMMA AfterMark ==
  ASSUME QTypeOK, NEW n \in Node, MarksFinished(n)
  PROVE  /\ run'.pc = "next" /\ run'.at = n + 1
         /\ run'.completed = run.completed \cup {n} /\ run'.outputs = run.outputs
         /\ FinishedNodes' = run.completed \cup {n}
         /\ given'[n] = Input(n) /\ produced'[n] = run.result
         /\ \A m \in Node \ {n} : given'[m] = given[m] /\ produced'[m] = produced[m]
<1>1. run' = [run EXCEPT !.pc = "next", !.at = n + 1, !.completed = @ \cup {n}, !.result = {}]
  BY DEF MarksFinished
<1>2. /\ run'.pc = "next" /\ run'.at = n + 1
      /\ run'.completed = run.completed \cup {n} /\ run'.outputs = run.outputs
  BY <1>1 DEF QTypeOK
<1>3. FinishedNodes' = run.completed \cup {n}
  BY DEF MarksFinished, Saved, WithFinished, FinishedNodes
<1>4. given' = [given EXCEPT ![n] = Input(n)] /\ produced' = [produced EXCEPT ![n] = run.result]
  BY DEF MarksFinished
<1>5. /\ given'[n] = Input(n) /\ produced'[n] = run.result
      /\ \A m \in Node \ {n} : given'[m] = given[m] /\ produced'[m] = produced[m]
  BY <1>4 DEF QTypeOK
<1> QED BY <1>2, <1>3, <1>5

LEMMA AfterExecution ==
  ASSUME QTypeOK, NEW n \in Node, NEW rows \in Rows, Executes(n, rows)
  PROVE  /\ run'.pc = "persisting" /\ run'.at = n /\ run'.result = rows
         /\ run'.completed = run.completed /\ run'.outputs = run.outputs
<1>1. run' = [run EXCEPT !.pc = "persisting", !.result = rows]
  BY DEF Executes
<1> QED BY <1>1 DEF QTypeOK, Executes

LEMMA AfterWrite ==
  ASSUME QTypeOK, NEW n \in Node, Persists(n) \/ PersistFails(n)
  PROVE  /\ run'.pc = "marking" /\ run'.at = n /\ run'.result = run.result
         /\ run'.completed = run.completed /\ run'.outputs[n] = run.result
         /\ \A m \in Node \ {n} : run'.outputs[m] = run.outputs[m]
<1>1. run' = [run EXCEPT !.pc = "marking", !.outputs[n] = run.result]
  BY DEF Persists, PersistFails
<1> QED BY <1>1 DEF QTypeOK, Persists, PersistFails

\* A run that begins knows what the checkpoint told it, or nothing.
LEMMA AfterStart ==
  ASSUME QTypeOK, NEW resume \in BOOLEAN, Starts(resume)
  PROVE  /\ run'.pc = "next" /\ run'.at = 1 /\ run'.completed = FinishedNodes'
         /\ FinishedNodes' \in {FinishedNodes, {}}
         /\ \A n \in FinishedNodes' : given'[n] = given[n] /\ produced'[n] = produced[n]
         /\ unsaved' = unsaved \cap FinishedNodes'
<1> USE DEF Skipped, FinishedNodes
<1>1. checkpoint'.completed = Skipped(resume)
  BY DEF Starts, Saved
<1>2. run' = [pc |-> "next", at |-> 1, completed |-> Skipped(resume), outputs |-> Nothing,
              result |-> {}]
  BY DEF Starts, RunOver
<1>3. given' = [n \in Node |-> IF n \in Skipped(resume) THEN given[n] ELSE {}]
  BY DEF Starts
<1>4. produced' = [n \in Node |-> IF n \in Skipped(resume) THEN produced[n] ELSE {}]
  BY DEF Starts
<1>5. Skipped(resume) \subseteq Node
  BY DEF QTypeOK
<1>6. unsaved' = unsaved \cap Skipped(resume)
  BY DEF Starts
<1>7. \A n \in Skipped(resume) : given'[n] = given[n] /\ produced'[n] = produced[n]
  BY <1>3, <1>4, <1>5
<1> QED BY <1>1, <1>2, <1>6, <1>7

\* A run that ends leaves the finished nodes and what they produced alone.
LEMMA AfterEnd ==
  ASSUME RecipeInv, (\E n \in Node : NodeFails(n)) \/ Completes \/ RunDies
  PROVE  /\ run'.pc = "over" /\ FinishedNodes' = FinishedNodes
         /\ unsaved' \cap FinishedNodes' = unsaved \cap FinishedNodes
         /\ UNCHANGED <<sidecar, published, given, produced>>
<1> USE DEF RecipeInv, RunOver, rowFiles, runHistory, FinishedNodes, Saved
<1>1. ASSUME NEW n \in Node, NodeFails(n)
      PROVE  FinishedNodes' = FinishedNodes
  BY <1>1 DEF NodeFails, RunIsOnCourse, Running
<1>2. ASSUME Completes PROVE FinishedNodes' = FinishedNodes
  BY <1>2 DEF Completes, RunIsOnCourse, Running
<1>3. ASSUME RunDies PROVE unsaved' \cap FinishedNodes = unsaved \cap FinishedNodes
  BY <1>3 DEF RunDies, RunIsOnCourse, Running, InHand
<1> QED BY <1>1, <1>2, <1>3 DEF NodeFails, Completes, RunDies

\* What the nodes were given stays real while nothing it speaks of changes.
LEMMA GivenUnchanged ==
  ASSUME RecipeInv, UNCHANGED <<checkpoint, given, produced>>, AllSaved' = AllSaved
  PROVE  GivenIsReal'
<1>1. Seeds' = Seeds /\ FinishedNodes' = FinishedNodes
  BY DEF Seeds, Predecessors, FinishedNodes
<1>2. \A m \in Node : Union(produced, Predecessors(m))' = Union(produced, Predecessors(m))
  BY DEF Union, Predecessors
<1>3. FinishedNodes \subseteq Node /\ GivenIsReal
  BY DEF RecipeInv, QTypeOK, FinishedNodes
<1> QED BY <1>1, <1>2, <1>3 DEF GivenIsReal

\* The end of a run is a step of the invariant.
LEMMA EndNext ==
  ASSUME RecipeInv, QTypeOK', (\E n \in Node : NodeFails(n)) \/ Completes \/ RunDies
  PROVE  RecipeInv'
<1> USE AfterEnd DEF RecipeInv
<1>1. RunIsOnCourse' /\ HandIsSaved' /\ MemoryIsReal'
  BY DEF RunIsOnCourse, HandIsSaved, MemoryIsReal, Running, InHand
<1>2. FinishedBackToTheSeeds' /\ PublishedIsReal'
  BY DEF FinishedBackToTheSeeds, PublishedIsReal
<1>3. SidecarIsReal'
  BY DEF SidecarIsReal
<1>4. GivenIsReal'
  <2> SUFFICES ASSUME AllSaved', NEW n \in (FinishedNodes \ Seeds)'
               PROVE  (given[n] = Union(produced, Predecessors(n)))'
    BY DEF GivenIsReal
  <2>1. AllSaved /\ n \in FinishedNodes \ Seeds
    BY DEF AllSaved, Seeds, Predecessors
  <2> QED BY <2>1 DEF GivenIsReal, Union
<1> QED BY <1>1, <1>2, <1>3, <1>4

\* So is its beginning: what it will skip is finished, with the rows it had.
LEMMA StartNext ==
  ASSUME RecipeInv, QTypeOK', NEW resume \in BOOLEAN, Starts(resume)
  PROVE  RecipeInv'
<1> USE AfterStart DEF RecipeInv
<1>1. UNCHANGED rowFiles
  BY DEF Starts
<1>2. RunIsOnCourse'
  BY DEF RunIsOnCourse, Running, InHand, Node
<1>3. HandIsSaved'
  BY DEF HandIsSaved, InHand
<1>4. MemoryIsReal'
  BY DEF MemoryIsReal, Node
<1>5. FinishedBackToTheSeeds'
  BY DEF FinishedBackToTheSeeds
<1>6. FinishedNodes' \subseteq FinishedNodes /\ FinishedNodes \subseteq Node
  BY DEF QTypeOK, FinishedNodes
<1>7. SidecarIsReal'
  BY <1>1, <1>6 DEF SidecarIsReal, rowFiles
<1>8. PublishedIsReal'
  BY <1>1, <1>6 DEF PublishedIsReal, rowFiles
<1>9. GivenIsReal'
  <2> SUFFICES ASSUME AllSaved', NEW n \in (FinishedNodes \ Seeds)'
               PROVE  (given[n] = Union(produced, Predecessors(n)))'
    BY DEF GivenIsReal
  <2>1. n \in FinishedNodes \ Seeds /\ FinishedNodes' = FinishedNodes
    BY <1>6 DEF Seeds, Predecessors
  <2>2. AllSaved
    BY <2>1 DEF AllSaved
  <2>3. \A p \in Predecessors(n) : produced'[p] = produced[p]
    BY <2>1 DEF FinishedBackToTheSeeds
  <2>4. Union(produced', Predecessors(n)) = Union(produced, Predecessors(n))
    BY <2>3, UnionsAgree
  <2>5. given'[n] = given[n] /\ given[n] = Union(produced, Predecessors(n))
    BY <2>1, <2>2 DEF GivenIsReal
  <2> QED BY <2>4, <2>5 DEF Union, Predecessors
<1> QED BY <1>2, <1>3, <1>4, <1>5, <1>7, <1>8, <1>9

\* A skipped node's rows are read back from its sidecar.
LEMMA SkipNext ==
  ASSUME RecipeInv, QTypeOK', NEW n \in Node, Skips(n)
  PROVE  RecipeInv'
<1> USE AfterSkip DEF RecipeInv
<1>1. UNCHANGED <<sidecar, published, checkpoint, given, produced, unsaved>>
  BY DEF Skips, rowFiles, runHistory
<1>2. run.pc = "next" /\ run.at = n /\ n \in FinishedNodes
  BY DEF Skips, RunIsOnCourse, Running
<1>3. \A m \in Node : m < n + 1 => m = n \/ m < n
  BY DEF Node
<1>4. RunIsOnCourse'
  BY <1>1, <1>2, <1>3 DEF RunIsOnCourse, Running, InHand, FinishedNodes
<1>5. HandIsSaved'
  BY DEF HandIsSaved, InHand
<1>6. MemoryIsReal'
  <2> SUFFICES ASSUME AllSaved', NEW m \in Node, m < n + 1
               PROVE  run'.outputs[m] = produced'[m]
    BY DEF MemoryIsReal
  <2>1. AllSaved
    BY <1>1 DEF AllSaved, FinishedNodes
  <2>2. CASE m = n
    BY <1>1, <1>2, <2>1, <2>2 DEF SidecarIsReal, AllSaved
  <2>3. CASE m # n
    BY <1>1, <1>2, <1>3, <2>1, <2>3 DEF MemoryIsReal, Running
  <2> QED BY <2>2, <2>3
<1>7. FinishedBackToTheSeeds' /\ SidecarIsReal' /\ PublishedIsReal'
  BY <1>1 DEF FinishedBackToTheSeeds, SidecarIsReal, PublishedIsReal, FinishedNodes, Predecessors
<1>8. GivenIsReal'
  <2>1. AllSaved' = AllSaved
    BY <1>1 DEF AllSaved, FinishedNodes
  <2> QED BY <1>1, <2>1, GivenUnchanged
<1> QED BY <1>4, <1>5, <1>6, <1>7, <1>8

\* A node that ran has its output in hand, and in its file if it publishes one.
LEMMA ExecutionNext ==
  ASSUME RecipeInv, QTypeOK', NEW n \in Node, NEW rows \in Rows, Executes(n, rows)
  PROVE  RecipeInv'
<1> USE AfterExecution DEF RecipeInv
<1>1. UNCHANGED <<sidecar, checkpoint, given, produced, unsaved>>
  BY DEF Executes, runHistory
<1>2. run.pc = "next" /\ run.at = n /\ n \notin FinishedNodes
  BY DEF Executes, RunIsOnCourse, Running
<1>3. published' = [s \in Samplers |-> IF s = n THEN rows ELSE published[s]]
  BY DEF Executes, Published
<1>4. RunIsOnCourse'
  BY <1>1, <1>2 DEF RunIsOnCourse, Running, InHand, FinishedNodes
<1>5. HandIsSaved'
  BY <1>3 DEF HandIsSaved, InHand
<1>6. MemoryIsReal'
  BY <1>1, <1>2 DEF MemoryIsReal, Running, AllSaved, FinishedNodes
<1>7. FinishedBackToTheSeeds' /\ SidecarIsReal'
  BY <1>1 DEF FinishedBackToTheSeeds, SidecarIsReal, FinishedNodes, Predecessors
<1>8. PublishedIsReal'
  BY <1>1, <1>2, <1>3 DEF PublishedIsReal, FinishedNodes
<1>9. GivenIsReal'
  <2>1. AllSaved' = AllSaved
    BY <1>1 DEF AllSaved, FinishedNodes
  <2> QED BY <1>1, <2>1, GivenUnchanged
<1> QED BY <1>4, <1>5, <1>6, <1>7, <1>8, <1>9

\* A node's sidecar is written, or is not, before the node is finished.
LEMMA WriteNext ==
  ASSUME RecipeInv, QTypeOK', NEW n \in Node, Persists(n) \/ PersistFails(n)
  PROVE  RecipeInv'
<1> USE AfterWrite DEF RecipeInv
<1>1. UNCHANGED <<published, checkpoint, given, produced>>
  BY DEF Persists, PersistFails, rowFiles, runHistory
<1>2. run.pc = "persisting" /\ run.at = n /\ n \in Node \ FinishedNodes
  BY DEF Persists, PersistFails, RunIsOnCourse, Running, InHand
<1>3. \A m \in Node \ {n} : sidecar'[m] = sidecar[m] /\ (m \in unsaved' <=> m \in unsaved)
  <2>1. CASE Persists(n)
    BY <2>1 DEF Persists, runHistory, QTypeOK
  <2>2. CASE PersistFails(n)
    BY <2>2 DEF PersistFails, rowFiles
  <2> QED BY <2>1, <2>2
<1>4. n \notin unsaved' => sidecar'[n] = run.result
  <2>1. CASE Persists(n)
    BY <2>1 DEF Persists, Persisted, QTypeOK
  <2>2. CASE PersistFails(n)
    BY <2>2 DEF PersistFails
  <2> QED BY <2>1, <2>2
<1>5. FinishedNodes' = FinishedNodes /\ FinishedNodes \subseteq Node \ {n}
  BY <1>1, <1>2 DEF FinishedNodes, QTypeOK
<1>6. AllSaved' = AllSaved
  BY <1>3, <1>5 DEF AllSaved
<1>7. RunIsOnCourse'
  BY <1>2, <1>5 DEF RunIsOnCourse, Running, InHand
<1>8. HandIsSaved'
  BY <1>1, <1>2, <1>4 DEF HandIsSaved, InHand
<1>9. MemoryIsReal'
  BY <1>1, <1>2, <1>6 DEF MemoryIsReal, Running, Node
<1>10. FinishedBackToTheSeeds' /\ PublishedIsReal'
  BY <1>1, <1>5 DEF FinishedBackToTheSeeds, PublishedIsReal, Predecessors
<1>11. SidecarIsReal'
  BY <1>1, <1>3, <1>5 DEF SidecarIsReal
<1>12. GivenIsReal'
  BY <1>1, <1>6, GivenUnchanged
<1> QED BY <1>7, <1>8, <1>9, <1>10, <1>11, <1>12

\* A node is finished: the checkpoint has its name once its files have its rows.
LEMMA MarkNext ==
  ASSUME RecipeInv, QTypeOK', NEW n \in Node, MarksFinished(n)
  PROVE  RecipeInv'
<1> USE AfterMark DEF RecipeInv
<1>1. UNCHANGED <<sidecar, published, unsaved>>
  BY DEF MarksFinished, rowFiles
<1>2. run.pc = "marking" /\ run.at = n /\ run.completed = FinishedNodes /\ n \notin FinishedNodes
  BY DEF MarksFinished, RunIsOnCourse, Running, InHand
<1>3. FinishedNodes' = FinishedNodes \cup {n} /\ FinishedNodes \subseteq Node \ {n}
  BY <1>2 DEF FinishedNodes, QTypeOK
<1>4. \A m \in Node : m < n + 1 => m = n \/ m < n
  BY DEF Node
<1>5. Predecessors(n) \subseteq FinishedNodes
  BY <1>2, EdgesAscend DEF RunIsOnCourse, Running
<1>6. FinishedBackToTheSeeds'
  BY <1>3, <1>5 DEF FinishedBackToTheSeeds, Predecessors
<1>7. RunIsOnCourse'
  BY <1>2, <1>3, <1>4 DEF RunIsOnCourse, Running, InHand
<1>8. HandIsSaved'
  BY DEF HandIsSaved, InHand
<1>9. SidecarIsReal'
  BY <1>1, <1>2, <1>3 DEF SidecarIsReal, HandIsSaved
<1>10. PublishedIsReal'
  BY <1>1, <1>2, <1>3 DEF PublishedIsReal, HandIsSaved, InHand
<1>11. AllSaved' => AllSaved
  BY <1>1, <1>3 DEF AllSaved
<1>12. MemoryIsReal'
  BY <1>2, <1>4, <1>11 DEF MemoryIsReal, HandIsSaved, Running
<1>13. GivenIsReal'
  <2> SUFFICES ASSUME AllSaved', NEW k \in (FinishedNodes \ Seeds)'
               PROVE  given'[k] = Union(produced', Predecessors(k))
    BY DEF GivenIsReal, Union, Predecessors
  <2>1. k \in Node \ Seeds /\ (k = n \/ k \in FinishedNodes)
    BY <1>3 DEF Seeds, Predecessors
  <2>2. AllSaved
    BY <1>11
  <2>3. Predecessors(k) \subseteq FinishedNodes
    BY <1>5, <2>1 DEF FinishedBackToTheSeeds
  <2>4. \A p \in Predecessors(k) : produced'[p] = produced[p]
    BY <1>3, <2>3
  <2>5. Union(produced', Predecessors(k)) = Union(produced, Predecessors(k))
    BY <2>4, UnionsAgree
  <2>6. CASE k = n
    <3>1. \A p \in Predecessors(n) : run.outputs[p] = produced[p]
      BY <1>2, <2>2, EdgesAscend DEF MemoryIsReal, Running
    <3>2. Union(run.outputs, Predecessors(n)) = Union(produced, Predecessors(n))
      BY <3>1, UnionsAgree
    <3> QED BY <2>1, <2>5, <2>6, <3>2 DEF Input
  <2>7. CASE k # n
    BY <1>3, <2>1, <2>2, <2>5, <2>7 DEF GivenIsReal
  <2> QED BY <2>6, <2>7
<1> QED BY <1>6, <1>7, <1>8, <1>9, <1>10, <1>12, <1>13

LEMMA RecipeInvNext == RecipeInv /\ [RecipeNext]_recipeVars => RecipeInv'
<1> SUFFICES ASSUME RecipeInv, [RecipeNext]_recipeVars PROVE RecipeInv'
  OBVIOUS
<1>1. QTypeOK'
  BY TypeNext
<1>2. ASSUME NEW resume \in BOOLEAN, Starts(resume) PROVE RecipeInv'
  BY <1>1, <1>2, StartNext
<1>3. ASSUME NEW n \in Node, Skips(n) PROVE RecipeInv'
  BY <1>1, <1>3, SkipNext
<1>4. ASSUME NEW n \in Node, Persists(n) \/ PersistFails(n) PROVE RecipeInv'
  BY <1>1, <1>4, WriteNext
<1>5. ASSUME NEW n \in Node, MarksFinished(n) PROVE RecipeInv'
  BY <1>1, <1>5, MarkNext
<1>6. ASSUME NEW n \in Node, NEW rows \in Rows, Executes(n, rows) PROVE RecipeInv'
  BY <1>1, <1>6, ExecutionNext
<1>7. CASE (\E n \in Node : NodeFails(n)) \/ Completes \/ RunDies
  BY <1>1, <1>7, EndNext
<1>8. CASE UNCHANGED recipeVars
  <2>1. GivenIsReal'
    BY <1>8, GivenUnchanged DEF recipeVars, AllSaved, FinishedNodes, RecipeInv
  <2> QED
    BY <1>1, <1>8, <2>1
    DEF recipeVars, RecipeInv, FinishedBackToTheSeeds, RunIsOnCourse, SidecarIsReal,
        PublishedIsReal, HandIsSaved, MemoryIsReal, Running, InHand, AllSaved, FinishedNodes,
        Predecessors
<1> QED BY <1>2, <1>3, <1>4, <1>5, <1>6, <1>7, <1>8 DEF RecipeNext

\* A run that resumes has, for every finished node, the rows that node produced from
\* those of the nodes before it, whatever failed or died since (run_recipe).
THEOREM ResumeStaysReal == RecipeSpec => []ResumeIsReal
<1>1. RecipeInv => ResumeIsReal
  <2> SUFFICES ASSUME RecipeInv PROVE InputsAreReal
    BY DEF RecipeInv, ResumeIsReal
  <2> QED BY DEF RecipeInv, InputsAreReal, GivenIsReal, AllSaved
<1> QED BY <1>1, RecipeInvInit, RecipeInvNext, PTL DEF RecipeSpec

\* The run, its files and its checkpoint keep their types.
THEOREM RecipeStaysTyped == RecipeSpec => []QTypeOK
<1>1. RecipeInv => QTypeOK
  BY DEF RecipeInv
<1> QED BY <1>1, RecipeInvInit, RecipeInvNext, PTL DEF RecipeSpec

-----------------------------------------------------------------------------
(* The order of the nodes: Kahn's algorithm on any graph.                  *)

LEMMA VerticesAreFew ==
  /\ Size \in Nat /\ Size > 0 /\ IsFiniteSet(Vertex) /\ Cardinality(Vertex) = Size
  /\ Vertex \subseteq Nat
BY OrderAssumption, FS_Interval DEF Vertex

Distinct(s) == \A i, j \in 1 .. Len(s) : s[i] = s[j] => i = j

\* Sorting a set gives each of its elements once.
LEMMA SortedIsTheSet ==
  ASSUME NEW S \in SUBSET Vertex
  PROVE  /\ Sorted(S) \in Seq(Vertex) /\ Distinct(Sorted(S))
         /\ ToSet(Sorted(S)) = S
<1> DEFINE before(l) == {t \in S : t < l}
           rank == [l \in S |-> Cardinality(before(l))]
           ranks == 0 .. Cardinality(S) - 1
<1>1. IsFiniteSet(S) /\ Cardinality(S) \in Nat /\ S \subseteq Nat
  BY VerticesAreFew, FS_Subset, FS_CardinalityType
<1>2. IsFiniteSet(ranks) /\ Cardinality(ranks) = Cardinality(S)
  BY <1>1, FS_Interval, 0 \in Int, Cardinality(S) - 1 \in Int
<1>3. ASSUME NEW l \in S
      PROVE  IsFiniteSet(before(l)) /\ Cardinality(before(l)) \in Nat
  BY <1>1, FS_Subset, FS_CardinalityType
<1>4. ASSUME NEW l \in S
      PROVE  Cardinality(before(l)) \in ranks
  <2>1. before(l) \in SUBSET S /\ l \notin before(l)
    BY <1>1
  <2>2. Cardinality(before(l)) <= Cardinality(S) /\ Cardinality(before(l)) # Cardinality(S)
    BY <1>1, <2>1, FS_Subset
  <2> QED BY <1>1, <1>3, <2>2
<1>5. ASSUME NEW l \in S, NEW k \in S, l < k
      PROVE  Cardinality(before(l)) # Cardinality(before(k))
  <2>1. before(l) \in SUBSET before(k)
    <3>1. \A t \in S : t < l => t < k
      BY <1>1, <1>5
    <3> QED BY <3>1
  <2>2. l \in before(k) /\ l \notin before(l)
    BY <1>1, <1>5
  <2> QED BY <1>3, <2>1, <2>2, FS_Subset
<1>6. rank \in [S -> ranks]
  BY <1>4
<1>7. ASSUME NEW l \in S, NEW k \in S, rank[l] = rank[k]
      PROVE  l = k
  <2>1. l = k \/ l < k \/ k < l
    BY <1>1
  <2>2. ~(l < k) /\ ~(k < l)
    BY <1>5, <1>7
  <2> QED BY <2>1, <2>2
<1>8. rank \in Injection(S, ranks)
  BY <1>6, <1>7 DEF Injection, IsInjective
<1>9. rank \in Surjection(S, ranks)
  BY <1>2, <1>8, FS_Injection
<1>10. PICK c : c = Cardinality(S)
  OBVIOUS
<1>11. Len(Sorted(S)) = c /\ DOMAIN Sorted(S) = 1 .. c
  BY <1>1, <1>10 DEF Sorted
<1>12. ASSUME NEW n \in 1 .. c
       PROVE  Sorted(S)[n] \in S /\ rank[Sorted(S)[n]] = n - 1
  <2>1. n - 1 \in ranks
    BY <1>1, <1>10
  <2>2. \E l \in S : Cardinality(before(l)) = n - 1
    BY <1>9, <2>1 DEF Surjection
  <2>3. Sorted(S)[n] = CHOOSE l \in S : Cardinality(before(l)) = n - 1
    BY <1>10 DEF Sorted
  <2> HIDE DEF before
  <2>4. Sorted(S)[n] \in S /\ Cardinality(before(Sorted(S)[n])) = n - 1
    BY <2>2, <2>3
  <2> QED BY <2>4
<1> HIDE DEF rank
<1>13. Sorted(S) \in Seq(Vertex)
  <2> DEFINE sort == [n \in 1 .. c |-> CHOOSE l \in S : Cardinality({t \in S : t < l}) = n - 1]
  <2>1. Sorted(S) = sort
    BY <1>10 DEF Sorted
  <2>2. \A n \in 1 .. c : sort[n] \in Vertex
    BY <1>12, <2>1
  <2>3. sort \in [1 .. c -> Vertex]
    BY <2>2
  <2> HIDE DEF sort
  <2> QED BY <1>1, <1>10, <2>1, <2>3
<1>14. Distinct(Sorted(S))
  <2>1. c \in Nat
    BY <1>1, <1>10
  <2> QED BY <1>11, <1>12, <2>1 DEF Distinct
<1>15. ToSet(Sorted(S)) = S
  <2>1. ASSUME NEW l \in S
        PROVE  \E n \in 1 .. c : Sorted(S)[n] = l
    <3>1. PICK x : x = rank[l]
      OBVIOUS
    <3>2. x \in ranks
      BY <1>6, <3>1
    <3>3. x + 1 \in 1 .. c /\ (x + 1) - 1 = x
      BY <1>1, <1>10, <3>2
    <3>4. Sorted(S)[x + 1] \in S /\ rank[Sorted(S)[x + 1]] = x
      BY <1>12, <3>3
    <3> QED BY <1>7, <3>1, <3>3, <3>4
  <2> QED BY <1>11, <1>12, <2>1 DEF ToSet
<1> QED BY <1>13, <1>14, <1>15

\* The front of a queue goes, and other elements are queued.
LEMMA QueueMoves ==
  ASSUME NEW q \in Seq(Vertex), q # <<>>, Distinct(q), NEW z \in Seq(Vertex), Distinct(z),
         ToSet(q) \cap ToSet(z) = {}
  PROVE  /\ Head(q) \in ToSet(q) /\ Head(q) \in Vertex
         /\ Tail(q) \o z \in Seq(Vertex) /\ Distinct(Tail(q) \o z)
         /\ ToSet(Tail(q) \o z) = (ToSet(q) \ {Head(q)}) \cup ToSet(z)
<1>1. Len(q) \in Nat /\ Len(q) > 0 /\ Len(z) \in Nat /\ Head(q) = q[1]
      /\ DOMAIN q = 1 .. Len(q) /\ DOMAIN z = 1 .. Len(z)
  OBVIOUS
<1>2. Head(q) \in ToSet(q) /\ Head(q) \in Vertex
  BY <1>1 DEF ToSet
<1>3. PICK n \in Nat : n = Len(q) - 1
  <2>1. Len(q) - 1 \in Nat
    BY <1>1
  <2> QED BY <2>1
<1>4. PICK m \in Nat : m = Len(z)
  BY <1>1
<1>5. PICK t \in Seq(Vertex) :
        t = Tail(q) /\ Len(t) = n /\ \A i \in 1 .. n : t[i] = q[i + 1]
  <2>1. Tail(q) \in Seq(Vertex) /\ Len(Tail(q)) = n /\ \A i \in 1 .. n : Tail(q)[i] = q[i + 1]
    BY <1>1, <1>3
  <2> QED BY <2>1
<1>6. PICK x \in Seq(Vertex) : x = t \o z
  <2>1. t \o z \in Seq(Vertex)
    OBVIOUS
  <2> QED BY <2>1
<1>7. Len(x) = n + m /\ DOMAIN x = 1 .. n + m
  <2>1. Len(t \o z) = Len(t) + Len(z)
    OBVIOUS
  <2>2. Len(x) = n + m
    BY <1>4, <1>5, <1>6, <2>1
  <2> QED BY <2>2
<1>8. \A i \in 1 .. n : x[i] = q[i + 1] /\ i + 1 \in 1 .. Len(q)
  BY <1>3, <1>5, <1>6
<1>9. \A i \in n + 1 .. n + m : x[i] = z[i - n] /\ i - n \in 1 .. Len(z)
  <2> SUFFICES ASSUME NEW i \in n + 1 .. n + m PROVE x[i] = z[i - n] /\ i - n \in 1 .. Len(z)
    OBVIOUS
  <2>1. i - n \in 1 .. Len(z) /\ i \in Len(t) + 1 .. Len(t) + Len(z)
    BY <1>4, <1>5
  <2>2. (t \o z)[i] = z[i - Len(t)]
    BY <2>1
  <2> QED BY <1>5, <1>6, <2>1, <2>2
<1>10. \A i \in 1 .. n + m : i \in 1 .. n \/ i \in n + 1 .. n + m
  OBVIOUS
<1>11. Distinct(x)
  <2> SUFFICES ASSUME NEW i \in 1 .. n + m, NEW j \in 1 .. n + m, x[i] = x[j]
               PROVE  i = j
    BY <1>7 DEF Distinct
  <2>1. CASE i \in 1 .. n /\ j \in 1 .. n
    <3>1. i + 1 = j + 1
      BY <1>8, <2>1 DEF Distinct
    <3> QED BY <3>1
  <2>2. CASE i \in n + 1 .. n + m /\ j \in n + 1 .. n + m
    <3>1. i - n = j - n
      BY <1>9, <2>2 DEF Distinct
    <3> QED BY <3>1
  <2>3. \A a \in 1 .. n, b \in n + 1 .. n + m : x[a] # x[b]
    <3> SUFFICES ASSUME NEW a \in 1 .. n, NEW b \in n + 1 .. n + m PROVE x[a] # x[b]
      OBVIOUS
    <3>1. x[a] \in ToSet(q) /\ x[b] \in ToSet(z)
      BY <1>1, <1>8, <1>9 DEF ToSet
    <3> QED BY <3>1
  <2> QED BY <1>10, <2>1, <2>2, <2>3
<1>12. ToSet(x) = (ToSet(q) \ {Head(q)}) \cup ToSet(z)
  <2>1. ASSUME NEW v \in ToSet(x)
        PROVE  v \in (ToSet(q) \ {Head(q)}) \cup ToSet(z)
    <3>1. PICK i \in 1 .. n + m : v = x[i]
      BY <1>7 DEF ToSet
    <3>2. CASE i \in 1 .. n
      <4>1. i + 1 \in 1 .. Len(q) /\ i + 1 # 1 /\ 1 \in 1 .. Len(q) /\ v = q[i + 1]
        BY <1>1, <1>8, <3>1, <3>2
      <4> QED BY <1>1, <4>1 DEF Distinct, ToSet
    <3>3. CASE i \in n + 1 .. n + m
      BY <1>1, <1>9, <3>1, <3>3 DEF ToSet
    <3> QED BY <1>10, <3>2, <3>3
  <2>2. ASSUME NEW v \in ToSet(q), v # Head(q)
        PROVE  v \in ToSet(x)
    <3>1. PICK i \in 1 .. Len(q) : v = q[i]
      BY <1>1 DEF ToSet
    <3>2. i - 1 \in 1 .. n /\ (i - 1) + 1 = i /\ i - 1 \in 1 .. n + m
      BY <1>1, <1>3, <2>2, <3>1
    <3> QED BY <1>7, <1>8, <3>1, <3>2 DEF ToSet
  <2>3. ASSUME NEW v \in ToSet(z)
        PROVE  v \in ToSet(x)
    <3>1. PICK i \in 1 .. m : v = z[i]
      BY <1>1, <1>4 DEF ToSet
    <3>2. i + n \in n + 1 .. n + m /\ (i + n) - n = i /\ i + n \in 1 .. n + m
      OBVIOUS
    <3> QED BY <1>7, <1>9, <3>1, <3>2 DEF ToSet
  <2> QED BY <2>1, <2>2, <2>3
<1> QED BY <1>2, <1>5, <1>6, <1>11, <1>12

LEMMA OrderGrows ==
  ASSUME NEW s \in Seq(Vertex), Distinct(s), NEW v \in Vertex, v \notin ToSet(s)
  PROVE  /\ Append(s, v) \in Seq(Vertex) /\ Distinct(Append(s, v))
         /\ ToSet(Append(s, v)) = ToSet(s) \cup {v}
         /\ Len(Append(s, v)) = Len(s) + 1 /\ Append(s, v)[Len(s) + 1] = v
         /\ \A i \in 1 .. Len(s) : Append(s, v)[i] = s[i]
<1>1. PICK x \in Seq(Vertex) : x = Append(s, v)
  <2>1. Append(s, v) \in Seq(Vertex)
    OBVIOUS
  <2> QED BY <2>1
<1>2. /\ Len(s) \in Nat /\ DOMAIN s = 1 .. Len(s)
      /\ Len(x) = Len(s) + 1 /\ DOMAIN x = 1 .. Len(s) + 1 /\ x[Len(s) + 1] = v
      /\ \A i \in 1 .. Len(s) : x[i] = s[i]
  BY <1>1
<1>3. \A i \in 1 .. Len(s) + 1 : i \in 1 .. Len(s) \/ i = Len(s) + 1
  BY <1>2
<1>4. \A i \in 1 .. Len(s) : x[i] \in ToSet(s) /\ x[i] # v
  BY <1>2 DEF ToSet
<1>5. Distinct(x)
  BY <1>2, <1>3, <1>4 DEF Distinct
<1>6. ToSet(x) = ToSet(s) \cup {v}
  <2>1. \A i \in 1 .. Len(s) : i \in 1 .. Len(s) + 1
    BY <1>2
  <2>2. Len(s) + 1 \in 1 .. Len(s) + 1
    BY <1>2
  <2> QED BY <1>2, <1>3, <1>4, <2>1, <2>2 DEF ToSet
<1> QED BY <1>1, <1>2, <1>5, <1>6

-----------------------------------------------------------------------------
Done == ToSet(order)
Waiting(n) == Sources(n) \ Done

SoFarInOrder ==
  \A j \in 1 .. Len(order) : \A s \in Sources(order[j]) : \E i \in 1 .. j - 1 : order[i] = s

\* Nothing is queued twice, or queued and ordered; what is, is what waits for nothing,
\* and the degree of a node is the number of sources it waits for.
KahnInv ==
  /\ arcs \subseteq Vertex \X Vertex
  /\ queue \in Seq(Vertex) /\ order \in Seq(Vertex)
  /\ Distinct(queue) /\ Distinct(order) /\ Done \cap ToSet(queue) = {}
  /\ degree = [n \in Vertex |-> Cardinality(Waiting(n))]
  /\ Done \cup ToSet(queue) = {n \in Vertex : Waiting(n) = {}}
  /\ SoFarInOrder
  /\ outcome \in {"sorting", "sorted", "cycle"}
  /\ outcome # "sorting" => queue = <<>> /\ (outcome = "cycle" <=> Len(order) # Size)

LEMMA SourcesAreFew ==
  \A n \in Vertex : \A D : /\ Sources(n) \ D \subseteq Vertex
                           /\ IsFiniteSet(Sources(n) \ D) /\ Cardinality(Sources(n) \ D) \in Nat
<1>1. \A n \in Vertex : \A D : Sources(n) \ D \in SUBSET Vertex
  BY DEF Sources
<1> QED BY <1>1, VerticesAreFew, FS_Subset, FS_CardinalityType

LEMMA OrderStarts == OrderInit => KahnInv
<1> SUFFICES ASSUME OrderInit PROVE KahnInv
  OBVIOUS
<1>1. order = <<>> /\ outcome = "sorting" /\ arcs \subseteq Vertex \X Vertex
      /\ degree = [n \in Vertex |-> Cardinality(Sources(n))]
      /\ queue = Sorted({n \in Vertex : degree[n] = 0})
  BY DEF OrderInit, InDegree
<1>2. Done = {} /\ Len(order) = 0 /\ order \in Seq(Vertex) /\ Distinct(order)
  BY <1>1 DEF Done, ToSet, Distinct
<1>3. \A n \in Vertex : Waiting(n) = Sources(n)
  BY <1>2 DEF Waiting
<1>4. {n \in Vertex : degree[n] = 0} = {n \in Vertex : Waiting(n) = {}}
  <2>1. \A n \in Vertex : IsFiniteSet(Waiting(n))
    BY SourcesAreFew DEF Waiting
  <2>2. \A n \in Vertex : degree[n] = 0 <=> Waiting(n) = {}
    BY <1>1, <1>3, <2>1, FS_EmptySet
  <2> QED BY <2>2
<1>5. /\ queue \in Seq(Vertex) /\ Distinct(queue)
      /\ ToSet(queue) = {n \in Vertex : Waiting(n) = {}}
  BY <1>1, <1>4, SortedIsTheSet
<1>6. degree = [n \in Vertex |-> Cardinality(Waiting(n))]
  BY <1>1, <1>3
<1> QED BY <1>1, <1>2, <1>5, <1>6 DEF KahnInv, SoFarInOrder

LEMMA PopsKeeps == KahnInv /\ Pops => KahnInv'
<1> SUFFICES ASSUME KahnInv, Pops PROVE KahnInv'
  OBVIOUS
<1>1. PICK c : c = Head(queue)
  OBVIOUS
<1>2. /\ queue # <<>> /\ UNCHANGED <<arcs, outcome>>
      /\ order' = Append(order, c)
      /\ degree' = [n \in Vertex |-> IF <<c, n>> \in arcs THEN degree[n] - 1 ELSE degree[n]]
      /\ queue' = Tail(queue) \o Sorted(Ready(c))
  BY <1>1 DEF Pops
<1>3. /\ queue \in Seq(Vertex) /\ order \in Seq(Vertex) /\ Distinct(queue) /\ Distinct(order)
      /\ Done \cap ToSet(queue) = {} /\ arcs \subseteq Vertex \X Vertex
      /\ Done \cup ToSet(queue) = {n \in Vertex : Waiting(n) = {}}
      /\ \A n \in Vertex : degree[n] = Cardinality(Waiting(n))
  BY DEF KahnInv
<1>4. c \in ToSet(queue) /\ c \in Vertex /\ c \notin Done /\ Waiting(c) = {}
  <2>1. c = queue[1] /\ 1 \in DOMAIN queue
    BY <1>1, <1>2, <1>3
  <2>2. c \in ToSet(queue)
    BY <2>1 DEF ToSet
  <2> QED BY <1>3, <2>2
<1>5. ASSUME NEW n \in Vertex
      PROVE  IsFiniteSet(Waiting(n)) /\ Cardinality(Waiting(n)) \in Nat
             /\ (c \in Waiting(n) <=> <<c, n>> \in arcs)
  BY <1>4, SourcesAreFew DEF Waiting, Sources
<1>6. ASSUME NEW n \in Vertex
      PROVE  n \in Ready(c) <=> Waiting(n) = {c}
  <2>1. n \in Ready(c) <=> c \in Waiting(n) /\ Cardinality(Waiting(n)) = 1
    BY <1>3, <1>5 DEF Ready
  <2>2. Cardinality(Waiting(n)) = 1 <=> \E x : Waiting(n) = {x}
    BY <1>5, FS_Singleton
  <2> QED BY <2>1, <2>2
<1>7. PICK z \in Seq(Vertex) : z = Sorted(Ready(c)) /\ Distinct(z) /\ ToSet(z) = Ready(c)
  <2>1. Ready(c) \in SUBSET Vertex
    BY DEF Ready
  <2> QED BY <2>1, SortedIsTheSet
<1>8. Ready(c) \cap (Done \cup ToSet(queue)) = {} /\ Ready(c) \subseteq Vertex
  BY <1>3, <1>6 DEF Ready
<1>9. /\ queue' \in Seq(Vertex) /\ Distinct(queue)'
      /\ ToSet(queue)' = (ToSet(queue) \ {c}) \cup Ready(c)
  <2>1. PICK q : q = queue'
    OBVIOUS
  <2>2. q = Tail(queue) \o z
    BY <1>2, <1>7, <2>1
  <2>3. ToSet(queue) \cap ToSet(z) = {}
    BY <1>7, <1>8
  <2>4. q \in Seq(Vertex) /\ Distinct(q) /\ ToSet(q) = (ToSet(queue) \ {c}) \cup ToSet(z)
    BY <1>1, <1>2, <1>3, <1>7, <2>2, <2>3, QueueMoves
  <2>5. Distinct(queue)' <=> Distinct(q)
    BY <2>1 DEF Distinct
  <2>6. ToSet(queue)' = ToSet(q)
    BY <2>1 DEF ToSet
  <2> QED BY <1>7, <2>1, <2>4, <2>5, <2>6
<1>10. PICK o \in Seq(Vertex) :
         /\ order' = o /\ Distinct(o) /\ ToSet(o) = Done \cup {c}
         /\ Len(o) = Len(order) + 1 /\ o[Len(order) + 1] = c
         /\ \A i \in 1 .. Len(order) : o[i] = order[i]
  <2>1. PICK o : o = Append(order, c)
    OBVIOUS
  <2>2. /\ o \in Seq(Vertex) /\ Distinct(o) /\ ToSet(o) = ToSet(order) \cup {c}
        /\ Len(o) = Len(order) + 1 /\ o[Len(order) + 1] = c
        /\ \A i \in 1 .. Len(order) : o[i] = order[i]
    BY <1>3, <1>4, <2>1, OrderGrows DEF Done
  <2> QED BY <1>2, <2>1, <2>2 DEF Done
<1>11. Distinct(order)' /\ Done' = Done \cup {c}
  BY <1>10 DEF Distinct, Done, ToSet
<1>12. Done' \cap ToSet(queue)' = {}
  BY <1>3, <1>4, <1>8, <1>9, <1>11
<1>13. \A n \in Vertex : Waiting(n)' = Waiting(n) \ {c}
  BY <1>2, <1>11 DEF Waiting, Sources
<1>14. degree' = [n \in Vertex |-> Cardinality(Waiting(n)')]
  <2>1. ASSUME NEW n \in Vertex
        PROVE  Cardinality(Waiting(n)') = IF <<c, n>> \in arcs THEN degree[n] - 1 ELSE degree[n]
    <3>1. Cardinality(Waiting(n) \ {c}) = IF c \in Waiting(n) THEN Cardinality(Waiting(n)) - 1
                                          ELSE Cardinality(Waiting(n))
      BY <1>5, FS_RemoveElement
    <3> QED BY <1>3, <1>5, <1>13, <3>1
  <2> QED BY <1>2, <2>1
<1>15. Done' \cup ToSet(queue)' = {n \in Vertex : Waiting(n)' = {}}
  <2>1. \A n \in Vertex : Waiting(n)' = {} <=> Waiting(n) = {} \/ n \in Ready(c)
    BY <1>6, <1>13
  <2> QED BY <1>3, <1>4, <1>8, <1>9, <1>11, <2>1
<1>16. ASSUME NEW j \in 1 .. Len(o), NEW s \in Sources(o[j])
       PROVE  \E i \in 1 .. j - 1 : o[i] = s
  <2>1. Len(order) \in Nat /\ DOMAIN order = 1 .. Len(order)
    BY <1>3
  <2>2. CASE j \in 1 .. Len(order)
    <3>1. PICK i \in 1 .. j - 1 : order[i] = s
      BY <1>10, <1>16, <2>2 DEF KahnInv, SoFarInOrder
    <3>2. i \in 1 .. Len(order)
      BY <2>1, <2>2
    <3> QED BY <1>10, <3>1, <3>2
  <2>3. CASE j = Len(order) + 1
    <3>1. s \in Done
      BY <1>4, <1>10, <1>16, <2>3 DEF Waiting
    <3>2. PICK i \in 1 .. Len(order) : order[i] = s
      BY <2>1, <3>1 DEF Done, ToSet
    <3>3. i \in 1 .. j - 1
      BY <2>1, <2>3
    <3> QED BY <1>10, <3>2, <3>3
  <2> QED BY <1>10, <2>1, <2>2, <2>3
<1>17. SoFarInOrder'
  <2>1. \A v : Sources(v)' = Sources(v)
    BY <1>2 DEF Sources
  <2> QED BY <1>10, <1>16, <2>1 DEF SoFarInOrder
<1>18. outcome' = "sorting"
  BY <1>2 DEF KahnInv
<1> QED
  BY <1>2, <1>3, <1>9, <1>10, <1>11, <1>12, <1>14, <1>15, <1>17, <1>18 DEF KahnInv

LEMMA KahnInvNext == KahnInv /\ [OrderNext]_orderVars => KahnInv'
<1> SUFFICES ASSUME KahnInv, [OrderNext]_orderVars PROVE KahnInv'
  OBVIOUS
<1>1. CASE SortReturns
  BY <1>1 DEF SortReturns, KahnInv, Done, Waiting, Sources, SoFarInOrder
<1>2. CASE UNCHANGED orderVars
  BY <1>2 DEF orderVars, KahnInv, Done, Waiting, Sources, SoFarInOrder
<1> QED BY <1>1, <1>2, PopsKeeps DEF OrderNext

LEMMA KahnAlways == OrderSpec => []KahnInv
BY OrderStarts, KahnInvNext, PTL DEF OrderSpec

Less == {ss \in Nat \X Nat : ss[1] < ss[2]}

LEMMA LeastExists ==
  ASSUME NEW T \in SUBSET Nat, T # {}
  PROVE  \E x \in T : \A y \in T : x <= y
<1>1. IsWellFoundedOn(Less, Nat)
  BY NatLessThanWellFounded DEF OpToRel, Less
<1>2. \E x \in T : \A y \in T : ~(<<y, x>> \in Less)
  BY <1>1, WFMin, Zenon
<1>3. PICK x \in T : \A y \in T : ~(<<y, x>> \in Less)
  BY <1>2
<1>4. \A y \in T : x \in Nat /\ y \in Nat /\ ~(y < x)
  BY <1>3 DEF Less
<1> QED BY <1>4

\* An order of as many nodes as there are has them all.
LEMMA FullOrder ==
  ASSUME KahnInv
  PROVE  Len(order) = Size <=> Done = Vertex
<1>1. /\ order \in [1 .. Len(order) -> Done] /\ Done \subseteq Vertex /\ Len(order) \in Nat
      /\ \A v \in Done : \E i \in 1 .. Len(order) : order[i] = v
  BY DEF KahnInv, Done, ToSet
<1>2. order \in Bijection(1 .. Len(order), Done)
  BY <1>1 DEF KahnInv, Distinct, Bijection, Injection, Surjection, IsInjective
<1>3. IsFiniteSet(Done) /\ Cardinality(Done) = Len(order)
  <2>1. ExistsBijection(1 .. Len(order), Done)
    BY <1>2 DEF ExistsBijection
  <2> QED BY <1>1, <2>1, FS_CountingElements, VerticesAreFew, FS_Subset
<1> QED BY <1>1, <1>3, VerticesAreFew, FS_Subset

LEMMA SortedMeansAcyclic ==
  ASSUME KahnInv, Len(order) = Size
  PROVE  /\ \A i, j \in 1 .. Size : <<order[i], order[j]>> \in arcs => i < j
         /\ ~Cyclic
<1>1. /\ Done = Vertex /\ Distinct(order) /\ DOMAIN order = 1 .. Size /\ order \in Seq(Vertex)
      /\ Size \in Nat
      /\ \A j \in 1 .. Size : \A s \in Sources(order[j]) : \E i \in 1 .. j - 1 : order[i] = s
  BY FullOrder, VerticesAreFew DEF KahnInv, SoFarInOrder
<1>2. ASSUME NEW i \in 1 .. Size, NEW j \in 1 .. Size, <<order[i], order[j]>> \in arcs
      PROVE  i < j
  <2>1. order[i] \in Sources(order[j])
    BY <1>1, <1>2 DEF Sources
  <2>2. PICK k \in 1 .. j - 1 : order[k] = order[i]
    BY <1>1, <2>1
  <2>3. k \in 1 .. Size /\ k < j
    BY <1>1
  <2>4. k = i
    BY <1>1, <2>2, <2>3 DEF Distinct
  <2> QED BY <2>3, <2>4
<1>3. ASSUME NEW S \in SUBSET Vertex, S # {}
      PROVE  \E n \in S : Sources(n) \cap S = {}
  <2>1. PICK T \in SUBSET Nat : T = {i \in 1 .. Size : order[i] \in S}
    <3>1. {i \in 1 .. Size : order[i] \in S} \in SUBSET Nat
      BY <1>1
    <3> QED BY <3>1
  <2>2. T # {}
    BY <1>1, <1>3, <2>1 DEF Done, ToSet
  <2>3. PICK x \in T : \A y \in T : x <= y
    BY <2>2, LeastExists
  <2>4. ASSUME NEW s \in Sources(order[x]) \cap S
        PROVE  FALSE
    <3>1. PICK i \in 1 .. x - 1 : order[i] = s
      BY <1>1, <2>1, <2>4
    <3>2. i \in T /\ i < x
      BY <1>1, <2>1, <2>4, <3>1
    <3> QED BY <2>3, <3>2
  <2> QED BY <2>1, <2>4
<1> QED BY <1>2, <1>3 DEF Cyclic

LEMMA RefusedMeansCyclic ==
  ASSUME KahnInv, queue = <<>>, Len(order) # Size
  PROVE  Cyclic
<1>1. PICK S \in SUBSET Vertex : S = Vertex \ Done
  OBVIOUS
<1>2. S # {}
  <2>1. Done \subseteq Vertex
    BY DEF KahnInv
  <2> QED BY <1>1, <2>1, FullOrder
<1>3. Done = {n \in Vertex : Waiting(n) = {}}
  BY DEF KahnInv, ToSet
<1>4. ASSUME NEW n \in S
      PROVE  Sources(n) \cap S # {}
  <2>1. PICK s : s \in Sources(n) /\ s \notin Done
    BY <1>1, <1>3 DEF Waiting
  <2> QED BY <1>1, <2>1 DEF Sources
<1> QED BY <1>2, <1>4 DEF Cyclic

LEMMA DistinctIsShort ==
  ASSUME NEW s \in Seq(Vertex), Distinct(s)
  PROVE  s \in BoundedSeq(Vertex, Size)
<1>1. s \in [1 .. Len(s) -> Vertex] /\ Len(s) \in Nat
  OBVIOUS
<1>2. s \in Injection(1 .. Len(s), Vertex)
  BY <1>1 DEF Distinct, Injection, IsInjective
<1>3. Cardinality(1 .. Len(s)) <= Size
  BY <1>2, FS_Injection, VerticesAreFew
<1>4. Len(s) \in 0 .. Size
  <2>1. Cardinality(1 .. Len(s)) = Len(s)
    <3>1. PICK n \in Nat : n = Len(s)
      BY <1>1
    <3>2. Cardinality(1 .. n) = n
      BY FS_Interval
    <3> QED BY <3>1, <3>2
  <2> QED BY <1>1, <1>3, <2>1, VerticesAreFew
<1> QED BY <1>1, <1>4 DEF BoundedSeq, SeqOf

LEMMA KahnIsTyped == KahnInv => OTypeOK
<1> SUFFICES ASSUME KahnInv PROVE OTypeOK
  OBVIOUS
<1>1. degree \in [Vertex -> 0 .. Size]
  <2>1. ASSUME NEW n \in Vertex
        PROVE  Cardinality(Waiting(n)) \in 0 .. Size
    BY SourcesAreFew, VerticesAreFew, FS_Subset DEF Waiting
  <2> QED BY <2>1 DEF KahnInv
<1>2. queue \in BoundedSeq(Vertex, Size) /\ order \in BoundedSeq(Vertex, Size)
  BY DistinctIsShort DEF KahnInv
<1> QED BY <1>1, <1>2 DEF KahnInv, OTypeOK

\* The degrees stay between nothing and the number of nodes, the queue and the order no
\* longer than that (_topological_sort).
THEOREM OrderStaysTyped == OrderSpec => []OTypeOK
BY KahnIsTyped, KahnAlways, PTL

\* The nodes of a recipe are put in an order with every node once and no edge against it,
\* and a recipe is refused exactly when it has a cycle (_topological_sort).
THEOREM KahnSorts == OrderSpec => []SortsOrRefuses
<1>1. KahnInv => SortsOrRefuses
  <2> SUFFICES ASSUME KahnInv PROVE SortsOrRefuses
    OBVIOUS
  <2>1. outcome # "sorting" =>
          queue = <<>> /\ (outcome = "cycle" <=> Len(order) # Size)
        /\ (outcome = "sorted" => Len(order) = Size)
    BY DEF KahnInv
  <2>2. RefusedIfCyclic
    BY <2>1, SortedMeansAcyclic, RefusedMeansCyclic DEF RefusedIfCyclic
  <2>3. ASSUME outcome = "sorted"
        PROVE  /\ ToSet(order) = Vertex /\ IsInjective(order)
               /\ \A i, j \in 1 .. Size : <<order[i], order[j]>> \in arcs => i < j
    <3>1. Len(order) = Size
      BY <2>1, <2>3
    <3>2. IsInjective(order)
      BY DEF KahnInv, Distinct, IsInjective
    <3> QED BY <3>1, <3>2, FullOrder, SortedMeansAcyclic DEF Done
  <2> QED BY <2>2, <2>3 DEF SortsOrRefuses, OrderIsTopological
<1> QED BY <1>1, KahnAlways, PTL
=============================================================================
