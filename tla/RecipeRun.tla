----------------------------- MODULE RecipeRun -----------------------------
(***************************************************************************)
(* A recipe run (utils/recipe_run.py): the nodes of a DAG are executed in  *)
(* topological order; a finished node leaves its rows in a sidecar file,   *)
(* then its name in the checkpoint.  A run may fail in a node or die at    *)
(* any point, and the next one either resumes, taking the finished nodes'  *)
(* rows from the sidecars, or begins afresh in the same directory.         *)
(* A row stands for the seed row it was made from; what a node keeps of    *)
(* its input is arbitrary.                                                 *)
(***************************************************************************)
EXTENDS Integers, FiniteSets

CONSTANTS
  N,        \* nodes, numbered in topological order
  Edges,    \* <<predecessor, node>>
  Samplers, \* nodes that also publish their rows in a file of their own
  Row

Node == 1 .. N

ASSUME RecipeAssumption ==
  /\ N \in Nat \ {0}
  /\ Edges \subseteq {e \in Node \X Node : e[1] < e[2]}
  /\ Samplers \subseteq Node

VARIABLES
  sidecar,    \* .node-<name>.jsonl; a missing file reads as one without rows
  published,  \* <sampler>.jsonl
  checkpoint, \* .checkpoint.json; so does a missing one
  run,        \* the run in progress
  \* history:
  given,      \* what a finished node was given
  produced,   \* what a finished node made of it
  unsaved     \* finished nodes whose sidecar was not written

rowFiles == <<sidecar, published>>
runHistory == <<given, produced, unsaved>>
recipeVars == <<sidecar, published, checkpoint, run, given, produced, unsaved>>

Rows == SUBSET Row
Predecessors(n) == {p \in Node : <<p, n>> \in Edges}
Seeds == {n \in Node : Predecessors(n) = {}}
Union(f, S) == UNION {f[p] : p \in S}
Nothing == [n \in Node |-> {}]
RunOver == [pc |-> "over", at |-> 0, completed |-> {}, outputs |-> Nothing, result |-> {}]

QTypeOK ==
  /\ sidecar \in [Node -> Rows] /\ published \in [Samplers -> Rows]
  /\ checkpoint \in [status : {"none", "running", "failed", "completed"}, completed : SUBSET Node]
  /\ run \in [pc : {"over", "next", "persisting", "marking"}, at : 0 .. N + 1,
              completed : SUBSET Node, outputs : [Node -> Rows], result : Rows]
  /\ given \in [Node -> Rows] /\ produced \in [Node -> Rows] /\ unsaved \subseteq Node

RecipeInit ==
  /\ sidecar = Nothing
  /\ published = [s \in Samplers |-> {}]
  /\ checkpoint = [status |-> "none", completed |-> {}]
  /\ run = RunOver
  /\ given = Nothing /\ produced = Nothing /\ unsaved = {}

-----------------------------------------------------------------------------
Saved(status, completed) == checkpoint' = [status |-> status, completed |-> completed]

\* The nodes the new run will skip; none for a fresh run, or if the file cannot be read.
Skipped(resume) == IF resume THEN checkpoint.completed ELSE {}

Starts(resume) ==
  /\ run.pc = "over"
  /\ LET done == Skipped(resume)
         Kept(f) == [n \in Node |-> IF n \in done THEN f[n] ELSE {}]
     IN  /\ Saved("running", done)
         /\ run' = [RunOver EXCEPT !.pc = "next", !.at = 1, !.completed = done]
         /\ given' = Kept(given) /\ produced' = Kept(produced)
         /\ unsaved' = unsaved \cap done
  /\ UNCHANGED rowFiles

\* Mutant of Rehydrated: the rows are lost, as they were before the sidecars.
RehydratedNone(n) == {}

Rehydrated(n) == sidecar[n]

Skips(n) ==
  /\ run.pc = "next" /\ run.at = n /\ n \in run.completed
  /\ run' = [run EXCEPT !.outputs[n] = Rehydrated(n), !.at = n + 1]
  /\ UNCHANGED <<rowFiles, checkpoint, runHistory>>

\* A seed's rows are those of a file its owner may edit between runs.
Input(n) == IF n \in Seeds THEN Row ELSE Union(run.outputs, Predecessors(n))

\* A judge, a validator, a row's code or a provider that fails may drop any row.
Outputs(n) == IF n \in Samplers THEN {Input(n)} ELSE SUBSET Input(n)

\* What sampler s's file holds once node n has returned rows.
Published(s, n, rows) == IF s = n THEN rows ELSE published[s]

Executes(n, rows) ==
  /\ run.pc = "next" /\ run.at = n /\ n \notin run.completed
  /\ rows \in Outputs(n)
  /\ run' = [run EXCEPT !.pc = "persisting", !.result = rows]
  /\ published' = [s \in Samplers |-> Published(s, n, rows)]
  /\ UNCHANGED <<sidecar, checkpoint, runHistory>>

NodeFails(n) ==
  /\ run.pc = "next" /\ run.at = n /\ n \notin run.completed
  /\ Saved("failed", run.completed)
  /\ run' = RunOver
  /\ UNCHANGED <<rowFiles, runHistory>>

Persisted(n) == run.result

Persists(n) ==
  /\ run.pc = "persisting" /\ run.at = n
  /\ sidecar' = [sidecar EXCEPT ![n] = Persisted(n)]
  /\ run' = [run EXCEPT !.pc = "marking", !.outputs[n] = run.result]
  /\ UNCHANGED <<published, checkpoint, runHistory>>

\* An OSError is swallowed: the run goes on.
PersistFails(n) ==
  /\ run.pc = "persisting" /\ run.at = n
  /\ run' = [run EXCEPT !.pc = "marking", !.outputs[n] = run.result]
  /\ unsaved' = unsaved \cup {n}
  /\ UNCHANGED <<rowFiles, checkpoint, given, produced>>

WithFinished(n) == run.completed \cup {n}

MarksFinished(n) ==
  /\ run.pc = "marking" /\ run.at = n
  /\ Saved("running", WithFinished(n))
  /\ run' = [run EXCEPT !.pc = "next", !.at = n + 1, !.completed = @ \cup {n}, !.result = {}]
  /\ given' = [given EXCEPT ![n] = Input(n)]
  /\ produced' = [produced EXCEPT ![n] = run.result]
  /\ UNCHANGED <<rowFiles, unsaved>>

Completes ==
  /\ run.pc = "next" /\ run.at = N + 1
  /\ Saved("completed", run.completed)
  /\ run' = RunOver
  /\ UNCHANGED <<rowFiles, runHistory>>

\* Killed, or the checkpoint cannot be written, which nothing catches.
RunDies ==
  /\ run.pc # "over"
  /\ run' = RunOver
  /\ unsaved' = IF run.pc = "marking" THEN unsaved \ {run.at} ELSE unsaved
  /\ UNCHANGED <<rowFiles, checkpoint, given, produced>>

RecipeNext ==
  \/ \E resume \in BOOLEAN : Starts(resume)
  \/ \E n \in Node : Skips(n) \/ NodeFails(n) \/ Persists(n) \/ PersistFails(n) \/ MarksFinished(n)
  \/ \E n \in Node, rows \in Rows : Executes(n, rows)
  \/ Completes \/ RunDies

RecipeSpec == RecipeInit /\ [][RecipeNext]_recipeVars

-----------------------------------------------------------------------------
(* Properties.                                                             *)

FinishedNodes == checkpoint.completed

\* A node is finished only after its predecessors, so that a run that skips it has
\* been through them (topo_order and the order of the two writes).
FinishedBackToTheSeeds == \A n \in FinishedNodes : Predecessors(n) \subseteq FinishedNodes

\* The rows a later run will load for a finished node are those it produced, whatever
\* earlier runs left in the directory, unless writing them failed (sidecar before checkpoint).
SidecarIsReal == \A n \in FinishedNodes \ unsaved : sidecar[n] = produced[n]

\* If no such write failed, every finished node was given exactly what its finished
\* predecessors produced, across runs that failed, died and resumed.
InputsAreReal ==
  unsaved = {} =>
    \A n \in FinishedNodes \ Seeds : given[n] = Union(produced, Predecessors(n))

\* A finished sampler's file holds its rows: no later run has overwritten it meanwhile.
PublishedIsReal == \A s \in FinishedNodes \cap Samplers : published[s] = produced[s]

\* A resumed run goes on as if it had never stopped.
ResumeIsReal ==
  /\ FinishedBackToTheSeeds
  /\ SidecarIsReal /\ InputsAreReal /\ PublishedIsReal
=============================================================================
