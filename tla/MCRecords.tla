------------------------------ MODULE MCRecords -----------------------------
(***************************************************************************)
(* What is kept on disk and read again, by several processes or by a later *)
(* one: the loop's state, the ladder's checkpoints, a recipe's sidecars    *)
(* and the order they are made in, the tracker's rows, the lineage.  No    *)
(* two of them share a variable, so each behaviour is of one of them,      *)
(* whichever it is.                                                        *)
(***************************************************************************)
EXTENDS LoopDaemon, RollbackLadder, RecipeRun, RecipeOrder, McpExecution, Lineage, TLC

VARIABLE subject   \* the one that acts

vars == <<subject, loopVars, ladderVars, recipeVars, orderVars, mcpVars, lineageVars>>

\* Where one that does not act could start in several states, one of them is enough.
Init ==
  /\ subject \in {"loop", "ladder", "recipe", "order", "mcp", "lineage"}
  /\ LoopInit
  /\ LadderInit
  /\ RecipeInit
  /\ OrderInit
  /\ McpInit
  /\ LineageInit
  /\ subject = "order" \/ arcs = {}
  /\ subject = "mcp" \/ \A r \in Run : plan[r].at = (CHOOSE s \in Server : TRUE)

\* A step of s: the others stay where they start.
Only(s) ==
  /\ subject = s /\ UNCHANGED subject
  /\ IF s = "loop" THEN TRUE ELSE UNCHANGED loopVars
  /\ IF s = "ladder" THEN TRUE ELSE UNCHANGED ladderVars
  /\ IF s = "recipe" THEN TRUE ELSE UNCHANGED recipeVars
  /\ IF s = "order" THEN TRUE ELSE UNCHANGED orderVars
  /\ IF s = "mcp" THEN TRUE ELSE UNCHANGED mcpVars
  /\ IF s = "lineage" THEN TRUE ELSE UNCHANGED lineageVars

LoopActs == Only("loop") /\ LoopNext
LadderActs == Only("ladder") /\ LadderNext
RecipeActs == Only("recipe") /\ RecipeNext
OrderActs == Only("order") /\ OrderNext
McpActs == Only("mcp") /\ McpNext
LineageActs == Only("lineage") /\ LineageNext

Next ==
  \/ LoopActs
  \/ LadderActs
  \/ RecipeActs
  \/ OrderActs
  \/ McpActs
  \/ LineageActs

Spec == Init /\ [][Next]_vars

Symmetry == Permutations(Daemon) \cup Permutations(Entry)

\* A recipe of a seed, a node on its rows, and a sampler of both.
Triangle == {<<1, 2>>, <<1, 3>>, <<2, 3>>}

\* Each keeps its types.
RecordsTyped == LDTypeOK /\ RTypeOK /\ QTypeOK /\ OTypeOK /\ McpTypeOK /\ LTypeOK
=============================================================================
