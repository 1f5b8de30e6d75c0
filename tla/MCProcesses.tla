----------------------------- MODULE MCProcesses ----------------------------
(***************************************************************************)
(* What waits for something else, on instances small enough for liveness:  *)
(* the KL controller for its signal, signal handlers, the web UI's streams *)
(* for a training's output, the MCP server and the Lambda submission for   *)
(* their children, the loop daemon for its next turn.  No two of them      *)
(* share a variable, so each behaviour is of one of them, whichever it is. *)
(***************************************************************************)
EXTENDS KlControl, GracefulSave, TrainLog, TrainMetrics, McpExecution, LambdaRun,
        LoopDaemon

VARIABLE subject   \* the one that acts

vars == <<subject, klVars, graceVars, trainLogVars, metricsVars, mcpVars, lambdaVars, loopVars>>

\* Where one that does not act could start in several states, one of them is enough.
Init ==
  /\ subject \in {"kl", "grace", "log", "metrics", "mcp", "lambda", "loop"}
  /\ KlInit
  /\ GraceInit
  /\ LogInit
  /\ MetricsInit
  /\ McpInit
  /\ LambdaInit
  /\ LoopInit
  /\ subject = "kl" \/ live = NoCoefficient
  /\ subject = "mcp" \/ \A r \in Run : plan[r].at = (CHOOSE s \in Server : TRUE)

\* A step of s: the others stay where they start.
Only(s) ==
  /\ subject = s /\ UNCHANGED subject
  /\ IF s = "kl" THEN TRUE ELSE UNCHANGED klVars
  /\ IF s = "grace" THEN TRUE ELSE UNCHANGED graceVars
  /\ IF s = "log" THEN TRUE ELSE UNCHANGED trainLogVars
  /\ IF s = "metrics" THEN TRUE ELSE UNCHANGED metricsVars
  /\ IF s = "mcp" THEN TRUE ELSE UNCHANGED mcpVars
  /\ IF s = "lambda" THEN TRUE ELSE UNCHANGED lambdaVars
  /\ IF s = "loop" THEN TRUE ELSE UNCHANGED loopVars

KlActs == Only("kl") /\ KlNext
GraceActs == Only("grace") /\ GraceNext
LogActs == Only("log") /\ LogNext
MetricsActs == Only("metrics") /\ MetricsNext
McpActs == Only("mcp") /\ McpNext
LambdaActs == Only("lambda") /\ LambdaNext
LoopActs == Only("loop") /\ LoopNext

Next ==
  \/ KlActs
  \/ GraceActs
  \/ LogActs
  \/ MetricsActs
  \/ McpActs
  \/ LambdaActs
  \/ LoopActs

\* Each is as fair as its own specification says, while it is the one that acts.
Spec ==
  /\ Init /\ [][Next]_vars
  /\ WF_klVars(subject = "kl" /\ KlNext)
  /\ WF_graceVars(subject = "grace" /\ MainThread)
  /\ SF_graceVars(subject = "grace" /\ TrainerSteps)
  /\ \A t \in Training : WF_trainLogVars(subject = "log" /\ Worker(t))
  /\ \A r \in Reader : WF_trainLogVars(subject = "log" /\ Serves(r))
  /\ WF_metricsVars(subject = "metrics" /\ (Polls \/ Checks))
  /\ \A s \in Server : WF_mcpVars(subject = "mcp" /\ ServerStep(s))
  /\ \A r \in Run : WF_mcpVars(subject = "mcp" /\ ChildStep(r))
  /\ WF_lambdaVars(subject = "lambda" /\ Parent)
  /\ WF_lambdaVars(subject = "lambda" /\ Controller)
  /\ WF_lambdaVars(subject = "lambda" /\ Provider)
  /\ \A p \in Daemon : WF_loopVars(subject = "loop" /\ DaemonStep(p))

\* Each keeps its types.
ProcessesTyped ==
  /\ KTypeOK /\ GTypeOK /\ LogTypeOK /\ MetricsTypeOK /\ McpTypeOK
  /\ LambdaTypeOK /\ LDTypeOK
=============================================================================
