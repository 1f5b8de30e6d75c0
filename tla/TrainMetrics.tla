---------------------------- MODULE TrainMetrics ----------------------------
(***************************************************************************)
(* The live metrics of a training in the web UI (ui/app.py): a generator   *)
(* polls the run's rows in the experiment tracker, sends those of steps it *)
(* has not sent yet, and then looks whether the training still runs.  The  *)
(* training writes a row for every on_log call, an evaluation's under the  *)
(* step of the training row before it.                                     *)
(***************************************************************************)
EXTENDS Integers, Sequences, FiniteSets, FiniteSetsExt

CONSTANTS
  MaxPolls, \* max_polls
  MaxRows   \* bound: rows the training writes

ASSUME MetricsAssumption == MaxPolls \in Nat \ {0} /\ MaxRows \in Nat

VARIABLES
  trainer,  \* the process: running or exited
  rows,     \* the step of each row of the run
  stream,   \* the generator
  \* history:
  sent,     \* the rows it has sent, by their place
  polled    \* how many rows there were when it last polled

metricsVars == <<trainer, rows, stream, sent, polled>>

MetricsTypeOK ==
  /\ trainer \in {"running", "exited"}
  /\ Len(rows) <= MaxRows /\ \A i \in DOMAIN rows : rows[i] \in 0 .. MaxRows
  /\ stream \in [pc : {"polling", "checking", "over"}, lastStep : -1 .. MaxRows,
                 idle : 0 .. MaxPolls]
  /\ sent \subseteq 1 .. polled /\ polled \in 0 .. Len(rows)

MetricsInit ==
  /\ trainer = "running"
  /\ rows = <<>>
  /\ stream = [pc |-> "polling", lastStep |-> -1, idle |-> 0]
  /\ sent = {} /\ polled = 0

\* A training log is of a later step; an evaluation's is of the same one.
LogsAt(step) ==
  /\ trainer = "running" /\ Len(rows) < MaxRows
  /\ rows' = Append(rows, step)
  /\ UNCHANGED <<trainer, stream, sent, polled>>

Latest == IF rows = <<>> THEN 0 ELSE rows[Len(rows)]
Logs == LogsAt(Latest + 1)
LogsEvaluation == rows # <<>> /\ LogsAt(Latest)

TrainerExits ==
  /\ trainer = "running"
  /\ trainer' = "exited"
  /\ UNCHANGED <<rows, stream, sent, polled>>

-----------------------------------------------------------------------------

\* Mutant of NewRows: those of the last step once more.
NewRowsAgain == {i \in DOMAIN rows : rows[i] >= stream.lastStep}

\* new_metrics, by place.
NewRows == {i \in DOMAIN rows : rows[i] > stream.lastStep}

LastSent == Max({rows[i] : i \in NewRows})

IdlePolls == stream.idle + 1

Polls ==
  /\ stream.pc = "polling"
  /\ stream' = IF NewRows # {}
                 THEN [stream EXCEPT !.pc = "checking", !.lastStep = LastSent, !.idle = 0]
                 ELSE [stream EXCEPT !.pc = "checking", !.idle = IdlePolls]
  /\ sent' = sent \cup NewRows
  /\ polled' = Len(rows)
  /\ UNCHANGED <<trainer, rows>>

\* Nothing new since the training ended, or for a few polls.
Ends == (trainer = "exited" /\ stream.idle >= 1) \/ stream.idle >= MaxPolls

Checks ==
  /\ stream.pc = "checking"
  /\ stream' = [stream EXCEPT !.pc = IF Ends THEN "over" ELSE "polling"]
  /\ UNCHANGED <<trainer, rows, sent, polled>>

MetricsNext == Logs \/ LogsEvaluation \/ TrainerExits \/ Polls \/ Checks

\* The generator goes on for as long as its client takes.
MetricsFairness == WF_metricsVars(Polls \/ Checks)

MetricsSpec == MetricsInit /\ [][MetricsNext]_metricsVars /\ MetricsFairness

-----------------------------------------------------------------------------
(* Properties.                                                             *)

\* Of all the rows a poll found, the first of each step has been sent.
StepsArrive ==
  \A i \in 1 .. polled : (\A j \in 1 .. i - 1 : rows[j] # rows[i]) => i \in sent

\* No row is sent twice.
NoRowTwice == [][Polls => NewRows \cap sent = {}]_metricsVars

\* The stream ends once the training has ended.
StreamEnds == trainer = "exited" ~> stream.pc = "over"

\* What the page may rely on: each step's first row once, and an end.
StepsArriveOnce == []StepsArrive /\ NoRowTwice /\ StreamEnds

(* What the documentation says and the code does not do.                   *)

\* New metrics are streamed as they are logged: all that a poll finds.
RowsArrive == \A i \in 1 .. polled : i \in sent
=============================================================================
