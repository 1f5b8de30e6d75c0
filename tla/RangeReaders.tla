---------------------------- MODULE RangeReaders ----------------------------
(***************************************************************************)
(* The pool of threads a layer read is spread over (_RangeReaders in       *)
(* src/src/souplite/utils/async_disk_source.py).  AsyncDiskSource's reader *)
(* calls run() for one layer after another, until a run raises; close()    *)
(* may be called by another thread at any moment, also in the middle of a  *)
(* run, because the source's own close waits for its reader only 10 s.     *)
(*                                                                         *)
(* run() and close() meet the workers at a queue.Queue, each put and get   *)
(* of which is atomic; _check_workers runs under the pool's lock but not   *)
(* at one instant, a thread it has just started may die before it looks    *)
(* again, so it is two actions between which close() cannot start.         *)
(***************************************************************************)
EXTENDS Integers, Sequences

CONSTANTS
  NWorkers,         \* training.stream_read_ranges
  NParts,           \* the byte ranges of a layer (plan_ranges)
  MaxWorkerStarts,  \* _MAX_READER_STARTS
  MaxRuns           \* bound: layers read

ASSUME PoolAssumption ==
  /\ NWorkers \in Nat \ {0}
  /\ NParts \in 1 .. NWorkers
  /\ MaxWorkerStarts \in Nat \ {0}
  /\ MaxRuns \in Nat

Worker == 1 .. NWorkers
Part == 1 .. NParts
Sentinel == 0

VARIABLES
  jobs,       \* _jobs: the parts to read, and close()'s sentinels
  worker,     \* each slot's thread: its pc, and the part it is reading
  starts,     \* _starts
  outcome,    \* each part's _RangeJob of the current run
  bytes,      \* what the region holds of each part
  run,        \* the caller inside run(): its pc, and its loop variable
  result,     \* how its last run ended
  runs,       \* how many runs there were
  closer,     \* close(): "open", "sending", "closed"
  sentinels   \* sentinels close() has yet to put

poolVars == <<jobs, worker, starts, outcome, bytes, run, result, runs, closer, sentinels>>

Raised == {"failed", "closed", "unstarted", "vanished"}

RRTypeOK ==
  /\ jobs \in Seq(Part \cup {Sentinel})
  /\ worker \in [Worker -> [pc : {"born", "stillborn", "idle", "reading", "wedged", "gone"},
                            part : Part \cup {Sentinel}]]
  /\ starts \in [Worker -> 1 .. MaxWorkerStarts]
  /\ outcome \in [Part -> {"pending", "done", "failed"}]
  /\ bytes \in [Part -> {"stale", "torn", "fresh"}]
  /\ run \in [pc : {"idle", "putting", "waiting", "judging"}, at : Part]
  /\ result \in {"none", "whole"} \cup Raised
  /\ runs \in 0 .. MaxRuns
  /\ closer \in {"open", "sending", "closed"}
  /\ sentinels \in 0 .. NWorkers

Newborn == [pc |-> "born", part |-> Sentinel]

Init ==
  /\ jobs = <<>>
  /\ worker = [w \in Worker |-> Newborn]
  /\ starts = [w \in Worker |-> 1]
  /\ outcome = [p \in Part |-> "pending"]
  /\ bytes = [p \in Part |-> "stale"]
  /\ run = [pc |-> "idle", at |-> 1]
  /\ result = "none"
  /\ runs = 0
  /\ closer = "open"
  /\ sentinels = 0

closed == closer # "open"

Alive(w) == worker[w].pc \in {"born", "idle", "reading", "wedged"}
Entered(w) == worker[w].pc \notin {"born", "stillborn"}
NeverEntered == {w \in Worker : ~Entered(w)}

-----------------------------------------------------------------------------
(* run()                                                                   *)

\* The reader thread does not survive a run that raised.
RunBegins ==
  /\ run.pc = "idle"
  /\ result \notin Raised
  /\ runs < MaxRuns
  /\ run' = [pc |-> "putting", at |-> 1]
  /\ runs' = runs + 1
  /\ outcome' = [p \in Part |-> "pending"]
  /\ bytes' = [p \in Part |-> "stale"]
  /\ UNCHANGED <<jobs, worker, starts, result, closer, sentinels>>

RunPuts ==
  /\ run.pc = "putting"
  /\ jobs' = Append(jobs, run.at)
  /\ run' = IF run.at < NParts THEN [run EXCEPT !.at = @ + 1]
                               ELSE [pc |-> "waiting", at |-> 1]
  /\ UNCHANGED <<worker, starts, outcome, bytes, result, runs, closer, sentinels>>

\* Mutant of Awaited: the run does not wait for the workers.
AwaitedNever(p) == TRUE

\* outcome.done: the worker has read the part, or failed to.
Awaited(p) == outcome[p] # "pending"

RunAwaits ==
  /\ run.pc = "waiting"
  /\ Awaited(run.at)
  /\ IF run.at < NParts
       THEN run' = [run EXCEPT !.at = @ + 1] /\ UNCHANGED result
       ELSE /\ run' = [pc |-> "idle", at |-> 1]
            /\ result' = IF \E p \in Part : outcome[p] = "failed" THEN "failed" ELSE "whole"
  /\ UNCHANGED <<jobs, worker, starts, outcome, bytes, runs, closer, sentinels>>

Restartable(w) == ~closed /\ ~Alive(w) /\ ~Entered(w) /\ starts[w] < MaxWorkerStarts

Serving == \E w \in Worker : Alive(w)

\* Mutant of WorthAnotherPoll: the first death is final.
NeverWorthAnotherPoll == FALSE

\* A worker the check has just started may be dead again.
WorthAnotherPoll == ~closed /\ \E w \in NeverEntered : starts[w] < MaxWorkerStarts

Blame ==
  CASE closed -> "closed"
    [] ~closed /\ NeverEntered # {} -> "unstarted"
    [] ~closed /\ NeverEntered = {} -> "vanished"

\* The wait timed out: _check_workers takes the lock and starts new threads.
RunPolls ==
  /\ run.pc = "waiting"
  /\ ~Awaited(run.at)
  /\ run' = [run EXCEPT !.pc = "judging"]
  /\ worker' = [w \in Worker |-> IF Restartable(w) THEN Newborn ELSE worker[w]]
  /\ starts' = [w \in Worker |-> IF Restartable(w) THEN starts[w] + 1 ELSE starts[w]]
  /\ UNCHANGED <<jobs, outcome, bytes, result, runs, closer, sentinels>>

\* ... and looks at them again before it releases it.
RunJudges ==
  /\ run.pc = "judging"
  /\ IF Serving \/ WorthAnotherPoll
       THEN run' = [run EXCEPT !.pc = "waiting"] /\ UNCHANGED result
       ELSE run' = [pc |-> "idle", at |-> 1] /\ result' = Blame
  /\ UNCHANGED <<jobs, worker, starts, outcome, bytes, runs, closer, sentinels>>

-----------------------------------------------------------------------------
(* The workers.                                                            *)

Works(w, pc, part) == worker' = [worker EXCEPT ![w] = [pc |-> pc, part |-> part]]

WorkerEnters(w) ==
  /\ worker[w].pc = "born"
  /\ Works(w, "idle", Sentinel)
  /\ UNCHANGED <<jobs, starts, outcome, bytes, run, result, runs, closer, sentinels>>

\* A tracer kills the thread in bootstrap, before its target runs.
WorkerDiesUnborn(w) ==
  /\ worker[w].pc = "born"
  /\ Works(w, "stillborn", Sentinel)
  /\ UNCHANGED <<jobs, starts, outcome, bytes, run, result, runs, closer, sentinels>>

WorkerTakes(w) ==
  /\ worker[w].pc = "idle"
  /\ jobs # <<>>
  /\ Head(jobs) # Sentinel
  /\ jobs' = Tail(jobs)
  /\ Works(w, "reading", Head(jobs))
  /\ bytes' = [bytes EXCEPT ![Head(jobs)] = "torn"]
  /\ UNCHANGED <<starts, outcome, run, result, runs, closer, sentinels>>

WorkerLeaves(w) ==
  /\ worker[w].pc = "idle"
  /\ jobs # <<>>
  /\ Head(jobs) = Sentinel
  /\ jobs' = Tail(jobs)
  /\ Works(w, "gone", Sentinel)
  /\ UNCHANGED <<starts, outcome, bytes, run, result, runs, closer, sentinels>>

WorkerReads(w) ==
  /\ worker[w].pc = "reading"
  /\ Works(w, "idle", Sentinel)
  /\ bytes' = [bytes EXCEPT ![worker[w].part] = "fresh"]
  /\ outcome' = [outcome EXCEPT ![worker[w].part] = "done"]
  /\ UNCHANGED <<jobs, starts, run, result, runs, closer, sentinels>>

\* The shard changed on disk, a short read, an I/O error.
WorkerFails(w) ==
  /\ worker[w].pc = "reading"
  /\ Works(w, "idle", Sentinel)
  /\ outcome' = [outcome EXCEPT ![worker[w].part] = "failed"]
  /\ UNCHANGED <<jobs, starts, bytes, run, result, runs, closer, sentinels>>

\* The read never comes back from the kernel.
WorkerWedges(w) ==
  /\ worker[w].pc = "reading"
  /\ Works(w, "wedged", worker[w].part)
  /\ UNCHANGED <<jobs, starts, outcome, bytes, run, result, runs, closer, sentinels>>

-----------------------------------------------------------------------------
(* close()                                                                 *)

\* Mutant of SentinelsOwed: one slot is forgotten.
OneSentinelShort == NWorkers - 1

\* One sentinel per slot, whatever became of the slot's thread.
SentinelsOwed == NWorkers

CloseBegins ==
  /\ closer = "open"
  /\ run.pc # "judging"
  /\ closer' = "sending"
  /\ sentinels' = SentinelsOwed
  /\ UNCHANGED <<jobs, worker, starts, outcome, bytes, run, result, runs>>

CloseSends ==
  /\ closer = "sending"
  /\ sentinels > 0
  /\ jobs' = Append(jobs, Sentinel)
  /\ sentinels' = sentinels - 1
  /\ UNCHANGED <<worker, starts, outcome, bytes, run, result, runs, closer>>

\* Every thread has been joined, or the deadline has passed.
CloseEnds ==
  /\ closer = "sending"
  /\ sentinels = 0
  /\ closer' = "closed"
  /\ UNCHANGED <<jobs, worker, starts, outcome, bytes, run, result, runs, sentinels>>

-----------------------------------------------------------------------------
RunStep == RunPuts \/ RunAwaits \/ RunPolls \/ RunJudges

WorkerStep(w) ==
  \/ WorkerEnters(w) \/ WorkerDiesUnborn(w)
  \/ WorkerTakes(w) \/ WorkerLeaves(w)
  \/ WorkerReads(w) \/ WorkerFails(w) \/ WorkerWedges(w)

CloseStep == CloseSends \/ CloseEnds

Next ==
  \/ RunBegins \/ RunStep
  \/ \E w \in Worker : WorkerStep(w)
  \/ CloseBegins \/ CloseStep

Spec == Init /\ [][Next]_poolVars

\* Threads are scheduled; a read ends, fails or is stuck for good.  Nobody has
\* to read another layer or to close the pool.
FairSpec ==
  /\ Spec
  /\ WF_poolVars(RunStep)
  /\ \A w \in Worker : WF_poolVars(WorkerStep(w))
  /\ WF_poolVars(CloseStep)

-----------------------------------------------------------------------------
(* Properties.                                                             *)

\* When run() has returned or raised nobody is inside a read of its layer any
\* more: the reader may publish the region, and the next run may reuse it.
\* run() raises out of its poll only once no worker is alive.
QuietBetweenRuns ==
  run.pc = "idle" => \A w \in Worker : worker[w].pc \notin {"reading", "wedged"}

\* The error names the cause: "closed" only for a pool its owner closed,
\* "failed to start" only when every slot has used up its starts and none of
\* its threads ever ran, and "exited without being closed" never (_check_workers
\* keeps that one as a backstop).
BlameIsRight ==
  /\ result = "closed" => closed
  /\ result = "unstarted" =>
       \A w \in Worker : worker[w].pc = "stillborn" /\ starts[w] = MaxWorkerStarts
  /\ result # "vanished"

\* Between runs, and whenever one raises, the pool is what its owner takes it for.
PoolIsSound == RRTypeOK /\ QuietBetweenRuns /\ BlameIsRight

\* A job queued behind close()'s sentinels, and a job put before any worker has
\* survived its start, end in an error rather than a reader parked forever: run()
\* ends, unless the drive does not.
RunEnds ==
  run.pc # "idle" ~> (run.pc = "idle" \/ \E w \in Worker : worker[w].pc = "wedged")

\* After close() every worker leaves, the ones restarted before it included; a
\* read that is stuck in the kernel outlives it.
WorkersLeave ==
  closed ~> \A w \in Worker : worker[w].pc \in {"gone", "stillborn", "wedged"}

\* Neither run() nor close() waits for the other for ever.
PoolIsLive == RunEnds /\ WorkersLeave

\* A layer read is either whole or an error.
LR == INSTANCE LayerRead WITH
  status <- IF run.pc # "idle" THEN "reading"
            ELSE IF result \in Raised THEN "refused" ELSE result,
  arrived <- {p \in Part : bytes[p] = "fresh"}

ReadsWholeOrRefuses == LR!Spec
=============================================================================
