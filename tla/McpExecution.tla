---------------------------- MODULE McpExecution ----------------------------
(***************************************************************************)
(* Background executions of the MCP server (ExecutionManager in            *)
(* src/src/souplite/mcp_server/execution.py) and their rows in the         *)
(* experiment tracker (experiment/tracker.py), one SQLite table that       *)
(* servers, the children they start and the operator's commands all write. *)
(* The machine is to run one execution at a time.  A server knows of its   *)
(* own by a slot in memory; of anybody else's, and after a crash of its    *)
(* own, only by the rows: one that is `launching`, or `running` with a pid *)
(* that is alive.                                                          *)
(*                                                                         *)
(* A statement of the tracker is a transaction, hence atomic; the steps    *)
(* of execute(), of the watcher thread and of the child are interleaved.   *)
(***************************************************************************)
EXTENDS Integers, FiniteSets

CONSTANTS
  Server,
  Run,      \* run ids; a run id is allocated with its plan's token
  Train     \* those of kind train; the child of another kind does not write its row

ASSUME McpAssumption == Train \subseteq Run

NoExecution == "no run"
ASSUME NoExecutionAssumption == NoExecution \notin Run

VARIABLES
  server,    \* each server's pc in execute() or _watch(), and _active_run_id
  plan,      \* each token: not issued, open at a server, or gone
  row,       \* status
  hasPid,    \* whether the row has a pid
  child,     \* the process
  \* history:
  reported,  \* what the child wrote last: finish_run or fail_run
  spawned,   \* how many children the run has had
  settled,   \* runs whose child a watcher saw end and recorded
  blindSpot  \* an execution began, or a row vanished, where no row could tell of a child

mcpVars == <<server, plan, row, hasPid, child, reported, spawned, settled, blindSpot>>
records == <<row, hasPid, settled>>
processes == <<child, reported, spawned>>

Terminal == {"completed", "failed"}
Status == Terminal \cup {"absent", "launching", "running", "spawn_failed", "terminated"}
ServerPc ==
  {"down", "idle", "claimed", "stuck", "recorded", "spawned", "stopping", "watching", "reaped"}
ChildPc == {"none", "starting", "registered", "training", "reported", "exited 0", "exited 1"}

McpTypeOK ==
  /\ server \in [Server -> [pc : ServerPc, run : Run \cup {NoExecution}]]
  /\ plan \in [Run -> [state : {"unissued", "open", "gone"}, at : Server]]
  /\ row \in [Run -> Status] /\ hasPid \in [Run -> BOOLEAN]
  /\ child \in [Run -> ChildPc]
  /\ reported \in [Run -> {"nothing"} \cup Terminal]
  /\ spawned \in [Run -> Nat]
  /\ settled \subseteq Run
  /\ blindSpot \in BOOLEAN
  /\ \A s \in Server : server[s].run = NoExecution <=> server[s].pc \in {"down", "idle"}
  /\ \A r \in Run : hasPid[r] => row[r] # "absent" /\ spawned[r] > 0

Idle == [pc |-> "idle", run |-> NoExecution]
Down == [pc |-> "down", run |-> NoExecution]

McpInit ==
  /\ server = [s \in Server |-> Idle]
  /\ plan \in [Run -> [state : {"unissued"}, at : Server]]
  /\ row = [r \in Run |-> "absent"] /\ hasPid = [r \in Run |-> FALSE]
  /\ child = [r \in Run |-> "none"] /\ reported = [r \in Run |-> "nothing"]
  /\ spawned = [r \in Run |-> 0]
  /\ settled = {} /\ blindSpot = FALSE

Alive(r) == child[r] \in {"starting", "registered", "training", "reported"}
Exited(r) == child[r] \in {"exited 0", "exited 1"}

Goes(s, pc) == server' = [server EXCEPT ![s].pc = pc]

\* Mutant of Frees: the slot is not given back.
FreesNothing(s) == Goes(s, "idle")

Frees(s) == server' = [server EXCEPT ![s] = Idle]

\* os.kill(pid, 0): a child its server has not waited for yet still exists.
PidIsAlive(r) ==
  \/ Alive(r)
  \/ Exited(r) /\ \E s \in Server : server[s].run = r /\ server[s].pc \in {"spawned", "watching"}

-----------------------------------------------------------------------------
(* The tracker.                                                            *)

\* Mutant of Finished: over whatever the child has reported.
FinishedAnyway(r, status) == [row EXCEPT ![r] = IF row[r] = "absent" THEN @ ELSE status]

\* finish_execution: not over the child's own report, and nothing where there is no row.
Finished(r, status) ==
  [row EXCEPT ![r] = IF row[r] \in Terminal \cup {"absent"} THEN @ ELSE status]

\* mark_running
Marked(r) ==
  /\ row' = [row EXCEPT ![r] = IF @ = "absent" THEN @ ELSE "running"]
  /\ hasPid' = [hasPid EXCEPT ![r] = row[r] # "absent"]

\* _reconcile_orphaned_run
Orphaned(r) == row[r] = "running" /\ hasPid[r] /\ ~PidIsAlive(r)

Reconciled == [r \in Run |-> IF Orphaned(r) THEN "terminated" ELSE row[r]]

\* Mutant of Occupies: a launching row has no pid and is read as free capacity.
OccupiesWithPid(r) == row[r] = "running" /\ hasPid[r] /\ PidIsAlive(r)

\* _live_persisted_run
Occupies(r) == row[r] = "launching" \/ (row[r] = "running" /\ hasPid[r] /\ PidIsAlive(r))

-----------------------------------------------------------------------------
(* The server.                                                             *)

Issue(s, r) ==
  /\ server[s].pc # "down"
  /\ plan[r].state = "unissued"
  /\ plan' = [plan EXCEPT ![r] = [state |-> "open", at |-> s]]
  /\ UNCHANGED <<server, records, processes, blindSpot>>

\* _cleanup: the token's time is over.
Expire(r) ==
  /\ plan[r].state = "open"
  /\ plan' = [plan EXCEPT ![r].state = "gone"]
  /\ UNCHANGED <<server, records, processes, blindSpot>>

Consumed(r) == [plan EXCEPT ![r].state = "gone"]

\* Another server is in execute(), past its look at the rows and without a row yet.
UnrecordedClaim == \E t \in Server : server[t].pc = "claimed"

\* A train child has replaced `launching` by `running` and not yet written its pid.
Unidentified(r) == row[r] = "running" /\ ~hasPid[r] /\ Alive(r)

\* The locked part of execute().  An unreadable tracker shows nobody (readable).
Claim(s, r, readable) ==
  /\ server[s].pc = "idle"
  /\ plan[r] = [state |-> "open", at |-> s]
  /\ readable => ~\E q \in Run : Occupies(q)
  /\ row' = IF readable THEN Reconciled ELSE row
  /\ plan' = Consumed(r)
  /\ server' = [server EXCEPT ![s] = [pc |-> "claimed", run |-> r]]
  /\ blindSpot' = (blindSpot \/ ~readable \/ UnrecordedClaim \/ \E q \in Run : Unidentified(q))
  /\ UNCHANGED <<hasPid, settled, processes>>

\* _log_path cannot make its directory: it raises between the claim and the try, and
\* the slot stays taken until the server is restarted.
LogPathFails(s) ==
  /\ server[s].pc = "claimed"
  /\ Goes(s, "stuck")
  /\ UNCHANGED <<plan, records, processes, blindSpot>>

\* launch_run; a run id that has a row already violates the primary key.
Launches(s) ==
  /\ server[s].pc = "claimed"
  /\ row[server[s].run] = "absent"
  /\ row' = [row EXCEPT ![server[s].run] = "launching"]
  /\ Goes(s, "recorded")
  /\ UNCHANGED <<plan, hasPid, settled, processes, blindSpot>>

Spawns(s) ==
  LET r == server[s].run IN
  /\ server[s].pc = "recorded"
  /\ child' = [child EXCEPT ![r] = "starting"]
  /\ spawned' = [spawned EXCEPT ![r] = @ + 1]
  /\ Goes(s, "spawned")
  /\ UNCHANGED <<plan, records, reported, blindSpot>>

\* In the try the insert, the log file or Popen raised; so may finish_execution, and is ignored.
SpawnFails(s) ==
  /\ server[s].pc \in {"claimed", "recorded"}
  /\ row' \in {row, Finished(server[s].run, "spawn_failed")}
  /\ Frees(s)
  /\ UNCHANGED <<plan, hasPid, settled, processes, blindSpot>>

\* mark_running, and the watcher thread starts.
Marks(s) ==
  /\ server[s].pc = "spawned"
  /\ Marked(server[s].run)
  /\ Goes(s, "watching")
  /\ UNCHANGED <<plan, settled, processes, blindSpot>>

\* The mark, or the start of the watcher after it, raised.
MarkFails(s) ==
  /\ server[s].pc = "spawned"
  /\ Marked(server[s].run) \/ UNCHANGED <<row, hasPid>>
  /\ Goes(s, "stopping")
  /\ UNCHANGED <<plan, settled, processes, blindSpot>>

\* _stop_child gives up on a child it cannot stop; then finish_execution.
StopsChild(s) ==
  LET r == server[s].run IN
  /\ server[s].pc = "stopping"
  /\ row' \in {row, Finished(r, "spawn_failed")}
  /\ \/ child' = [child EXCEPT ![r] = IF Alive(r) THEN "exited 1" ELSE @] /\ UNCHANGED blindSpot
     \/ Alive(r) /\ blindSpot' = TRUE /\ UNCHANGED child
  /\ Frees(s)
  /\ UNCHANGED <<plan, hasPid, settled, reported, spawned>>

\* _watch: process.wait returns ...
Reaps(s) ==
  /\ server[s].pc = "watching"
  /\ Exited(server[s].run)
  /\ Goes(s, "reaped")
  /\ UNCHANGED <<plan, records, processes, blindSpot>>

\* ... and the outcome is recorded, unless the tracker raises; the slot is freed anyway.
Settles(s) ==
  LET r == server[s].run
      outcome == IF child[r] = "exited 0" THEN "completed" ELSE "failed"
  IN /\ server[s].pc = "reaped"
     /\ \/ row' = Finished(r, outcome) /\ settled' = settled \cup {r}
        \/ UNCHANGED <<row, settled>>
     /\ Frees(s)
     /\ UNCHANGED <<plan, hasPid, processes, blindSpot>>

\* Its plans and its slot are gone, its child is not.
Crashes(s) ==
  /\ server[s].pc # "down"
  /\ server' = [server EXCEPT ![s] = Down]
  /\ plan' = [r \in Run |-> IF plan[r] = [state |-> "open", at |-> s]
                            THEN [plan[r] EXCEPT !.state = "gone"] ELSE plan[r]]
  /\ UNCHANGED <<records, processes, blindSpot>>

Restarts(s) ==
  /\ server[s].pc = "down"
  /\ Frees(s)
  /\ UNCHANGED <<plan, records, processes, blindSpot>>

-----------------------------------------------------------------------------
(* The child: soup train, or another command.                              *)

ChildGoes(r, pc) == child' = [child EXCEPT ![r] = pc]

\* start_run with SOUP_MCP_RUN_ID: over the row, or a new one.
ChildRegisters(r) ==
  /\ r \in Train /\ child[r] = "starting"
  /\ ChildGoes(r, "registered")
  /\ row' = [row EXCEPT ![r] = "running"]
  /\ UNCHANGED <<server, plan, hasPid, settled, reported, spawned, blindSpot>>

ChildMarks(r) ==
  /\ child[r] = "registered"
  /\ ChildGoes(r, "training")
  /\ Marked(r)
  /\ UNCHANGED <<server, plan, settled, reported, spawned, blindSpot>>

\* finish_run, fail_run
ChildReports(r, outcome) ==
  /\ child[r] = "training"
  /\ ChildGoes(r, "reported")
  /\ reported' = [reported EXCEPT ![r] = outcome]
  /\ row' = [row EXCEPT ![r] = IF @ = "absent" THEN @ ELSE outcome]
  /\ UNCHANGED <<server, plan, hasPid, settled, spawned, blindSpot>>

\* Killed at any moment, or done.
ChildExits(r) ==
  /\ Alive(r)
  /\ \/ ChildGoes(r, "exited 1")
     \/ /\ r \in Train => child[r] = "reported" /\ reported[r] = "completed"
        /\ ChildGoes(r, "exited 0")
  /\ UNCHANGED <<server, plan, records, reported, spawned, blindSpot>>

-----------------------------------------------------------------------------
(* The operator.                                                           *)

\* Whatever lists the runs reconciles them.
ListRuns ==
  /\ row # Reconciled
  /\ row' = Reconciled
  /\ UNCHANGED <<server, plan, hasPid, settled, processes, blindSpot>>

\* Older than the threshold, whose five minutes outlast the milliseconds of execute().
Stale == {r \in Run : row[r] = "launching" /\ \A s \in Server : server[s].run # r}

\* soup mcp runs reconcile --expunge-launching: all or nothing.
Expunge ==
  \E old \in (SUBSET Stale) \ {{}} :
    /\ ~\E r \in old : hasPid[r] /\ PidIsAlive(r)
    /\ row' = [r \in Run |-> IF r \in old THEN "absent" ELSE row[r]]
    /\ hasPid' = [r \in Run |-> hasPid[r] /\ r \notin old]
    /\ blindSpot' = (blindSpot \/ \E r \in old : Alive(r))
    /\ UNCHANGED <<server, plan, settled, processes>>

-----------------------------------------------------------------------------
ServerStep(s) ==
  \/ LogPathFails(s) \/ Launches(s) \/ Spawns(s) \/ SpawnFails(s)
  \/ Marks(s) \/ MarkFails(s) \/ StopsChild(s) \/ Reaps(s) \/ Settles(s)

ChildStep(r) ==
  \/ ChildRegisters(r) \/ ChildMarks(r) \/ ChildExits(r)
  \/ \E outcome \in Terminal : ChildReports(r, outcome)

McpNext ==
  \/ \E s \in Server, r \in Run : Issue(s, r) \/ \E readable \in BOOLEAN : Claim(s, r, readable)
  \/ \E s \in Server : ServerStep(s) \/ Crashes(s) \/ Restarts(s)
  \/ \E r \in Run : Expire(r) \/ ChildStep(r)
  \/ ListRuns \/ Expunge

McpSpec == McpInit /\ [][McpNext]_mcpVars

\* Threads are scheduled and children end.  Nobody has to call, restart or list.
McpFairSpec ==
  /\ McpSpec
  /\ \A s \in Server : WF_mcpVars(ServerStep(s))
  /\ \A r \in Run : WF_mcpVars(ChildStep(r))

-----------------------------------------------------------------------------
(* Properties.                                                             *)

\* A train child that has reported is over with its training.
Executing == {r \in Run : child[r] \in {"starting", "registered", "training"}}

\* One execution at a time on the machine, across servers, crashes and restarts,
\* failed spawns and failed marks, unless it came to one of the blind spots this
\* module names: two servers in execute() before either has its row, a train child
\* between its two first writes, a tracker that cannot be read, a child that cannot
\* be stopped, a row expunged under its child (_live_persisted_run).
OneAtATime == ~blindSpot => Cardinality(Executing) <= 1

\* A confirmed plan is executed once at most: after a failed spawn, a crash or a
\* restart a fresh plan is needed (execute() consumes the token before Popen).
OneSpawnPerRun == \A r \in Run : spawned[r] <= 1

\* What the token and the look at the rows are for.
ExecutionIsExclusive == OneAtATime /\ OneSpawnPerRun

\* Once a watcher has recorded how a child ended, the row says completed or failed
\* and stays so, and says neither against both the child's own report and its exit
\* code: no reconciling reader and no late mark_running comes after it (_watch).
OutcomeIsSettled ==
  \A r \in settled :
    /\ row[r] \in Terminal \cup {"absent"}
    /\ row[r] = "completed" => child[r] = "exited 0" \/ reported[r] = "completed"
    /\ row[r] = "failed" => child[r] = "exited 1" \/ reported[r] = "failed"

\* completed and failed are final, but for the parent's mark_running arriving after
\* the child's whole life (finish_execution's guard).
ReportsAreKept ==
  [][\A r \in Run : row[r] \in Terminal /\ row'[r] # row[r] =>
       \E s \in Server : server[s].run = r /\ server[s].pc = "spawned"]_mcpVars

\* The row ends as the child did, and stays.
OutcomesStand == []OutcomeIsSettled /\ ReportsAreKept

\* The slot of a server whose log directory could not be made.  It is that server's own
\* loss: there is no row and no child of it that others would take for an execution.
LeakedSlot(s) ==
  /\ server[s].pc = "stuck"
  /\ row[server[s].run] = "absent" /\ child[server[s].run] = "none"

\* Whatever raises in execute()'s try, in the mark or in the watcher, and however the
\* child ends, the slot is free again (or the server gone).  A log directory that cannot
\* be made is the exception: it raises before the try, and that slot is never given back.
SlotIsFreed ==
  \A s \in Server :
    server[s].run # NoExecution ~> server[s].run = NoExecution \/ LeakedSlot(s)
=============================================================================
