----------------------------- MODULE LoopDaemon -----------------------------
(***************************************************************************)
(* The data flywheel (src/src/souplite/utils/loop_daemon.py): any number   *)
(* of `soup loop watch` daemons and of operators running `soup loop pause`,*)
(* `resume`, `canary` and `init --force` share one control file.  The file *)
(* is replaced atomically, but every one of them reads it, changes a copy  *)
(* and writes the copy back, with no lock in between; for a daemon the two *)
(* are an iteration of minutes or hours apart.                             *)
(*                                                                         *)
(* A process may be killed between any two steps.  The stages of an        *)
(* iteration are the pre-wired ones of utils/loop_stages.py.               *)
(***************************************************************************)
EXTENDS Integers, FiniteSets

CONSTANTS
  Daemon, Operator,    \* processes
  Adapter, NoAdapter,  \* canary_active
  DailyCap,            \* max_runs_per_day
  Budget,              \* monthly_budget_usd
  Estimate,            \* what cost_fn may answer
  MaxIterations,       \* watch --max-iterations, or NoLimit
  NoLimit,
  DaysPerMonth,
  MaxDay,              \* bound: the last day
  MaxStarts            \* bound: iterations begun on one day

ASSUME LoopAssumption ==
  /\ IsFiniteSet(Daemon) /\ Daemon \cap Operator = {}
  /\ NoAdapter \notin Adapter
  /\ DailyCap \in Nat \ {0} /\ Budget \in Nat /\ Estimate \subseteq Nat
  /\ NoLimit \notin Nat /\ MaxIterations \in Nat \cup {NoLimit}
  /\ DaysPerMonth \in Nat \ {0} /\ MaxDay \in Nat /\ MaxStarts \in Nat

Day == 0 .. MaxDay
Month(d) == d \div DaysPerMonth
NeverRan == -1    \* last_run_date = None
Command == {"pause", "resume", "canary"}

VARIABLES
  file,        \* .soup/loop.yaml
  daemon,      \* each daemon: pc, the LoopState it holds, and watch()'s locals
  operator,    \* each operator: the command it is in, and the LoopState it read
  today,
  \* history, in no file:
  fresh,       \* processes holding what they read, with no write since
  overlapped,  \* some write was made from a stale read
  lossy,       \* some iteration begun is in no record: it was killed, raised, could
               \* not be written, or was wiped out by init --force
  completed,   \* iterations recorded in the file, ever
  erased,      \* those that init --force has wiped out
  deployed,    \* adapters the serving endpoint has activated
  manifests,   \* iteration.json files
  startedOn,   \* iterations begun on each day
  paidIn,      \* what they were estimated to cost, by month
  intent       \* the last of pause and resume to have taken effect

loopVars == <<file, daemon, operator, today, fresh, overlapped, lossy, completed,
              erased, deployed, manifests, startedOn, paidIn, intent>>
control == <<file, fresh, overlapped>>
tally == <<completed, erased, deployed, manifests, startedOn, paidIn>>

LoopState ==
  [status : {"stopped", "running", "paused"}, canary : Adapter \cup {NoAdapter},
   iterations : Nat, gated : Nat, shipped : Nat,
   runsToday : Nat, date : Day \cup {NeverRan}, spent : Nat]

DaemonPc == {"off", "promoting", "top", "parked", "training", "deploying",
             "recording", "filing", "resting", "leaving", "stopping"}

LDTypeOK ==
  /\ file \in LoopState
  /\ daemon \in [Daemon -> [pc : DaemonPc, state : LoopState, stop : BOOLEAN, ran : Nat,
                            decision : {"proceed", "daily", "budget"}, estimate : Nat,
                            verdict : {"OK", "MAJOR", "SKIPPED"}]]
  /\ operator \in [Operator -> [cmd : Command \cup {"idle"}, state : LoopState]]
  /\ today \in Day
  /\ fresh \subseteq Daemon \cup Operator
  /\ overlapped \in BOOLEAN /\ lossy \in BOOLEAN
  /\ completed \in Nat /\ erased \in Nat /\ deployed \in Nat /\ manifests \in Nat
  /\ startedOn \in [Day -> Nat] /\ paidIn \in [{Month(d) : d \in Day} -> Nat]
  /\ intent \in {"running", "paused"}

FirstState ==
  [status |-> "stopped", canary |-> NoAdapter, iterations |-> 0, gated |-> 0, shipped |-> 0,
   runsToday |-> 0, date |-> NeverRan, spent |-> 0]

OffDuty == [pc |-> "off", state |-> FirstState, stop |-> FALSE, ran |-> 0,
            decision |-> "proceed", estimate |-> 0, verdict |-> "SKIPPED"]

LoopInit ==
  /\ file = FirstState
  /\ daemon = [p \in Daemon |-> OffDuty]
  /\ operator = [o \in Operator |-> [cmd |-> "idle", state |-> FirstState]]
  /\ today = 0
  /\ fresh = {} /\ overlapped = FALSE /\ lossy = FALSE
  /\ completed = 0 /\ erased = 0 /\ deployed = 0 /\ manifests = 0
  /\ startedOn = [d \in Day |-> 0] /\ paidIn = [m \in {Month(d) : d \in Day} |-> 0]
  /\ intent = "running"

-----------------------------------------------------------------------------
(* The control file.                                                       *)

\* p keeps what it has read, to write it back later.
Reads(p) == fresh' = fresh \cup {p} /\ UNCHANGED <<file, overlapped>>

Forgets(p) == fresh' = fresh \ {p} /\ UNCHANGED <<file, overlapped>>

\* os.replace: whole and at once, whatever the file has become since.
Writes(p, s) ==
  /\ file' = s
  /\ fresh' = {}
  /\ overlapped' = (overlapped \/ p \notin fresh)

WithStatus(s, status) == [s EXCEPT !.status = status]

-----------------------------------------------------------------------------
(* watch()                                                                 *)

\* Where p needs nothing of the iteration any more (stop and ran outlive it).
Rest(p, pc) == [OffDuty EXCEPT !.pc = pc, !.stop = daemon[p].stop, !.ran = daemon[p].ran]

DaemonGoes(p, pc) == daemon' = [daemon EXCEPT ![p] = Rest(p, pc)]

\* Mutant of Promotable: watch starts a paused loop.
PromotablePaused(status) == status # "running"

\* A pause survives a restart of the daemon.
Promotable(status) == status = "stopped"

WatchStarts(p) ==
  /\ daemon[p].pc = "off"
  /\ daemon' = [daemon EXCEPT ![p] =
       IF Promotable(file.status) THEN [OffDuty EXCEPT !.pc = "promoting", !.state = file]
                                  ELSE [OffDuty EXCEPT !.pc = "top"]]
  /\ IF Promotable(file.status) THEN Reads(p) ELSE UNCHANGED control
  /\ UNCHANGED <<operator, today, lossy, intent, tally>>

Promotes(p) ==
  /\ daemon[p].pc = "promoting"
  /\ Writes(p, WithStatus(daemon[p].state, "running"))
  /\ DaemonGoes(p, "top")
  /\ UNCHANGED <<operator, today, lossy, intent, tally>>

\* Mutant of ToldToLeave: the signal only interrupts the waits.
ToldByCountOnly(p) == MaxIterations # NoLimit /\ daemon[p].ran >= MaxIterations

ToldToLeave(p) ==
  daemon[p].stop \/ (MaxIterations # NoLimit /\ daemon[p].ran >= MaxIterations)

\* The loop is left before the file is read, or because it says so.
Leaves(p) ==
  /\ daemon[p].pc = "top"
  /\ ToldToLeave(p) \/ file.status = "stopped"
  /\ DaemonGoes(p, "leaving")
  /\ UNCHANGED <<operator, today, lossy, intent, control, tally>>

InLoop(p) == daemon[p].pc = "top" /\ ~ToldToLeave(p)

Parks(p) ==
  /\ InLoop(p)
  /\ file.status = "paused"
  /\ DaemonGoes(p, "parked")
  /\ UNCHANGED <<operator, today, lossy, intent, control, tally>>

\* stop.wait: the signal, or the poll interval.
Wakes(p) ==
  /\ daemon[p].pc \in {"parked", "resting"}
  /\ DaemonGoes(p, IF daemon[p].stop THEN "leaving" ELSE "top")
  /\ UNCHANGED <<operator, today, lossy, intent, control, tally>>

\* reset_daily_counter_if_new_day
RolledOver(s) ==
  [s EXCEPT !.runsToday = IF s.date = today THEN s.runsToday ELSE 0, !.date = today]

\* Mutant of Decision: one run too many.
DecisionOneOver(s, estimate) ==
  IF s.runsToday > DailyCap THEN "daily"
  ELSE IF s.spent + estimate > Budget THEN "budget" ELSE "proceed"

\* check_budget
Decision(s, estimate) ==
  IF s.runsToday >= DailyCap THEN "daily"
  ELSE IF s.spent + estimate > Budget THEN "budget" ELSE "proceed"

\* run_once up to the budget decision.
Decides(p, estimate) ==
  /\ InLoop(p)
  /\ file.status = "running"
  /\ Reads(p)
  /\ LET s == RolledOver(file)
         decision == Decision(s, estimate)
         go == decision = "proceed"
     IN /\ go => startedOn[today] < MaxStarts
        /\ daemon' = [daemon EXCEPT ![p].state = s, ![p].decision = decision,
                                    ![p].estimate = estimate, ![p].verdict = "SKIPPED",
                                    ![p].pc = IF go THEN "training" ELSE "recording"]
        /\ startedOn' = [startedOn EXCEPT ![today] = IF go THEN @ + 1 ELSE @]
        /\ paidIn' = [paidIn EXCEPT ![Month(today)] = IF go THEN @ + estimate ELSE @]
  /\ UNCHANGED <<operator, today, lossy, intent, completed, erased, deployed, manifests>>

\* Harvest, train, gate.  No pairs, a failed train or an unreadable suite skips the gate.
Trains(p, verdict) ==
  /\ daemon[p].pc = "training"
  /\ daemon' = [daemon EXCEPT ![p].pc = "deploying", ![p].verdict = verdict]
  /\ UNCHANGED <<operator, today, lossy, intent, control, tally>>

\* A stage raised; only some of what the stages may raise is caught in them.
Raises(p) ==
  /\ daemon[p].pc \in {"training", "deploying"}
  /\ lossy' = TRUE
  /\ DaemonGoes(p, "leaving")
  /\ Forgets(p)
  /\ UNCHANGED <<operator, today, intent, tally>>

\* Mutant of MayDeploy: the gate is not asked.
MayDeployAlways(verdict) == TRUE

MayDeploy(verdict) == verdict = "OK"

\* state.bumped and the end of run_once.
Bumped(s, verdict, shipped, estimate) ==
  [s EXCEPT !.iterations = @ + 1,
            !.gated = IF verdict = "SKIPPED" THEN @ ELSE @ + 1,
            !.shipped = IF shipped THEN @ + 1 ELSE @,
            !.runsToday = @ + 1,
            !.spent = @ + estimate]

\* The POST is answered; then the rest of run_once.
Deploys(p, shipped) ==
  /\ daemon[p].pc = "deploying"
  /\ shipped => MayDeploy(daemon[p].verdict)
  /\ deployed' = IF shipped THEN deployed + 1 ELSE deployed
  /\ daemon' = [daemon EXCEPT ![p].pc = "recording",
       ![p].state = Bumped(@, daemon[p].verdict, shipped, daemon[p].estimate)]
  /\ UNCHANGED <<operator, today, lossy, intent, control, completed, erased, manifests,
                 startedOn, paidIn>>

Proceeded(p) == daemon[p].decision = "proceed"

\* write_state(state) with the state read before the iteration.  No manifest
\* for an iteration the budget has skipped.
Records(p) ==
  /\ daemon[p].pc = "recording"
  /\ Writes(p, daemon[p].state)
  /\ completed' = IF Proceeded(p) THEN completed + 1 ELSE completed
  /\ daemon' = [daemon EXCEPT ![p] = [Rest(p, "filing") EXCEPT !.decision = daemon[p].decision]]
  /\ UNCHANGED <<operator, today, lossy, intent, erased, deployed, manifests,
                 startedOn, paidIn>>

\* No space, no permission, no directory.
RecordFails(p) ==
  /\ daemon[p].pc = "recording"
  /\ lossy' = (lossy \/ Proceeded(p))
  /\ DaemonGoes(p, "leaving")
  /\ Forgets(p)
  /\ UNCHANGED <<operator, today, intent, tally>>

Manifested(p) == Proceeded(p)

\* write_iteration may fail; the loop goes on, and rests unless this was the last turn.
Files(p) ==
  /\ daemon[p].pc = "filing"
  /\ manifests' \in IF Manifested(p) THEN {manifests, manifests + 1} ELSE {manifests}
  /\ LET ran == IF MaxIterations = NoLimit THEN 0 ELSE daemon[p].ran + 1
         last == MaxIterations # NoLimit /\ ran >= MaxIterations
     IN daemon' = [daemon EXCEPT ![p] =
          [Rest(p, IF last THEN "top" ELSE "resting") EXCEPT !.ran = ran]]
  /\ UNCHANGED <<operator, today, lossy, intent, control, completed, erased, deployed,
                 startedOn, paidIn>>

\* A pause survives the exit of the daemon.
Demotable(status) == status = "running"

\* finally: read the file once more ...
LooksBack(p) ==
  /\ daemon[p].pc = "leaving"
  /\ IF Demotable(file.status)
       THEN /\ Reads(p)
            /\ daemon' = [daemon EXCEPT ![p] = [Rest(p, "stopping") EXCEPT !.state = file]]
       ELSE /\ daemon' = [daemon EXCEPT ![p] = OffDuty]
            /\ UNCHANGED control
  /\ UNCHANGED <<operator, today, lossy, intent, tally>>

\* ... and flip running to stopped.
Stops(p) ==
  /\ daemon[p].pc = "stopping"
  /\ Writes(p, WithStatus(daemon[p].state, "stopped"))
  /\ daemon' = [daemon EXCEPT ![p] = OffDuty]
  /\ UNCHANGED <<operator, today, lossy, intent, tally>>

\* SIGTERM or SIGINT: the handler only sets the event.
Signalled(p) ==
  /\ daemon[p].pc # "off"
  /\ ~daemon[p].stop
  /\ daemon' = [daemon EXCEPT ![p].stop = TRUE]
  /\ UNCHANGED <<operator, today, lossy, intent, control, tally>>

\* SIGKILL, power, out of memory.
DaemonDies(p) ==
  /\ daemon[p].pc # "off"
  /\ lossy' = (lossy \/ /\ daemon[p].pc \in {"training", "deploying", "recording"}
                        /\ Proceeded(p))
  /\ daemon' = [daemon EXCEPT ![p] = OffDuty]
  /\ Forgets(p)
  /\ UNCHANGED <<operator, today, intent, tally>>

-----------------------------------------------------------------------------
(* soup loop pause | resume | canary | init --force                        *)

\* pause says "already stopped", resume "not paused", and neither writes.
Applies(cmd, s) ==
  \/ cmd = "pause" /\ s.status # "stopped"
  \/ cmd = "resume" /\ s.status = "paused"
  \/ cmd = "canary"

CommandReads(o, cmd) ==
  /\ operator[o].cmd = "idle"
  /\ Applies(cmd, file)
  /\ operator' = [operator EXCEPT ![o] = [cmd |-> cmd, state |-> file]]
  /\ Reads(o)
  /\ UNCHANGED <<daemon, today, lossy, intent, tally>>

CommandWrites(o) ==
  LET cmd == operator[o].cmd
      s == operator[o].state
  IN /\ cmd # "idle"
     /\ \/ cmd = "pause" /\ Writes(o, WithStatus(s, "paused")) /\ intent' = "paused"
        \/ cmd = "resume" /\ Writes(o, WithStatus(s, "running")) /\ intent' = "running"
        \/ /\ cmd = "canary"
           /\ \E a \in Adapter : Writes(o, [s EXCEPT !.canary = a])
           /\ UNCHANGED intent
     /\ operator' = [operator EXCEPT ![o] = [cmd |-> "idle", state |-> FirstState]]
     /\ UNCHANGED <<daemon, today, lossy, tally>>

\* init --force reads nothing; what others have read is stale now.
InitForce ==
  /\ file # FirstState
  /\ file' = FirstState
  /\ fresh' = {}
  /\ erased' = completed
  /\ lossy' = TRUE
  /\ intent' = "running"
  /\ UNCHANGED <<daemon, operator, today, overlapped, completed, deployed, manifests,
                 startedOn, paidIn>>

\* Midnight, UTC.
DayPasses ==
  /\ today < MaxDay
  /\ today' = today + 1
  /\ UNCHANGED <<file, daemon, operator, fresh, overlapped, lossy, intent, tally>>

-----------------------------------------------------------------------------
IterationStep(p) ==
  \/ \E v \in {"OK", "MAJOR", "SKIPPED"} : Trains(p, v)
  \/ \E shipped \in BOOLEAN : Deploys(p, shipped)
  \/ Raises(p) \/ Records(p) \/ RecordFails(p) \/ Files(p)

DaemonStep(p) ==
  \/ Promotes(p) \/ Leaves(p) \/ Parks(p) \/ Wakes(p)
  \/ \E e \in Estimate : Decides(p, e)
  \/ IterationStep(p)
  \/ LooksBack(p) \/ Stops(p)

OperatorStep(o) == (\E cmd \in Command : CommandReads(o, cmd)) \/ CommandWrites(o)

LoopNext ==
  \/ \E p \in Daemon : WatchStarts(p) \/ DaemonStep(p) \/ Signalled(p) \/ DaemonDies(p)
  \/ \E o \in Operator : OperatorStep(o)
  \/ InitForce \/ DayPasses

LoopSpec == LoopInit /\ [][LoopNext]_loopVars

\* A daemon is scheduled, its stages end (a train has a 24 h timeout) and its
\* waits have a timeout.  Nobody has to start, stop or pause it.
LoopFairSpec == LoopSpec /\ \A p \in Daemon : WF_loopVars(DaemonStep(p))

-----------------------------------------------------------------------------
(* Properties.                                                             *)

Funnel(s) == s.shipped <= s.gated /\ s.gated <= s.iterations

\* However the writes of daemons and operators overtake one another, no file and
\* no copy in anybody's memory claims an iteration that was not run to its end, a
\* ship that the endpoint did not confirm, or a ship without a gate; and there is
\* never a manifest of an iteration the file has not seen (run_once, watch).
CountersAreEarned ==
  /\ Funnel(file) /\ file.iterations <= completed /\ file.shipped <= deployed
  /\ \A p \in Daemon :
       LET s == daemon[p].state IN
       /\ Funnel(s) /\ s.shipped <= deployed
       /\ s.iterations <= completed + (IF daemon[p].pc = "recording" /\ Proceeded(p) THEN 1 ELSE 0)
  /\ \A o \in Operator :
       LET s == operator[o].state IN
       Funnel(s) /\ s.iterations <= completed /\ s.shipped <= deployed
  /\ manifests <= completed

\* As long as no write was made from a stale read, the file counts exactly the
\* iterations recorded since the last init --force (write_state at the end of run_once).
CountersAreExact == ~overlapped => file.iterations = completed - erased

\* What the counters claim has happened, and without stale writes is all that has.
CountersAreTrue == CountersAreEarned /\ CountersAreExact

\* As long as no write was made from a stale read, the loop is paused exactly when an
\* operator paused it last: start, exit, signal, crash and restart of the daemon, a
\* skipped or a failed iteration neither pause nor resume it (watch).
PauseIsTheOperators == ~overlapped => (file.status = "paused" <=> intent = "paused")

Working == {p \in Daemon : daemon[p].pc \in {"training", "deploying", "recording"} /\ Proceeded(p)}

\* The daily cap and the monthly budget hold for what was really begun and really
\* estimated, across midnight, when iterations do not overlap and each one begun is
\* recorded (check_budget against the persisted counters).
CapsHold ==
  ~overlapped /\ ~lossy /\ Cardinality(Working) <= 1 /\ Working \subseteq fresh =>
    /\ \A d \in Day : startedOn[d] <= DailyCap
    /\ \A d \in Day : paidIn[Month(d)] <= Budget

\* A daemon that was sent SIGTERM or SIGINT is gone in the end, wherever it was.
SignalStops == \A p \in Daemon : daemon[p].stop ~> daemon[p].pc = "off"

(* What the documentation says and the code does not do.                   *)

\* docs/commands.md: pause stops the daemon at the next iteration boundary, so
\* a daemon between two iterations finds the pause in the file.
PauseHolds ==
  intent = "paused" /\ (\E p \in Daemon : daemon[p].pc = "resting") =>
    file.status = "paused"
=============================================================================
