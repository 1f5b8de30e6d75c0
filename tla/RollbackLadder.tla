--------------------------- MODULE RollbackLadder ---------------------------
(***************************************************************************)
(* RL checkpoints and the rollback ladder of the reward-hack controller    *)
(* (utils/rl_checkpoint.py, utils/reward_hack_control.py), as they run     *)
(* together at the end of every optimizer step of a training: the          *)
(* checkpoint callback saves and prunes, then the controller judges the    *)
(* step and, after enough HACK verdicts in a row, rolls back to the last   *)
(* checkpoint it holds good, and stops the training when its attempts are  *)
(* spent.                                                                  *)
(*                                                                         *)
(* Every rank of a distributed training has its own pair of callbacks;     *)
(* only the main one writes checkpoints.  The directories outlive a        *)
(* training: another one may be run in the same output directory, and      *)
(* saves into the directories it finds there.  A checkpoint is two files   *)
(* that a rollback loads each for itself: the adapter and the optimizer.   *)
(***************************************************************************)
EXTENDS Integers, FiniteSets, FiniteSetsExt

CONSTANTS
  Rank, Main,
  MaxStep,     \* max_steps of the training
  SaveEvery, KeepLast, Patience, MaxAttempts,
  MaxRuns,     \* bound: trainings in the same output directory
  NoStep

ASSUME LadderAssumption ==
  /\ Main \in Rank
  /\ {MaxStep, SaveEvery, KeepLast, Patience, MaxAttempts, MaxRuns} \subseteq Nat \ {0}
  /\ NoStep \notin Nat

VARIABLES
  training,  \* the number of this training
  step,      \* state.global_step
  pc,        \* of each rank: in the step, in the callbacks, or out of the loop
  disk,      \* rl-checkpoints/step-<N>: whether it is there; history: whose adapter
             \* and whose optimizer.pt are in it, where they can be read
  saved,     \* the callback's _saved
  ladder,    \* the controller: _hack_streak, _last_good_step, recovery_attempts
  stop,      \* control.should_training_stop
  \* history, of this training:
  bare,      \* the steps it recorded without having written their optimizer
  rollback,  \* each rank's last rollback: where to, what came of it, whose files it loaded
  calm,      \* the last step judged anything but HACK
  hacked,    \* HACK verdicts in a row since there is a target
  mishap     \* whether a step was not judged, or a save failed half-way

ladderVars ==
  <<training, step, pc, disk, saved, bare, ladder, stop, rollback, calm, hacked, mishap>>
checkpoints == <<disk, saved, bare>>
ladderControl == <<ladder, stop, rollback, calm, hacked, mishap>>

Step == 1 .. MaxStep
Whose == 0 .. MaxRuns   \* a training; 0: there is no such file
StepDir == [exists : BOOLEAN, adapter : Whose, optimizer : Whose]
Absent == [exists |-> FALSE, adapter |-> 0, optimizer |-> 0]
FirstLadder == [streak |-> 0, lastGood |-> NoStep, attempts |-> 0]
NoRollback == [target |-> NoStep, outcome |-> "none", adapter |-> 0, optimizer |-> 0]

RTypeOK ==
  /\ training \in 1 .. MaxRuns /\ step \in 0 .. MaxStep
  /\ pc \in [Rank -> {"stepping", "saving", "judging", "out"}]
  /\ disk \in [Step -> StepDir]
  /\ saved \in [Rank -> SUBSET Step] /\ bare \subseteq Step
  /\ ladder \in [Rank -> [streak : 0 .. Patience, lastGood : Step \cup {NoStep},
                          attempts : 0 .. MaxAttempts]]
  /\ stop \in [Rank -> BOOLEAN]
  /\ rollback \in [Rank -> [target : Step \cup {NoStep}, adapter : Whose, optimizer : Whose,
                            outcome : {"none", "restored", "failed", "missing"}]]
  /\ calm \in [Rank -> 0 .. MaxStep] /\ hacked \in [Rank -> Nat]
  /\ mishap \in [Rank -> BOOLEAN]

All(x) == [r \in Rank |-> x]

LadderInit ==
  /\ training = 1 /\ step = 0 /\ pc = All("stepping")
  /\ disk = [s \in Step |-> Absent] /\ saved = All({}) /\ bare = {}
  /\ ladder = All(FirstLadder) /\ stop = All(FALSE)
  /\ rollback = All(NoRollback) /\ calm = All(0) /\ hacked = All(0) /\ mishap = All(FALSE)

RankGoes(r, to) == pc' = [pc EXCEPT ![r] = to]

-----------------------------------------------------------------------------
(* The trainer.                                                            *)

\* A rank leaves the loop when its own control says so, or at max_steps.
LeavesTraining(r) ==
  /\ pc[r] = "stepping"
  /\ stop[r] \/ step = MaxStep
  /\ RankGoes(r, "out")
  /\ UNCHANGED <<training, step, checkpoints, ladderControl>>

\* The ranks exchange gradients: none takes a step without the others.
TrainsStep ==
  /\ \A r \in Rank : pc[r] = "stepping" /\ ~stop[r]
  /\ step < MaxStep
  /\ step' = step + 1
  /\ pc' = All("saving")
  /\ UNCHANGED <<training, checkpoints, ladderControl>>

\* The training ends or dies, and one is started in the same output directory.
Reruns ==
  /\ training < MaxRuns
  /\ training' = training + 1 /\ step' = 0 /\ pc' = All("stepping")
  /\ saved' = All({}) /\ bare' = {}
  /\ ladder' = All(FirstLadder) /\ stop' = All(FALSE)
  /\ rollback' = All(NoRollback) /\ calm' = All(0) /\ hacked' = All(0) /\ mishap' = All(FALSE)
  /\ UNCHANGED disk

-----------------------------------------------------------------------------
(* RLCheckpointCallback.on_step_end                                        *)

Due(r) == r = Main /\ step % SaveEvery = 0

OnDisk(d) == {s \in Step : d[s].exists}

\* _prune: whatever is not among the KeepLast highest numbers, whoever wrote it.
Surplus(d) == {s \in OnDisk(d) : Cardinality({t \in OnDisk(d) : t > s}) >= KeepLast}

Ledger(steps, pruned) == steps \ pruned

\* The directory d after the adapter is written over it, and the optimizer too or, when
\* that is not to be saved, is a link, or raised, not.
Written(d, optimizerToo) ==
  [exists |-> TRUE, adapter |-> training,
   optimizer |-> IF optimizerToo THEN training ELSE d.optimizer]

\* save_checkpoint with _prune; a directory that cannot be removed is left, in part.
Saves(r) ==
  /\ pc[r] = "saving"
  /\ Due(r)
  /\ \E optimizerToo \in BOOLEAN :
       LET after == [disk EXCEPT ![step] = Written(@, optimizerToo)] IN
       \E pruned \in SUBSET Surplus(after) :
         /\ disk' = [s \in Step |-> IF s \in pruned THEN Absent ELSE after[s]]
         /\ saved' = [saved EXCEPT ![r] = Ledger(@ \cup {step}, pruned)]
         /\ bare' = IF optimizerToo THEN bare ELSE bare \cup {step}
  /\ RankGoes(r, "judging")
  /\ UNCHANGED <<training, step, ladderControl>>

\* It raised before anything was written, or on the way; on_step_end goes on.
SaveFails(r) ==
  /\ pc[r] = "saving"
  /\ Due(r)
  /\ \/ UNCHANGED <<disk, mishap>>
     \/ /\ \E left \in {[disk[step] EXCEPT !.exists = TRUE]}
                        \cup {Written(disk[step], optimizerToo) : optimizerToo \in BOOLEAN} :
             disk' = [disk EXCEPT ![step] = left]
        /\ mishap' = [mishap EXCEPT ![r] = TRUE]
  /\ RankGoes(r, "judging")
  /\ UNCHANGED <<training, step, saved, bare, ladder, stop, rollback, calm, hacked>>

\* Not the step, or not the rank, to save.
SkipsJudging(r) ==
  /\ pc[r] = "saving"
  /\ ~Due(r)
  /\ RankGoes(r, "judging")
  /\ UNCHANGED <<training, step, checkpoints, ladderControl>>

-----------------------------------------------------------------------------
(* RewardHackMitigationCallback.on_step_end in pid_lagrangian mode          *)

LastGood(r) == IF saved[r] = {} THEN ladder[r].lastGood ELSE Max(saved[r])

\* A verdict other than HACK.
JudgesCalm(r) ==
  /\ pc[r] = "judging"
  /\ ladder' = [ladder EXCEPT ![r].streak = 0, ![r].lastGood = LastGood(r)]
  /\ calm' = [calm EXCEPT ![r] = step]
  /\ hacked' = [hacked EXCEPT ![r] = 0]
  /\ RankGoes(r, "stepping")
  /\ UNCHANGED <<training, step, stop, rollback, mishap, checkpoints>>

Persistent(r) == ladder[r].streak + 1 >= Patience

HasTarget(r) == ladder[r].lastGood # NoStep
Spent(r) == ladder[r].attempts >= MaxAttempts

Hacks(r) ==
  /\ pc[r] = "judging"
  /\ hacked' = [hacked EXCEPT ![r] = IF HasTarget(r) THEN @ + 1 ELSE 0]
  /\ RankGoes(r, "stepping")
  /\ UNCHANGED <<training, step, calm, mishap, checkpoints>>

\* HACK, and the ladder waits, or has nowhere to roll back to.
JudgesHack(r) ==
  /\ ~(Persistent(r) /\ HasTarget(r))
  /\ Hacks(r)
  /\ ladder' = [ladder EXCEPT ![r].streak = IF Persistent(r) THEN 0 ELSE @ + 1]
  /\ UNCHANGED <<stop, rollback>>

\* What restore_checkpoint loads of what is there: the adapter, the optimizer, both or
\* neither.  It does not ask the manifest what the save wrote.
Restored(target) ==
  LET d == disk[target] IN
  IF ~d.exists
    THEN {[NoRollback EXCEPT !.target = target, !.outcome = "missing"]}
    ELSE {[target |-> target, adapter |-> a, optimizer |-> o,
           outcome |-> IF a = 0 /\ o = 0 THEN "failed" ELSE "restored"]
            : a \in {0, d.adapter}, o \in {0, d.optimizer}}

\* Mutant of Attempted: a rollback that restored nothing is not counted.
AttemptedIfRestored(r, outcome) ==
  [ladder[r] EXCEPT !.streak = 0, !.attempts = IF outcome = "restored" THEN @ + 1 ELSE @]

\* The attempt counts whatever came of it.
Attempted(r, outcome) == [ladder[r] EXCEPT !.streak = 0, !.attempts = @ + 1]

RollsBack(r) ==
  /\ Persistent(r) /\ HasTarget(r) /\ ~Spent(r)
  /\ Hacks(r)
  /\ \E restored \in Restored(ladder[r].lastGood) :
       /\ ladder' = [ladder EXCEPT ![r] = Attempted(r, restored.outcome)]
       /\ rollback' = [rollback EXCEPT ![r] = restored]
  /\ UNCHANGED stop

\* early_stop.
GivesUp(r) ==
  /\ Persistent(r) /\ HasTarget(r) /\ Spent(r)
  /\ Hacks(r)
  /\ stop' = [stop EXCEPT ![r] = TRUE]
  /\ ladder' = [ladder EXCEPT ![r].streak = Patience]
  /\ UNCHANGED rollback

\* The signal could not be computed: no verdict, and nothing changes.
JudgesNothing(r) ==
  /\ pc[r] = "judging"
  /\ mishap' = [mishap EXCEPT ![r] = TRUE]
  /\ RankGoes(r, "stepping")
  /\ UNCHANGED <<training, step, ladder, stop, rollback, calm, hacked, checkpoints>>

-----------------------------------------------------------------------------
Callbacks(r) ==
  \/ Saves(r) \/ SaveFails(r) \/ SkipsJudging(r)
  \/ JudgesCalm(r) \/ JudgesHack(r) \/ RollsBack(r) \/ GivesUp(r) \/ JudgesNothing(r)

LadderNext == TrainsStep \/ Reruns \/ \E r \in Rank : Callbacks(r) \/ LeavesTraining(r)

LadderSpec == LadderInit /\ [][LadderNext]_ladderVars

-----------------------------------------------------------------------------
(* Properties.                                                             *)

\* A step that the ledger names has a directory, with no adapter in it but this
\* training's, however saves and prunings failed and whatever an earlier training left
\* (save_checkpoint).
LedgerIsOnDisk ==
  \A r \in Rank : \A s \in saved[r] : disk[s].exists /\ disk[s].adapter = training

\* A rollback never goes to a checkpoint written after the last step that was judged
\* anything but HACK (_last_good_step), nor loads what another training wrote: neither
\* its adapter nor its optimizer.  One exception: where this training recorded the step
\* without having written its optimizer, the one an earlier training left is loaded.
RollbackGoesBehindTheHacking ==
  \A r \in Rank : rollback[r].outcome = "restored" =>
    /\ rollback[r].target <= calm[r]
    /\ rollback[r].adapter \in {0, training}
    /\ rollback[r].optimizer \in {0, training} \/ rollback[r].target \in bare

\* When enough checkpoints are kept for the whole ladder to be climbed, the
\* directory to roll back to is still there, in a training that found an empty
\* directory, judged every step and left no half checkpoint (keep_last against patience and
\* attempts).
AmplyKept == Patience * MaxAttempts <= (KeepLast - 1) * SaveEvery

TargetOutlivesTheStreak ==
  \A r \in Rank :
    AmplyKept /\ training = 1 /\ ~mishap[r] => rollback[r].outcome # "missing"

\* Once there is something to roll back to, the ladder ends: so many HACK verdicts
\* in a row, and the training has been told to stop (_escalate).
LadderIsBounded ==
  \A r \in Rank : hacked[r] <= Patience * (MaxAttempts + 1)
                  /\ (hacked[r] = Patience * (MaxAttempts + 1) => stop[r])

\* A rollback finds what it needs, and rollbacks end.
RollbackIsSound ==
  /\ LedgerIsOnDisk /\ RollbackGoesBehindTheHacking
  /\ TargetOutlivesTheStreak /\ LadderIsBounded
=============================================================================
