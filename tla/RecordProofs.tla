---------------------------- MODULE RecordProofs ----------------------------
(***************************************************************************)
(* Safety of what is kept on disk and read again, for every value of the   *)
(* constants: the rollback ladder and the lineage; and then these side by  *)
(* side with the loop's state, the recipe's files and order and the        *)
(* tracker's rows.                                                         *)
(*                                                                         *)
(* The ladder, for any ranks, periods, patience and attempts: a ledger     *)
(* entry has its directory, a rollback goes behind the hacking and finds   *)
(* its target, and the ladder ends.  That the target is still there is a   *)
(* matter of counting: between the last calm step and the rollback lie no  *)
(* more steps than the ladder takes to be climbed, so no more checkpoints  *)
(* than one less than are kept.                                            *)
(*                                                                         *)
(* The lineage, for any processes and entries: a walk nobody has overtaken *)
(* is sound, and then there is no cycle.  Acyclic is stated by sets        *)
(* without a root, so that one insert can be judged without following      *)
(* paths: the set a finished walk has visited is closed under parents,     *)
(* holds the new parent and not the child.                                 *)
(***************************************************************************)
EXTENDS MCRecords, LoopProofs, RecipeProofs, McpProofs

-----------------------------------------------------------------------------
(* RollbackLadder.                                                         *)

LEMMA LadderConstants ==
  /\ Main \in Rank
  /\ MaxStep \in Nat /\ MaxStep > 0 /\ SaveEvery \in Nat /\ SaveEvery > 0
  /\ KeepLast \in Nat /\ KeepLast > 0 /\ Patience \in Nat /\ Patience > 0
  /\ MaxAttempts \in Nat /\ MaxAttempts > 0 /\ MaxRuns \in Nat /\ MaxRuns > 0
  /\ NoStep \notin Step /\ NoStep \notin Nat /\ Step \subseteq Nat
BY LadderAssumption DEF Step

-----------------------------------------------------------------------------
(* Counting.                                                               *)

LEMMA ProductsGrow ==
  /\ \A e, x, y \in Nat : x <= y => e * x <= e * y
  /\ \A e, x \in Nat : e * x \in Nat /\ e * (x + 1) = e * x + e
<1>1. \A e, x, z \in Nat : e * (x + z) = e * x + e * z /\ e * z \in Nat /\ e * x \in Nat
  OBVIOUS
<1>2. ASSUME NEW e \in Nat, NEW x \in Nat, NEW y \in Nat, x <= y
      PROVE  e * x <= e * y
  <2>1. PICK z \in Nat : y = x + z
    <3>1. y - x \in Nat /\ y = x + (y - x)
      BY <1>2
    <3> QED BY <3>1
  <2>2. e * y = e * x + e * z /\ e * z \in Nat /\ e * x \in Nat
    BY <1>1, <2>1
  <2> QED BY <2>2
<1> QED BY <1>1, <1>2

\* So many multiples of e lie in so many times e numbers.
LEMMA FewMultiples ==
  ASSUME NEW e \in Nat, e > 0, NEW k \in Nat, NEW c \in Nat, NEW s \in Nat, s - c <= e * k,
         NEW D \in SUBSET Nat, \A d \in D : c < d /\ d <= s /\ d % e = 0
  PROVE  IsFiniteSet(D) /\ Cardinality(D) <= k
<1>1. ASSUME NEW d \in Nat
      PROVE  d \div e \in Nat /\ d = e * (d \div e) + (d % e) /\ d % e \in 0 .. e - 1
  <2>1. d \div e \in Int /\ d \div e >= 0
    OBVIOUS
  <2>2. d = e * (d \div e) + (d % e)
    OBVIOUS
  <2>3. d % e \in 0 .. e - 1
    OBVIOUS
  <2> QED BY <2>1, <2>2, <2>3
<1>2. PICK q \in Nat, r \in 0 .. e - 1 : c = e * q + r
  BY <1>1
<1>3. ASSUME NEW d \in D
      PROVE  d \div e \in q + 1 .. q + k
  <2>1. PICK x \in Nat : x = d \div e /\ d = e * x
    BY <1>1
  <2>2. x >= q + 1
    <3>1. SUFFICES ASSUME x <= q PROVE FALSE
      BY <2>1
    <3>2. e * x <= e * q /\ e * q \in Nat /\ e * x \in Nat
      BY <3>1, ProductsGrow
    <3> QED BY <1>2, <2>1, <3>2
  <2>3. x <= q + k
    <3>1. SUFFICES ASSUME q + k + 1 <= x PROVE FALSE
      BY <2>1
    <3>2. e * (q + k + 1) <= e * x
      BY <3>1, ProductsGrow
    <3>3. e * (q + k + 1) = e * q + e * k + e
      OBVIOUS
    <3>4. e * q \in Nat /\ e * x \in Nat /\ e * k \in Nat
      BY ProductsGrow
    <3> QED BY <1>2, <2>1, <3>2, <3>3, <3>4
  <2> QED BY <2>1, <2>2, <2>3
<1>4. [d \in D |-> d \div e] \in Injection(D, q + 1 .. q + k)
  <2>1. \A d, b \in D : d \div e = b \div e => d = b
    BY <1>1
  <2> QED BY <1>3, <2>1 DEF Injection, IsInjective
<1>5. IsFiniteSet(q + 1 .. q + k) /\ Cardinality(q + 1 .. q + k) = k
  BY FS_Interval
<1> QED BY <1>4, <1>5, FS_Injection DEF ExistsInjection


-----------------------------------------------------------------------------
(* The invariant.                                                          *)

\* A rank has still to judge the step.
InCallbacks(r) == pc[r] \in {"saving", "judging"}

\* Nothing is later than the step; only the main rank has anything to roll back to.
StepsInOrder ==
  \A r \in Rank :
    /\ InCallbacks(r) => step \in Step
    /\ calm[r] + (IF InCallbacks(r) THEN 1 ELSE 0) <= step
    /\ \A s \in saved[r] : s <= step
    /\ r # Main => saved[r] = {} /\ ladder[r].lastGood = NoStep

\* What is there of the step this training wrote, but where it is bare the optimizer.
IsOwn(s) ==
  disk[s].exists => disk[s].adapter = training /\ (disk[s].optimizer = training \/ s \in bare)

LedgerIsOwn == \A r \in Rank : \A s \in saved[r] : IsOwn(s)

\* The target is a step up to the last calm one, and what is there of it this training's.
TargetIsCalm ==
  \A r \in Rank :
    LET t == ladder[r].lastGood IN
    t # NoStep => t <= calm[r] /\ IsOwn(t)

\* What was restored is what that said at the time.
RestoredIsCalm ==
  \A r \in Rank :
    /\ rollback[r].outcome = "restored" =>
         /\ rollback[r].target \in Step /\ rollback[r].target <= calm[r]
         /\ rollback[r].adapter \in {0, training}
         /\ rollback[r].optimizer \in {0, training} \/ rollback[r].target \in bare
    /\ r # Main => rollback[r] = NoRollback

\* The HACK verdicts in a row are those of the attempts and of the streak.
VerdictsAreCounted ==
  \A r \in Rank :
    /\ hacked[r] <= Patience * ladder[r].attempts + ladder[r].streak
    /\ ladder[r].lastGood = NoStep => hacked[r] = 0
    /\ ~stop[r] => ladder[r].streak < Patience
    /\ stop[r] => ~InCallbacks(r)

\* A first training that judged every step and left no half checkpoint ...
Smooth == training = 1 /\ ~mishap[Main]

\* ... has on disk what is in its ledger, a checkpoint every so many steps, ...
DiskIsTheLedger ==
  Smooth => OnDisk(disk) = saved[Main] /\ \A s \in saved[Main] : s % SaveEvery = 0

\* ... has judged HACK every step since it was calm, has saved what is newer than its
\* target since then, and has the target as long as an attempt is left.
TargetIsKept ==
  LET t == ladder[Main].lastGood IN
  Smooth /\ t # NoStep =>
    /\ step - calm[Main] <= hacked[Main] + (IF InCallbacks(Main) THEN 1 ELSE 0)
    /\ \A s \in saved[Main] : s > t => s > calm[Main]
    /\ AmplyKept /\ ladder[Main].attempts < MaxAttempts => t \in saved[Main]

ClimbInv ==
  /\ RTypeOK /\ LedgerIsOnDisk /\ LedgerIsOwn /\ StepsInOrder /\ TargetIsCalm /\ RestoredIsCalm
  /\ VerdictsAreCounted /\ DiskIsTheLedger /\ TargetIsKept /\ TargetOutlivesTheStreak

\* A step is saved once.
NotSavedYet == \A r \in Rank : pc[r] = "saving" => step \notin saved[r]

LadderInv == ClimbInv /\ NotSavedYet

-----------------------------------------------------------------------------
Pcs == {"stepping", "saving", "judging", "out"}
LadderState == [streak : 0 .. Patience, lastGood : Step \cup {NoStep}, attempts : 0 .. MaxAttempts]
RollbackState == [target : Step \cup {NoStep}, adapter : Whose, optimizer : Whose,
                  outcome : {"none", "restored", "failed", "missing"}]

LEMMA LadderStarts == LadderInit => ClimbInv
<1> SUFFICES ASSUME LadderInit PROVE ClimbInv
  OBVIOUS
<1> USE LadderConstants
<1>1. FirstLadder \in LadderState /\ Absent \in StepDir
      /\ NoRollback \in RollbackState /\ NoRollback.outcome = "none"
  BY DEF FirstLadder, LadderState, Absent, StepDir, NoRollback, RollbackState, Whose
<1>2. RTypeOK
  <2>1. rollback \in [Rank -> RollbackState]
    BY <1>1 DEF LadderInit, All
  <2> QED BY <1>1, <2>1 DEF LadderInit, RTypeOK, All, LadderState, RollbackState
<1>3. \A r \in Rank : /\ pc[r] = "stepping" /\ saved[r] = {} /\ ladder[r] = FirstLadder /\ ~stop[r]
                      /\ rollback[r] = NoRollback /\ calm[r] = 0 /\ hacked[r] = 0
  BY DEF LadderInit, All
<1>4. step = 0 /\ \A s \in Step : ~disk[s].exists
  BY DEF LadderInit, Absent
<1>5. LedgerIsOnDisk /\ LedgerIsOwn /\ StepsInOrder /\ RestoredIsCalm /\ TargetOutlivesTheStreak
  BY <1>1, <1>3, <1>4 DEF LedgerIsOnDisk, LedgerIsOwn, StepsInOrder, RestoredIsCalm,
     TargetOutlivesTheStreak, InCallbacks, FirstLadder
<1>6. TargetIsCalm /\ TargetIsKept
  BY <1>3 DEF TargetIsCalm, TargetIsKept, FirstLadder
<1>7. VerdictsAreCounted
  BY <1>3 DEF VerdictsAreCounted, FirstLadder, InCallbacks
<1>8. DiskIsTheLedger
  BY <1>3, <1>4 DEF DiskIsTheLedger, OnDisk
<1> QED BY <1>2, <1>5, <1>6, <1>7, <1>8 DEF ClimbInv

LEMMA RankMoves ==
  ASSUME RTypeOK, NEW r \in Rank, NEW to \in Pcs, RankGoes(r, to)
  PROVE  pc' \in [Rank -> Pcs] /\ pc'[r] = to /\ \A q \in Rank \ {r} : pc'[q] = pc[q]
BY DEF RTypeOK, RankGoes, Pcs

\* A rank goes from one place to another that is as much inside the callbacks.
LEMMA LadderRests ==
  ASSUME ClimbInv, pc' \in [Rank -> Pcs], \A q \in Rank : InCallbacks(q)' <=> InCallbacks(q),
         UNCHANGED <<training, step, checkpoints, ladderControl>>
  PROVE  ClimbInv'
<1> USE DEF ClimbInv, checkpoints, ladderControl
<1>1. RTypeOK'
  BY DEF RTypeOK, Pcs
<1>2. StepsInOrder'
  BY DEF StepsInOrder
<1>3. /\ LedgerIsOnDisk' /\ LedgerIsOwn' /\ TargetIsCalm' /\ RestoredIsCalm'
      /\ TargetOutlivesTheStreak'
  BY DEF LedgerIsOnDisk, LedgerIsOwn, IsOwn, TargetIsCalm, RestoredIsCalm, TargetOutlivesTheStreak
<1>4. VerdictsAreCounted'
  BY DEF VerdictsAreCounted
<1>5. DiskIsTheLedger'
  BY DEF DiskIsTheLedger, Smooth, OnDisk
<1>6. TargetIsKept'
  BY LadderConstants DEF TargetIsKept, Smooth
<1> QED BY <1>1, <1>2, <1>3, <1>4, <1>5, <1>6

LEMMA TrainsStepKeeps == ClimbInv /\ TrainsStep => ClimbInv'
<1> SUFFICES ASSUME ClimbInv, TrainsStep PROVE ClimbInv'
  OBVIOUS
<1> USE DEF ClimbInv, checkpoints, ladderControl
<1>1. /\ step' = step + 1 /\ step \in Nat /\ step' \in Step
      /\ UNCHANGED <<training, disk, saved, bare, ladder, stop, rollback, calm, hacked, mishap>>
      /\ \A q \in Rank : pc[q] = "stepping" /\ ~stop[q] /\ pc'[q] = "saving"
      /\ pc' \in [Rank -> Pcs]
  BY LadderConstants DEF TrainsStep, RTypeOK, All, Step, Pcs
<1>2. \A q \in Rank : ~InCallbacks(q) /\ InCallbacks(q)'
  BY <1>1 DEF InCallbacks
<1>3. RTypeOK'
  BY <1>1 DEF RTypeOK, Step, Pcs
<1>4. StepsInOrder'
  <2>1. \A q \in Rank : calm[q] \in Nat /\ calm[q] <= step
    BY <1>2 DEF StepsInOrder, RTypeOK
  <2>2. \A q \in Rank : \A s \in saved[q] : s \in Nat /\ s <= step
    BY LadderConstants DEF StepsInOrder, RTypeOK
  <2>3. \A q \in Rank : q # Main => saved[q] = {} /\ ladder[q].lastGood = NoStep
    BY DEF StepsInOrder
  <2> QED BY <1>1, <1>2, <2>1, <2>2, <2>3 DEF StepsInOrder
<1>5. /\ LedgerIsOnDisk' /\ LedgerIsOwn' /\ TargetIsCalm' /\ RestoredIsCalm'
      /\ TargetOutlivesTheStreak'
  BY <1>1 DEF LedgerIsOnDisk, LedgerIsOwn, IsOwn, TargetIsCalm, RestoredIsCalm,
     TargetOutlivesTheStreak
<1>6. VerdictsAreCounted'
  BY <1>1 DEF VerdictsAreCounted
<1>7. DiskIsTheLedger'
  BY <1>1 DEF DiskIsTheLedger, Smooth, OnDisk
<1>8. TargetIsKept'
  <2>1. calm[Main] \in Nat /\ hacked[Main] \in Nat
    BY LadderConstants DEF RTypeOK
  <2> QED BY <1>1, <1>2, <2>1, LadderConstants DEF TargetIsKept, Smooth
<1> QED BY <1>3, <1>4, <1>5, <1>6, <1>7, <1>8

LEMMA RerunsKeeps == ClimbInv /\ Reruns => ClimbInv'
<1> SUFFICES ASSUME ClimbInv, Reruns PROVE ClimbInv'
  OBVIOUS
<1> USE LadderConstants DEF ClimbInv
<1>1. FirstLadder \in LadderState /\ Absent \in StepDir
      /\ NoRollback \in RollbackState /\ NoRollback.outcome = "none"
  BY DEF FirstLadder, LadderState, Absent, StepDir, NoRollback, RollbackState, Whose
<1>2. training' \in 2 .. MaxRuns /\ step' = 0 /\ disk' = disk
  BY DEF Reruns, RTypeOK
<1>3. \A r \in Rank :
        /\ pc'[r] = "stepping" /\ saved'[r] = {} /\ ladder'[r] = FirstLadder /\ ~stop'[r]
        /\ rollback'[r] = NoRollback /\ calm'[r] = 0 /\ hacked'[r] = 0
  BY DEF Reruns, All
<1>4. RTypeOK'
  <2>1. rollback' \in [Rank -> RollbackState] /\ bare' = {}
    BY <1>1 DEF Reruns, All
  <2>2. /\ pc' \in [Rank -> Pcs] /\ saved' \in [Rank -> SUBSET Step]
        /\ ladder' \in [Rank -> LadderState] /\ stop' \in [Rank -> BOOLEAN]
        /\ calm' \in [Rank -> 0 .. MaxStep] /\ hacked' \in [Rank -> Nat]
        /\ mishap' \in [Rank -> BOOLEAN]
    BY <1>1 DEF Reruns, All, Pcs
  <2> QED BY <1>2, <2>1, <2>2 DEF RTypeOK, LadderState, Pcs, RollbackState
<1>5. /\ LedgerIsOnDisk' /\ LedgerIsOwn' /\ StepsInOrder' /\ RestoredIsCalm'
      /\ TargetOutlivesTheStreak'
  BY <1>1, <1>2, <1>3 DEF LedgerIsOnDisk, LedgerIsOwn, StepsInOrder, RestoredIsCalm,
     TargetOutlivesTheStreak, InCallbacks, FirstLadder
<1>6. TargetIsCalm' /\ TargetIsKept'
  BY <1>3 DEF TargetIsCalm, TargetIsKept, FirstLadder
<1>7. VerdictsAreCounted'
  BY <1>3 DEF VerdictsAreCounted, FirstLadder, InCallbacks
<1>8. DiskIsTheLedger'
  BY <1>2 DEF DiskIsTheLedger, Smooth
<1> QED BY <1>4, <1>5, <1>6, <1>7, <1>8

\* What a save does to the directories: the step's is there, and whatever of the surplus
\* could be removed is gone, from the ledger too.
LEMMA SavesAs ==
  ASSUME RTypeOK, NEW r \in Rank, Saves(r), step \in Step
  PROVE  \E after \in [Step -> StepDir], pruned \in SUBSET Step :
           /\ \A s \in Step \ {step} : after[s] = disk[s]
           /\ after[step].exists /\ after[step].adapter = training
           /\ after[step].optimizer = training \/ step \in bare'
           /\ bare \subseteq bare' /\ bare' \subseteq Step
           /\ pruned \subseteq Surplus(after)
           /\ disk' = [s \in Step |-> IF s \in pruned THEN Absent ELSE after[s]]
           /\ saved' = [saved EXCEPT ![r] = (saved[r] \cup {step}) \ pruned]
<1> USE LadderConstants
<1>0. PICK optimizerToo \in BOOLEAN :
        \E pruned \in SUBSET Surplus([disk EXCEPT ![step] = Written(@, optimizerToo)]) :
          /\ disk' = [s \in Step |-> IF s \in pruned THEN Absent
                       ELSE [disk EXCEPT ![step] = Written(@, optimizerToo)][s]]
          /\ saved' = [saved EXCEPT ![r] = (@ \cup {step}) \ pruned]
          /\ bare' = IF optimizerToo THEN bare ELSE bare \cup {step}
  BY DEF Saves, Ledger
<1>1. PICK pruned \in SUBSET Surplus([disk EXCEPT ![step] = Written(disk[step], optimizerToo)]) :
        /\ disk' = [s \in Step |-> IF s \in pruned THEN Absent
                     ELSE [disk EXCEPT ![step] = Written(disk[step], optimizerToo)][s]]
        /\ saved' = [saved EXCEPT ![r] = (saved[r] \cup {step}) \ pruned]
        /\ bare' = IF optimizerToo THEN bare ELSE bare \cup {step}
  BY <1>0
<1>2. PICK d \in StepDir :
        /\ d = Written(disk[step], optimizerToo)
        /\ d.exists /\ d.adapter = training /\ (optimizerToo => d.optimizer = training)
  <2>1. disk[step] \in StepDir /\ training \in Whose
    BY DEF RTypeOK, Whose
  <2>2. disk[step].optimizer \in Whose
    BY <2>1 DEF StepDir
  <2>3. Written(disk[step], optimizerToo) \in StepDir
    BY <2>1, <2>2 DEF StepDir, Written
  <2> QED BY <2>3 DEF Written
<1>3. PICK after \in [Step -> StepDir] : after = [disk EXCEPT ![step] = d]
  BY DEF RTypeOK
<1>4. after[step] = d /\ \A s \in Step \ {step} : after[s] = disk[s]
  BY <1>3 DEF RTypeOK
<1>5. pruned \subseteq Surplus(after) /\ Surplus(after) \subseteq Step
  BY <1>1, <1>2, <1>3 DEF Surplus, OnDisk
<1>6. disk' = [s \in Step |-> IF s \in pruned THEN Absent ELSE after[s]]
  BY <1>1, <1>2, <1>3
<1>7. /\ d.optimizer = training \/ step \in bare'
      /\ bare \subseteq bare' /\ bare' \subseteq Step
  BY <1>1, <1>2 DEF RTypeOK
<1> QED BY <1>1, <1>2, <1>4, <1>5, <1>6, <1>7

\* The climb of the ladder is shorter than what is kept reaches back.
LEMMA ClimbIsShort ==
  ASSUME ClimbInv, Smooth, AmplyKept, InCallbacks(Main), ladder[Main].lastGood # NoStep,
         ladder[Main].attempts < MaxAttempts
  PROVE  step - calm[Main] <= SaveEvery * (KeepLast - 1)
<1> USE LadderConstants DEF ClimbInv
<1>1. /\ calm[Main] \in Nat /\ hacked[Main] \in Nat /\ step \in Nat
      /\ ladder[Main].attempts \in Nat /\ ladder[Main].streak \in Nat
  BY DEF RTypeOK
<1>2. step - calm[Main] <= hacked[Main] + 1
  BY DEF TargetIsKept
<1>3. ladder[Main].streak + 1 <= Patience
  BY <1>1 DEF VerdictsAreCounted
<1>4. hacked[Main] <= Patience * ladder[Main].attempts + ladder[Main].streak
  BY DEF VerdictsAreCounted
<1>5. /\ Patience * (ladder[Main].attempts + 1) = Patience * ladder[Main].attempts + Patience
      /\ Patience * ladder[Main].attempts \in Nat
  BY <1>1, ProductsGrow
<1>6. Patience * (ladder[Main].attempts + 1) <= Patience * MaxAttempts
  BY <1>1, ProductsGrow
<1>7. PICK k \in Nat : k = KeepLast - 1
  OBVIOUS
<1>8. Patience * MaxAttempts <= SaveEvery * k
  BY <1>7 DEF AmplyKept
<1>9. Patience * MaxAttempts \in Nat /\ SaveEvery * k \in Nat
  BY ProductsGrow
<1>10. step - calm[Main] <= Patience * MaxAttempts
  BY <1>1, <1>2, <1>3, <1>4, <1>5, <1>6, <1>9
<1> QED BY <1>1, <1>7, <1>8, <1>9, <1>10

LEMMA SavesKeeps ==
  ASSUME ClimbInv, NEW r \in Rank, Saves(r)
  PROVE  ClimbInv'
<1> USE LadderConstants DEF ClimbInv
<1>1. /\ r = Main /\ step % SaveEvery = 0 /\ pc[Main] = "saving" /\ RankGoes(r, "judging")
      /\ UNCHANGED <<training, step, ladder, stop, rollback, calm, hacked, mishap>>
  BY DEF Saves, Due, ladderControl
<1>2. InCallbacks(Main) /\ step \in Step /\ calm[Main] + 1 <= step
  BY <1>1 DEF InCallbacks, StepsInOrder
<1>3. \A q \in Rank : InCallbacks(q)' <=> InCallbacks(q)
  BY <1>1, RankMoves DEF InCallbacks, Pcs
<1>4. PICK after \in [Step -> StepDir], pruned \in SUBSET Step :
           /\ \A s \in Step \ {step} : after[s] = disk[s]
           /\ after[step].exists /\ after[step].adapter = training
           /\ after[step].optimizer = training \/ step \in bare'
           /\ bare \subseteq bare' /\ bare' \subseteq Step
           /\ pruned \subseteq Surplus(after)
           /\ disk' = [s \in Step |-> IF s \in pruned THEN Absent ELSE after[s]]
           /\ saved' = [saved EXCEPT ![r] = (saved[r] \cup {step}) \ pruned]
  BY <1>2, SavesAs
<1>5. /\ saved'[Main] = (saved[Main] \cup {step}) \ pruned
      /\ \A q \in Rank \ {Main} : saved'[q] = saved[q]
      /\ saved[Main] \subseteq Step
  BY <1>1, <1>4 DEF RTypeOK
<1>6. /\ \A s \in pruned : ~disk'[s].exists
      /\ \A s \in Step \ pruned : disk'[s] = after[s]
  BY <1>4 DEF Absent
<1>7. RTypeOK'
  <2>1. saved' \in [Rank -> SUBSET Step]
    BY <1>2, <1>4 DEF RTypeOK
  <2>2. pc' \in [Rank -> Pcs]
    BY <1>1, RankMoves DEF Pcs
  <2>3. Absent \in StepDir
    BY DEF Absent, StepDir, Whose
  <2>4. disk' \in [Step -> StepDir]
    BY <1>4, <2>3
  <2> QED BY <1>1, <1>4, <2>1, <2>2, <2>4 DEF RTypeOK, Pcs
<1>8. \A s \in Step : s # step /\ IsOwn(s) => IsOwn(s)'
  BY <1>1, <1>4, <1>6 DEF IsOwn
<1>9. \A s \in Step : s = step => IsOwn(s)'
  BY <1>1, <1>2, <1>4, <1>6 DEF IsOwn
<1>10. LedgerIsOnDisk' /\ LedgerIsOwn'
  <2>1. ASSUME NEW s \in saved'[Main]
        PROVE  disk'[s].exists /\ disk'[s].adapter = training /\ IsOwn(s)'
    <3>1. s \in Step /\ s \notin pruned /\ (s = step \/ s \in saved[Main])
      BY <1>2, <1>5
    <3>2. disk'[s] = after[s]
      BY <1>6, <3>1
    <3>3. CASE s = step
      BY <1>4, <1>9, <3>1, <3>2, <3>3
    <3>4. CASE s # step
      <4>1. disk[s].exists /\ disk[s].adapter = training /\ IsOwn(s)
        BY <3>1, <3>4 DEF LedgerIsOnDisk, LedgerIsOwn
      <4>2. IsOwn(s)'
        BY <1>8, <3>1, <3>4, <4>1
      <4>3. disk'[s] = disk[s]
        BY <1>4, <3>1, <3>2, <3>4
      <4>4. disk'[s].exists /\ disk'[s].adapter = training
        BY <4>1, <4>3
      <4> QED BY <4>2, <4>4
    <3> QED BY <3>3, <3>4
  <2>2. \A q \in Rank \ {Main} : saved'[q] = {}
    BY <1>5 DEF StepsInOrder
  <2> QED BY <1>1, <2>1, <2>2 DEF LedgerIsOnDisk, LedgerIsOwn
<1>11. StepsInOrder'
  <2>1. ASSUME NEW s \in saved'[Main] PROVE s <= step
    <3>1. step \in Nat /\ (s = step \/ s \in saved[Main])
      BY <1>2, <1>5
    <3>2. \A t \in saved[Main] : t <= step
      BY DEF StepsInOrder
    <3> QED BY <3>1, <3>2
  <2> QED BY <1>1, <1>2, <1>3, <1>5, <2>1 DEF StepsInOrder
<1>12. TargetIsCalm'
  <2>1. ASSUME NEW q \in Rank, NEW t \in Step, t = ladder[q].lastGood
        PROVE  t <= calm[q] /\ IsOwn(t)'
    <3>1. q = Main /\ t <= calm[q] /\ IsOwn(t)
      BY <2>1 DEF TargetIsCalm, StepsInOrder
    <3>2. t # step
      BY <1>2, <3>1 DEF RTypeOK
    <3> QED BY <1>8, <3>1, <3>2
  <2>2. \A q \in Rank : ladder[q].lastGood \in Step \cup {NoStep}
    BY DEF RTypeOK
  <2> QED BY <1>1, <2>1, <2>2 DEF TargetIsCalm
<1>13. RestoredIsCalm' /\ TargetOutlivesTheStreak'
  BY <1>1, <1>4 DEF RestoredIsCalm, TargetOutlivesTheStreak
<1>14. VerdictsAreCounted'
  BY <1>1, <1>3 DEF VerdictsAreCounted
<1>15. OnDisk(after) = OnDisk(disk) \cup {step}
  BY <1>2, <1>4 DEF OnDisk
<1>16. DiskIsTheLedger'
  <2> SUFFICES ASSUME Smooth' PROVE /\ OnDisk(disk)' = saved'[Main]
                                    /\ \A s \in saved'[Main] : s % SaveEvery = 0
    BY DEF DiskIsTheLedger
  <2>1. OnDisk(disk) = saved[Main] /\ \A s \in saved[Main] : s % SaveEvery = 0
    BY <1>1 DEF DiskIsTheLedger, Smooth
  <2>2. \A s \in Step : s \in OnDisk(disk)' <=> s \in OnDisk(after) /\ s \notin pruned
    BY <1>6 DEF OnDisk
  <2>3. OnDisk(disk)' = OnDisk(after) \ pruned
    BY <2>2 DEF OnDisk
  <2> QED BY <1>1, <1>5, <1>15, <2>1, <2>3
<1>17. TargetIsKept'
  <2> SUFFICES ASSUME Smooth', NEW t \in Step, t = ladder[Main].lastGood
               PROVE  /\ step - calm[Main] <= hacked[Main] + 1
                      /\ \A s \in saved'[Main] : s > t => s > calm[Main]
                      /\ AmplyKept /\ ladder[Main].attempts < MaxAttempts => t \in saved'[Main]
    BY <1>1, <1>2, <1>3 DEF TargetIsKept, AmplyKept, RTypeOK
  <2>1. Smooth /\ t # NoStep
    BY <1>1 DEF Smooth
  <2>2. /\ step - calm[Main] <= hacked[Main] + 1
        /\ \A s \in saved[Main] : s > t => s > calm[Main]
        /\ AmplyKept /\ ladder[Main].attempts < MaxAttempts => t \in saved[Main]
    BY <1>2, <2>1 DEF TargetIsKept
  <2>3. calm[Main] \in Nat /\ step \in Nat /\ calm[Main] < step
    BY <1>2 DEF RTypeOK
  <2>4. \A s \in saved'[Main] : s > t => s > calm[Main]
    BY <1>5, <2>2, <2>3
  <2>5. ASSUME AmplyKept, ladder[Main].attempts < MaxAttempts
        PROVE  t \in saved'[Main]
    <3> DEFINE newer == {u \in OnDisk(after) : u > t}
    <3>1. \A u \in newer : u \in Nat /\ calm[Main] < u /\ u <= step /\ u % SaveEvery = 0
      <4>1. OnDisk(disk) = saved[Main] /\ \A s \in saved[Main] : s % SaveEvery = 0
        BY <2>1 DEF DiskIsTheLedger
      <4>2. \A s \in saved[Main] : s <= step
        BY DEF StepsInOrder
      <4>3. ASSUME NEW u \in newer
            PROVE  u \in Nat /\ calm[Main] < u /\ u <= step /\ u % SaveEvery = 0
        <5>1. u > t /\ u \in saved[Main] \cup {step}
          BY <1>15, <4>1, <4>3
        <5>2. CASE u = step
          BY <1>1, <2>3, <5>2
        <5>3. CASE u \in saved[Main]
          <6>1. u \in Nat /\ u > calm[Main]
            BY <1>5, <2>2, <5>1, <5>3
          <6> QED BY <2>3, <4>1, <4>2, <5>3, <6>1
        <5> QED BY <5>1, <5>2, <5>3
      <4> QED BY <4>3
    <3>2. step - calm[Main] <= SaveEvery * (KeepLast - 1)
      BY <1>2, <2>1, <2>5, ClimbIsShort
    <3>3. PICK k \in Nat : k = KeepLast - 1
      OBVIOUS
    <3>4. newer \in SUBSET Nat
      BY <3>1
    <3>5. IsFiniteSet(newer) /\ Cardinality(newer) <= k
      <4>1. step - calm[Main] <= SaveEvery * k
        BY <3>2, <3>3
      <4>2. PICK D \in SUBSET Nat : D = newer
        BY <3>4
      <4>3. \A d \in D : calm[Main] < d /\ d <= step /\ d % SaveEvery = 0
        BY <3>1, <4>2
      <4>4. IsFiniteSet(D) /\ Cardinality(D) <= k
        <5> HIDE <3>1, <3>4, <4>2 DEF newer
        <5> QED BY <2>3, <4>1, <4>3, FewMultiples
      <4> QED BY <4>2, <4>4
    <3>6. Cardinality(newer) \in Nat
      BY <3>5, FS_CardinalityType
    <3>7. ~(Cardinality(newer) >= KeepLast)
      BY <3>3, <3>5, <3>6
    <3>8. t \notin Surplus(after)
      BY <3>7 DEF Surplus
    <3> QED BY <1>4, <1>5, <2>2, <2>5, <3>8
  <2> QED BY <2>2, <2>4, <2>5
<1> QED BY <1>7, <1>10, <1>11, <1>12, <1>13, <1>14, <1>16, <1>17

LEMMA SaveFailsKeeps ==
  ASSUME ClimbInv, NotSavedYet, NEW r \in Rank, SaveFails(r)
  PROVE  ClimbInv'
<1> USE LadderConstants DEF ClimbInv
<1>1. /\ r = Main /\ pc[Main] = "saving" /\ RankGoes(r, "judging")
      /\ UNCHANGED <<training, step, saved, bare, ladder, stop, rollback, calm, hacked>>
  BY DEF SaveFails, Due
<1>2. InCallbacks(Main) /\ step \in Step /\ calm[Main] + 1 <= step
  BY <1>1 DEF InCallbacks, StepsInOrder
<1>3. \A q \in Rank : InCallbacks(q)' <=> InCallbacks(q)
  BY <1>1, RankMoves DEF InCallbacks, Pcs
<1>4. pc' \in [Rank -> Pcs]
  BY <1>1, RankMoves DEF Pcs
<1>5. CASE UNCHANGED <<disk, mishap>>
  BY <1>1, <1>3, <1>4, <1>5, LadderRests DEF checkpoints, ladderControl
<1>6. ASSUME NEW left \in {[disk[step] EXCEPT !.exists = TRUE]}
                             \cup {Written(disk[step], optimizerToo) : optimizerToo \in BOOLEAN},
             disk' = [disk EXCEPT ![step] = left], mishap' = [mishap EXCEPT ![r] = TRUE]
      PROVE  ClimbInv'
  <2>1. left \in StepDir
    <3>1. disk[step] \in StepDir /\ training \in Whose
      BY <1>2 DEF RTypeOK, Whose
    <3>2. [disk[step] EXCEPT !.exists = TRUE] \in StepDir
      BY <3>1 DEF StepDir
    <3>3. \A optimizerToo \in BOOLEAN : Written(disk[step], optimizerToo) \in StepDir
      BY <3>1 DEF StepDir, Written
    <3> QED BY <1>6, <3>2, <3>3
  <2>2. /\ disk' \in [Step -> StepDir] /\ mishap' \in [Rank -> BOOLEAN]
        /\ mishap'[Main]
        /\ \A s \in Step \ {step} : disk'[s] = disk[s]
    BY <1>1, <1>2, <1>6, <2>1 DEF RTypeOK
  <2>3. RTypeOK'
    BY <1>1, <1>4, <2>2 DEF RTypeOK, Pcs
  <2>4. LedgerIsOnDisk' /\ LedgerIsOwn'
    <3>1. \A q \in Rank : saved[q] \subseteq Step /\ step \notin saved[q]
      BY <1>1 DEF RTypeOK, NotSavedYet, StepsInOrder
    <3>2. \A q \in Rank : \A s \in saved'[q] :
            s \in saved[q] /\ disk'[s] = disk[s] /\ bare' = bare /\ training' = training
      BY <1>1, <2>2, <3>1
    <3> QED BY <3>2 DEF LedgerIsOnDisk, LedgerIsOwn, IsOwn
  <2>5. StepsInOrder'
    BY <1>1, <1>3 DEF StepsInOrder
  <2>6. TargetIsCalm'
    <3>1. ASSUME NEW q \in Rank, NEW t \in Step, t = ladder[q].lastGood
          PROVE  t <= calm[q] /\ IsOwn(t)'
      <4>1. q = Main /\ t <= calm[q] /\ IsOwn(t)
        BY <3>1 DEF TargetIsCalm, StepsInOrder
      <4>2. t # step
        BY <1>2, <4>1 DEF RTypeOK
      <4> QED BY <1>1, <2>2, <4>1, <4>2 DEF IsOwn
    <3>2. \A q \in Rank : ladder[q].lastGood \in Step \cup {NoStep}
      BY DEF RTypeOK
    <3> QED BY <1>1, <3>1, <3>2 DEF TargetIsCalm
  <2>7. RestoredIsCalm'
    BY <1>1 DEF RestoredIsCalm
  <2>8. TargetOutlivesTheStreak'
    BY <1>1, <2>2 DEF TargetOutlivesTheStreak, RestoredIsCalm, NoRollback
  <2>9. VerdictsAreCounted'
    BY <1>1, <1>3 DEF VerdictsAreCounted
  <2>10. DiskIsTheLedger' /\ TargetIsKept'
    BY <2>2 DEF DiskIsTheLedger, TargetIsKept, Smooth
  <2> QED BY <2>3, <2>4, <2>5, <2>6, <2>7, <2>8, <2>9, <2>10
<1> QED BY <1>5, <1>6 DEF SaveFails

-----------------------------------------------------------------------------
\* Every set of naturals has a least element, so every set of steps a last.

LEMMA LastStepExists ==
  ASSUME NEW S \in SUBSET Step, S # {}
  PROVE  Max(S) \in S /\ \A s \in S : s <= Max(S)
<1>1. PICK T \in SUBSET Nat : T = {MaxStep - s : s \in S}
  <2>1. \A s \in S : MaxStep - s \in Nat
    BY LadderConstants DEF Step
  <2> QED BY <2>1
<1>2. IsWellFoundedOn(Less, Nat)
  BY NatLessThanWellFounded DEF OpToRel, Less
<1>3. \E x \in T : \A y \in T : ~(<<y, x>> \in Less)
  <2>1. T # {}
    BY <1>1
  <2> QED BY <1>2, <2>1, WFMin, Zenon
<1>4. PICK x \in T : \A y \in T : ~(<<y, x>> \in Less)
  BY <1>3
<1>5. PICK m \in S : x = MaxStep - m
  BY <1>1
<1>6. \A s \in S : m >= s
  <2>1. \A s \in S : s \in Nat /\ MaxStep - s \in T /\ MaxStep - s \in Nat /\ MaxStep \in Nat
    BY <1>1, LadderConstants DEF Step
  <2>2. \A s \in S : ~(MaxStep - s < MaxStep - m)
    BY <1>4, <1>5, <2>1 DEF Less
  <2> QED BY <2>1, <2>2
<1>7. Max(S) \in S /\ \A y \in S : Max(S) >= y
  BY <1>6 DEF Max
<1> QED BY <1>7, LadderConstants

LEMMA JudgesCalmKeeps ==
  ASSUME ClimbInv, NEW r \in Rank, JudgesCalm(r)
  PROVE  ClimbInv'
<1> USE LadderConstants DEF ClimbInv
<1>1. /\ pc[r] = "judging" /\ RankGoes(r, "stepping")
      /\ UNCHANGED <<training, step, stop, rollback, mishap, disk, saved, bare>>
      /\ calm' = [calm EXCEPT ![r] = step] /\ hacked' = [hacked EXCEPT ![r] = 0]
      /\ ladder' = [ladder EXCEPT ![r].streak = 0, ![r].lastGood = LastGood(r)]
  BY DEF JudgesCalm, checkpoints
<1>2. InCallbacks(r) /\ step \in Step /\ calm[r] + 1 <= step /\ ~stop[r]
  BY <1>1 DEF InCallbacks, StepsInOrder, VerdictsAreCounted
<1>3. /\ pc' \in [Rank -> Pcs] /\ ~InCallbacks(r)'
      /\ \A q \in Rank \ {r} : InCallbacks(q)' <=> InCallbacks(q)
  BY <1>1, RankMoves DEF InCallbacks, Pcs
<1>4. PICK g \in Step \cup {NoStep} :
        /\ g = LastGood(r)
        /\ saved[r] = {} => g = ladder[r].lastGood
        /\ saved[r] # {} => g \in saved[r] /\ \A s \in saved[r] : s <= g
  <2>1. saved[r] \in SUBSET Step /\ ladder[r].lastGood \in Step \cup {NoStep}
    BY DEF RTypeOK
  <2> QED BY <2>1, LastStepExists DEF LastGood
<1>5. /\ ladder' \in [Rank -> LadderState]
      /\ ladder'[r].streak = 0 /\ ladder'[r].lastGood = g
      /\ ladder'[r].attempts = ladder[r].attempts
      /\ \A q \in Rank \ {r} : ladder'[q] = ladder[q]
  <2>1. ladder \in [Rank -> LadderState]
    BY DEF RTypeOK, LadderState
  <2>2. PICK w : w = [ladder[r] EXCEPT !.streak = 0, !.lastGood = g]
    OBVIOUS
  <2>3. ladder[r] \in LadderState
    BY <2>1
  <2>4. /\ w \in LadderState /\ w.streak = 0 /\ w.lastGood = g
        /\ w.attempts = ladder[r].attempts
    <3>1. 0 \in 0 .. Patience
      OBVIOUS
    <3> QED BY <2>2, <2>3, <3>1 DEF LadderState
  <2>5. ladder' = [ladder EXCEPT ![r] = w]
    BY <1>1, <1>4, <2>2
  <2> HIDE <1>1
  <2> QED BY <2>1, <2>4, <2>5
<1>6. /\ calm'[r] = step /\ hacked'[r] = 0
      /\ \A q \in Rank \ {r} : calm'[q] = calm[q] /\ hacked'[q] = hacked[q]
      /\ \A q \in Rank : calm[q] \in Nat /\ calm'[q] \in Nat /\ calm[q] <= calm'[q]
  BY <1>1, <1>2 DEF RTypeOK
<1>7. RTypeOK'
  <2>1. calm' \in [Rank -> 0 .. MaxStep] /\ hacked' \in [Rank -> Nat]
    BY <1>1, <1>2 DEF RTypeOK, Step
  <2> QED BY <1>1, <1>3, <1>5, <2>1 DEF RTypeOK, Pcs, LadderState
<1>8. LedgerIsOnDisk' /\ LedgerIsOwn' /\ \A t \in Step : IsOwn(t)' <=> IsOwn(t)
  BY <1>1 DEF LedgerIsOnDisk, LedgerIsOwn, IsOwn
<1>9. StepsInOrder'
  <2>1. \A q \in Rank : q # Main => saved'[q] = {} /\ ladder'[q].lastGood = NoStep
    BY <1>1, <1>4, <1>5 DEF StepsInOrder
  <2>2. \A q \in Rank : \A s \in saved'[q] : s <= step
    BY <1>1 DEF StepsInOrder
  <2>3. ASSUME NEW q \in Rank
        PROVE  /\ InCallbacks(q)' => step' \in Step
               /\ calm'[q] + (IF InCallbacks(q)' THEN 1 ELSE 0) <= step'
    <3>1. step' = step /\ step \in Nat
      BY <1>1, <1>2
    <3>2. CASE q = r
      <4>1. calm'[q] = step /\ ~InCallbacks(q)'
        BY <1>3, <1>6, <3>2
      <4> QED BY <3>1, <4>1
    <3>3. CASE q # r
      <4>1. calm'[q] = calm[q] /\ (InCallbacks(q)' <=> InCallbacks(q))
        BY <1>3, <1>6, <3>3
      <4>2. /\ InCallbacks(q) => step \in Step
            /\ calm[q] + (IF InCallbacks(q) THEN 1 ELSE 0) <= step
        BY DEF StepsInOrder
      <4> QED BY <3>1, <4>1, <4>2
    <3> QED BY <3>2, <3>3
  <2>4. \A q \in Rank : \A s \in saved'[q] : s <= step'
    BY <1>1, <2>2
  <2> QED BY <2>1, <2>3, <2>4 DEF StepsInOrder
<1>10. TargetIsCalm'
  <2>1. ASSUME NEW q \in Rank, NEW t \in Step, t = ladder'[q].lastGood
        PROVE  t <= calm'[q] /\ IsOwn(t)
    <3>1. CASE t = ladder[q].lastGood
      <4>1. t <= calm[q] /\ IsOwn(t)
        BY <2>1, <3>1 DEF TargetIsCalm
      <4>2. t \in Nat /\ calm[q] \in Nat /\ calm'[q] \in Nat /\ calm[q] <= calm'[q]
        BY <1>6
      <4> QED BY <4>1, <4>2
    <3>2. CASE q = r /\ saved[r] # {}
      <4>1. t \in saved[r]
        BY <1>4, <1>5, <2>1, <3>2
      <4> QED BY <1>6, <3>2, <4>1 DEF StepsInOrder, LedgerIsOwn
    <3> QED BY <1>4, <1>5, <2>1, <3>1, <3>2
  <2>2. \A q \in Rank : ladder'[q].lastGood \in Step \cup {NoStep}
    BY <1>5 DEF LadderState
  <2> QED BY <1>8, <2>1, <2>2 DEF TargetIsCalm
<1>11. RestoredIsCalm' /\ TargetOutlivesTheStreak'
  <2>1. ASSUME NEW q \in Rank, NEW t \in Step, t <= calm[q]
        PROVE  t <= calm'[q]
    <3>1. calm[q] \in Nat /\ calm'[q] \in Nat /\ calm[q] <= calm'[q]
      BY <1>6
    <3>2. t \in Nat
      OBVIOUS
    <3> QED BY <2>1, <3>1, <3>2
  <2> QED BY <1>1, <2>1 DEF RestoredIsCalm, TargetOutlivesTheStreak
<1>12. VerdictsAreCounted'
  <2>1. Patience * ladder[r].attempts \in Nat
    BY ProductsGrow DEF RTypeOK
  <2> QED BY <1>1, <1>2, <1>3, <1>5, <1>6, <2>1 DEF VerdictsAreCounted
<1>13. DiskIsTheLedger'
  BY <1>1 DEF DiskIsTheLedger, Smooth, OnDisk
<1>14. TargetIsKept'
  <2>1. CASE r = Main
    <3> SUFFICES ASSUME Smooth, g # NoStep
                 PROVE  /\ step - step <= 0
                        /\ \A s \in saved[Main] : s > g => s > step
                        /\ AmplyKept /\ ladder[Main].attempts < MaxAttempts => g \in saved[Main]
      BY <1>1, <1>3, <1>5, <1>6, <2>1 DEF TargetIsKept, Smooth, AmplyKept
    <3>1. \A s \in saved[Main] : s \in Nat /\ g \in Nat /\ s <= g
      BY <1>4, <2>1 DEF RTypeOK
    <3>2. saved[Main] = {} => /\ ladder[Main].lastGood = g
                              /\ ~(AmplyKept /\ ladder[Main].attempts < MaxAttempts)
      BY <1>4, <2>1 DEF TargetIsKept
    <3> QED BY <1>2, <1>4, <2>1, <3>1, <3>2
  <2>2. CASE r # Main
    <3>1. /\ ladder'[Main] = ladder[Main] /\ calm'[Main] = calm[Main]
          /\ hacked'[Main] = hacked[Main]
          /\ InCallbacks(Main)' <=> InCallbacks(Main)
      BY <1>3, <1>5, <1>6, <2>2
    <3> QED BY <1>1, <3>1 DEF TargetIsKept, Smooth, AmplyKept
  <2> QED BY <2>1, <2>2
<1> QED BY <1>7, <1>8, <1>9, <1>10, <1>11, <1>12, <1>13, <1>14

\* The target is the same, and the attempts and the streak have counted the verdict.
Counted(r, w) ==
  /\ ladder' = [ladder EXCEPT ![r] = w]
  /\ w.lastGood = ladder[r].lastGood /\ ladder[r].attempts <= w.attempts
  /\ HasTarget(r) => Patience * ladder[r].attempts + ladder[r].streak + 1
                       <= Patience * w.attempts + w.streak
  /\ stop' \in [Rank -> BOOLEAN] /\ \A q \in Rank \ {r} : stop'[q] = stop[q]
  /\ ~stop'[r] => w.streak < Patience
  /\ rollback' \in [Rank -> RollbackState]

\* After any HACK verdict.
LEMMA AfterHack ==
  ASSUME ClimbInv, NEW r \in Rank, Hacks(r), NEW w \in LadderState, Counted(r, w),
         RestoredIsCalm', TargetOutlivesTheStreak'
  PROVE  ClimbInv'
<1> USE LadderConstants DEF ClimbInv
<1>1. /\ pc[r] = "judging" /\ RankGoes(r, "stepping")
      /\ UNCHANGED <<training, step, calm, mishap, disk, saved, bare>>
      /\ hacked' = [hacked EXCEPT ![r] = IF HasTarget(r) THEN @ + 1 ELSE 0]
  BY DEF Hacks, checkpoints
<1>0. /\ ladder' = [ladder EXCEPT ![r] = w]
      /\ w.lastGood = ladder[r].lastGood /\ ladder[r].attempts <= w.attempts
      /\ HasTarget(r) => Patience * ladder[r].attempts + ladder[r].streak + 1
                           <= Patience * w.attempts + w.streak
      /\ stop' \in [Rank -> BOOLEAN] /\ \A q \in Rank \ {r} : stop'[q] = stop[q]
      /\ ~stop'[r] => w.streak < Patience
      /\ rollback' \in [Rank -> RollbackState]
  BY DEF Counted
<1>2. InCallbacks(r) /\ step \in Step /\ calm[r] + 1 <= step
  BY <1>1 DEF InCallbacks, StepsInOrder
<1>3. /\ pc' \in [Rank -> Pcs] /\ ~InCallbacks(r)'
      /\ \A q \in Rank \ {r} : InCallbacks(q)' <=> InCallbacks(q)
  BY <1>1, RankMoves DEF InCallbacks, Pcs
<1>4. ladder \in [Rank -> LadderState]
  BY DEF RTypeOK, LadderState
<1>5. /\ ladder' \in [Rank -> LadderState] /\ ladder'[r] = w
      /\ \A q \in Rank \ {r} : ladder'[q] = ladder[q]
      /\ \A q \in Rank : ladder'[q].lastGood = ladder[q].lastGood
  BY <1>0, <1>4
<1>6. /\ hacked' \in [Rank -> Nat]
      /\ hacked'[r] = IF HasTarget(r) THEN hacked[r] + 1 ELSE 0
      /\ \A q \in Rank \ {r} : hacked'[q] = hacked[q]
  BY <1>1 DEF RTypeOK
<1>7. RTypeOK'
  BY <1>0, <1>1, <1>3, <1>5, <1>6 DEF RTypeOK, Pcs, LadderState, RollbackState
<1>8. LedgerIsOnDisk' /\ LedgerIsOwn' /\ TargetIsCalm'
  BY <1>1, <1>5 DEF LedgerIsOnDisk, LedgerIsOwn, IsOwn, TargetIsCalm
<1>9. StepsInOrder'
  <2>1. \A q \in Rank : calm[q] \in Nat /\ step \in Nat
    BY DEF RTypeOK
  <2> QED BY <1>1, <1>2, <1>3, <1>5, <2>1 DEF StepsInOrder
<1>10. VerdictsAreCounted'
  <2>1. /\ hacked'[r] <= Patience * w.attempts + w.streak
        /\ w.lastGood = NoStep => hacked'[r] = 0
    <3>1. /\ Patience * w.attempts \in Nat /\ w.streak \in Nat /\ hacked[r] \in Nat
          /\ Patience * ladder[r].attempts \in Nat /\ ladder[r].streak \in Nat
      BY <1>4, ProductsGrow DEF LadderState, RTypeOK
    <3>2. CASE HasTarget(r)
      <4>1. hacked[r] <= Patience * ladder[r].attempts + ladder[r].streak
        BY DEF VerdictsAreCounted
      <4> QED BY <1>0, <1>6, <3>1, <3>2, <4>1 DEF HasTarget
    <3>3. CASE ~HasTarget(r)
      BY <1>0, <1>6, <3>1, <3>3 DEF HasTarget
    <3> QED BY <3>2, <3>3
  <2>2. \A q \in Rank \ {r} :
          /\ hacked'[q] <= Patience * ladder'[q].attempts + ladder'[q].streak
          /\ ladder'[q].lastGood = NoStep => hacked'[q] = 0
          /\ ~stop'[q] => ladder'[q].streak < Patience
          /\ stop'[q] => ~InCallbacks(q)'
    BY <1>0, <1>3, <1>5, <1>6 DEF VerdictsAreCounted
  <2>3. /\ ~stop'[r] => w.streak < Patience
        /\ stop'[r] => ~InCallbacks(r)'
    BY <1>0, <1>3
  <2> QED BY <1>5, <2>1, <2>2, <2>3 DEF VerdictsAreCounted
<1>11. DiskIsTheLedger'
  BY <1>1 DEF DiskIsTheLedger, Smooth, OnDisk
<1>12. TargetIsKept'
  <2> SUFFICES ASSUME Smooth, ladder[Main].lastGood # NoStep
               PROVE  /\ step - calm[Main] <= hacked'[Main] + (IF InCallbacks(Main)' THEN 1 ELSE 0)
                      /\ \A s \in saved[Main] : s > ladder[Main].lastGood => s > calm[Main]
                      /\ AmplyKept /\ ladder'[Main].attempts < MaxAttempts =>
                           ladder[Main].lastGood \in saved[Main]
    BY <1>1, <1>5 DEF TargetIsKept, Smooth, AmplyKept
  <2>1. /\ step - calm[Main] <= hacked[Main] + (IF InCallbacks(Main) THEN 1 ELSE 0)
        /\ \A s \in saved[Main] : s > ladder[Main].lastGood => s > calm[Main]
        /\ AmplyKept /\ ladder[Main].attempts < MaxAttempts => ladder[Main].lastGood \in saved[Main]
    BY DEF TargetIsKept
  <2>2. /\ step \in Nat /\ calm[Main] \in Nat /\ hacked[Main] \in Nat
        /\ ladder[Main].attempts \in Nat /\ ladder'[Main].attempts \in Nat
    BY <1>4, <1>5 DEF RTypeOK, LadderState
  <2>3. CASE r = Main
    <3>1. hacked'[Main] = hacked[Main] + 1 /\ InCallbacks(Main) /\ ~InCallbacks(Main)'
      BY <1>2, <1>3, <1>6, <2>3 DEF HasTarget
    <3>2. ladder'[Main].attempts < MaxAttempts => ladder[Main].attempts < MaxAttempts
      BY <1>0, <1>5, <2>2, <2>3
    <3> QED BY <2>1, <2>2, <3>1, <3>2
  <2>4. CASE r # Main
    BY <1>3, <1>5, <1>6, <2>1, <2>4
  <2> QED BY <2>3, <2>4
<1> QED BY <1>7, <1>8, <1>9, <1>10, <1>11, <1>12

LEMMA JudgesHackKeeps ==
  ASSUME ClimbInv, NEW r \in Rank, JudgesHack(r)
  PROVE  ClimbInv'
<1> USE LadderConstants DEF ClimbInv
<1>1. /\ Hacks(r) /\ UNCHANGED <<stop, rollback, calm, training, mishap, bare>>
      /\ ~(Persistent(r) /\ HasTarget(r))
      /\ ladder' = [ladder EXCEPT ![r].streak = IF Persistent(r) THEN 0 ELSE @ + 1]
  BY DEF JudgesHack, Hacks, checkpoints
<1>2. ladder[r] \in LadderState /\ stop \in [Rank -> BOOLEAN]
  BY DEF RTypeOK, LadderState
<1>3. PICK n : n = IF Persistent(r) THEN 0 ELSE ladder[r].streak + 1
  OBVIOUS
<1>4. n \in 0 .. Patience /\ n < Patience /\ (HasTarget(r) => n = ladder[r].streak + 1)
  BY <1>1, <1>2, <1>3 DEF LadderState, Persistent
<1>5. PICK w : w = [ladder[r] EXCEPT !.streak = n]
  OBVIOUS
<1>6. /\ w \in LadderState /\ w.streak = n /\ w.lastGood = ladder[r].lastGood
      /\ w.attempts = ladder[r].attempts
  BY <1>2, <1>4, <1>5 DEF LadderState
<1>7. ladder' = [ladder EXCEPT ![r] = w]
  BY <1>1, <1>3, <1>5
<1>8. Patience * ladder[r].attempts \in Nat /\ ladder[r].attempts \in Nat /\ n \in Nat
      /\ ladder[r].streak \in Nat
  BY <1>2, <1>4, ProductsGrow DEF LadderState
<1>9. RestoredIsCalm' /\ TargetOutlivesTheStreak'
  BY <1>1 DEF RestoredIsCalm, TargetOutlivesTheStreak
<1>10. rollback' \in [Rank -> RollbackState]
  BY <1>1 DEF RTypeOK, RollbackState
<1>11. /\ ladder[r].attempts <= w.attempts
       /\ ~stop'[r] => w.streak < Patience
       /\ HasTarget(r) => Patience * ladder[r].attempts + ladder[r].streak + 1
                            <= Patience * w.attempts + w.streak
  BY <1>4, <1>6, <1>8
<1>12. stop' \in [Rank -> BOOLEAN] /\ \A q \in Rank \ {r} : stop'[q] = stop[q]
  BY <1>1, <1>2
<1> HIDE DEF ClimbInv
<1>13. Counted(r, w)
  BY <1>6, <1>7, <1>10, <1>11, <1>12 DEF Counted
<1> QED BY <1>1, <1>6, <1>9, <1>13, AfterHack

\* A rollback is the main rank's: its target is in the ledger as long as an attempt is
\* left, and what is in the ledger has a directory.
LEMMA RollsBackKeeps ==
  ASSUME ClimbInv, NEW r \in Rank, RollsBack(r)
  PROVE  ClimbInv'
<1> USE LadderConstants DEF ClimbInv
<1>1. PICK t : t = ladder[r].lastGood
  OBVIOUS
<1>2. PICK how \in Restored(t) :
        /\ ladder' = [ladder EXCEPT ![r] = Attempted(r, how.outcome)]
        /\ rollback' = [rollback EXCEPT ![r] = how]
  BY <1>1 DEF RollsBack
<1>3. /\ Hacks(r) /\ UNCHANGED <<stop, calm, training, mishap, bare>>
      /\ HasTarget(r) /\ ~Spent(r)
      /\ pc[r] = "judging"
  BY DEF RollsBack, Hacks, checkpoints
<1>4. t \in Step /\ t # NoStep /\ r = Main
  BY <1>1, <1>3 DEF HasTarget, RTypeOK, StepsInOrder
<1>5. /\ ladder[r] \in LadderState /\ stop \in [Rank -> BOOLEAN]
      /\ disk[t] \in StepDir /\ ladder[r].attempts < MaxAttempts
      /\ how \in RollbackState /\ how.target = t
      /\ how.outcome = "missing" => ~disk[t].exists
      /\ how.outcome = "restored" => /\ disk[t].exists
                                     /\ how.adapter \in {0, disk[t].adapter}
                                     /\ how.optimizer \in {0, disk[t].optimizer}
  <2>1. ladder[r] \in LadderState /\ stop \in [Rank -> BOOLEAN] /\ disk[t] \in StepDir
    BY <1>4 DEF RTypeOK, LadderState
  <2>2. ladder[r].attempts < MaxAttempts
    BY <1>3, <2>1 DEF Spent, LadderState
  <2>3. 0 \in Whose /\ disk[t].adapter \in Whose /\ disk[t].optimizer \in Whose
    BY <2>1 DEF StepDir, Whose
  <2>4. CASE ~disk[t].exists
    <3>1. how = [NoRollback EXCEPT !.target = t, !.outcome = "missing"]
      BY <1>2, <2>4 DEF Restored
    <3>2. how = [target |-> t, outcome |-> "missing", adapter |-> 0, optimizer |-> 0]
      BY <3>1 DEF NoRollback
    <3> QED BY <1>4, <2>1, <2>2, <2>3, <2>4, <3>2 DEF RollbackState
  <2>5. CASE disk[t].exists
    <3>1. PICK x \in {0, disk[t].adapter}, y \in {0, disk[t].optimizer} :
            how = [target |-> t, adapter |-> x, optimizer |-> y,
                   outcome |-> IF x = 0 /\ y = 0 THEN "failed" ELSE "restored"]
      BY <1>2, <2>5 DEF Restored
    <3>2. how \in RollbackState /\ how.target = t /\ how.outcome # "missing"
      BY <1>4, <2>3, <3>1 DEF RollbackState
    <3>3. how.adapter = x /\ how.optimizer = y
      BY <3>1
    <3> QED BY <2>1, <2>2, <2>5, <3>2, <3>3
  <2> QED BY <2>4, <2>5
<1>6. PICK w : w = [ladder[r] EXCEPT !.streak = 0, !.attempts = @ + 1]
  OBVIOUS
<1>7. /\ w \in LadderState /\ w.streak = 0 /\ w.lastGood = ladder[r].lastGood
      /\ w.attempts = ladder[r].attempts + 1
  <2>1. 0 \in 0 .. Patience /\ ladder[r].attempts + 1 \in 0 .. MaxAttempts
    BY <1>5 DEF LadderState
  <2> QED BY <1>5, <1>6, <2>1 DEF LadderState
<1>8. ladder' = [ladder EXCEPT ![r] = w]
  BY <1>2, <1>6 DEF Attempted
<1>9. /\ rollback' \in [Rank -> RollbackState]
      /\ rollback'[r] = how
      /\ \A q \in Rank \ {r} : rollback'[q] = rollback[q]
  BY <1>2, <1>4, <1>5 DEF RTypeOK, RollbackState
<1>10. RestoredIsCalm'
  <2>1. t <= calm[r] /\ IsOwn(t)
    BY <1>1, <1>4 DEF TargetIsCalm
  <2>2. how.outcome = "restored" => /\ how.target \in Step /\ how.target <= calm[r]
                                    /\ how.adapter \in {0, training}
                                    /\ how.optimizer \in {0, training} \/ how.target \in bare
    BY <1>4, <1>5, <2>1 DEF IsOwn
  <2> QED BY <1>3, <1>4, <1>9, <2>1, <2>2 DEF RestoredIsCalm
<1>11. TargetOutlivesTheStreak'
  <2>1. ASSUME AmplyKept, training = 1, ~mishap[Main]
        PROVE  how.outcome # "missing"
    <3>1. t \in saved[Main]
      BY <1>1, <1>4, <1>5, <2>1 DEF TargetIsKept, Smooth
    <3> QED BY <1>5, <3>1 DEF LedgerIsOnDisk
  <2> QED BY <1>3, <1>4, <1>9, <2>1 DEF TargetOutlivesTheStreak, AmplyKept
<1>12. /\ ladder[r].attempts <= w.attempts
       /\ ~stop'[r] => w.streak < Patience
       /\ HasTarget(r) => Patience * ladder[r].attempts + ladder[r].streak + 1
                            <= Patience * w.attempts + w.streak
  <2>1. ladder[r].attempts \in Nat /\ ladder[r].streak \in Nat
    BY <1>5 DEF LadderState
  <2>2. ladder[r].streak < Patience
    BY <1>3 DEF VerdictsAreCounted, InCallbacks
  <2>3. /\ Patience * ladder[r].attempts \in Nat
        /\ Patience * w.attempts = Patience * ladder[r].attempts + Patience
    BY <1>7, <2>1, ProductsGrow
  <2> QED BY <1>7, <2>1, <2>2, <2>3
<1>13. stop' \in [Rank -> BOOLEAN] /\ \A q \in Rank \ {r} : stop'[q] = stop[q]
  BY <1>3, <1>5
<1> HIDE DEF ClimbInv
<1>14. Counted(r, w)
  BY <1>7, <1>8, <1>9, <1>12, <1>13 DEF Counted
<1> QED BY <1>3, <1>7, <1>10, <1>11, <1>14, AfterHack

LEMMA GivesUpKeeps ==
  ASSUME ClimbInv, NEW r \in Rank, GivesUp(r)
  PROVE  ClimbInv'
<1> USE LadderConstants DEF ClimbInv
<1>1. /\ Hacks(r) /\ UNCHANGED <<rollback, calm, training, mishap, bare>>
      /\ pc[r] = "judging" /\ stop' = [stop EXCEPT ![r] = TRUE]
      /\ ladder' = [ladder EXCEPT ![r].streak = Patience]
  BY DEF GivesUp, Hacks, checkpoints
<1>2. ladder[r] \in LadderState /\ stop \in [Rank -> BOOLEAN]
  BY DEF RTypeOK, LadderState
<1>3. PICK w : w = [ladder[r] EXCEPT !.streak = Patience]
  OBVIOUS
<1>4. /\ w \in LadderState /\ w.streak = Patience /\ w.lastGood = ladder[r].lastGood
      /\ w.attempts = ladder[r].attempts
  <2>1. Patience \in 0 .. Patience
    OBVIOUS
  <2> QED BY <1>2, <1>3, <2>1 DEF LadderState
<1>5. ladder' = [ladder EXCEPT ![r] = w]
  BY <1>1, <1>3
<1>6. /\ Patience * ladder[r].attempts \in Nat /\ ladder[r].attempts \in Nat
      /\ ladder[r].streak \in Nat /\ ladder[r].streak < Patience
  <2>1. ~stop[r]
    BY <1>1 DEF VerdictsAreCounted, InCallbacks
  <2> QED BY <1>2, <2>1, ProductsGrow DEF LadderState, VerdictsAreCounted
<1>7. RestoredIsCalm' /\ TargetOutlivesTheStreak'
  BY <1>1 DEF RestoredIsCalm, TargetOutlivesTheStreak
<1>8. rollback' \in [Rank -> RollbackState]
  BY <1>1 DEF RTypeOK, RollbackState
<1>9. stop' \in [Rank -> BOOLEAN] /\ stop'[r] /\ \A q \in Rank \ {r} : stop'[q] = stop[q]
  BY <1>1, <1>2
<1>10. /\ ladder[r].attempts <= w.attempts
       /\ ~stop'[r] => w.streak < Patience
       /\ HasTarget(r) => Patience * ladder[r].attempts + ladder[r].streak + 1
                            <= Patience * w.attempts + w.streak
  BY <1>4, <1>6, <1>9
<1> HIDE DEF ClimbInv
<1>11. Counted(r, w)
  BY <1>4, <1>5, <1>8, <1>9, <1>10 DEF Counted
<1> QED BY <1>1, <1>4, <1>7, <1>11, AfterHack

LEMMA JudgesNothingKeeps ==
  ASSUME ClimbInv, NEW r \in Rank, JudgesNothing(r)
  PROVE  ClimbInv'
<1> USE LadderConstants DEF ClimbInv
<1>1. /\ pc[r] = "judging" /\ RankGoes(r, "stepping")
      /\ UNCHANGED <<training, step, ladder, stop, rollback, calm, hacked, disk, saved, bare>>
      /\ mishap' = [mishap EXCEPT ![r] = TRUE]
  BY DEF JudgesNothing, checkpoints
<1>2. InCallbacks(r) /\ step \in Step /\ calm[r] + 1 <= step
  BY <1>1 DEF InCallbacks, StepsInOrder
<1>3. /\ pc' \in [Rank -> Pcs] /\ ~InCallbacks(r)'
      /\ \A q \in Rank \ {r} : InCallbacks(q)' <=> InCallbacks(q)
  BY <1>1, RankMoves DEF InCallbacks, Pcs
<1>4. /\ mishap' \in [Rank -> BOOLEAN] /\ mishap'[r]
      /\ \A q \in Rank \ {r} : mishap'[q] = mishap[q]
  BY <1>1 DEF RTypeOK
<1>5. RTypeOK'
  BY <1>1, <1>3, <1>4 DEF RTypeOK, Pcs
<1>6. LedgerIsOnDisk' /\ LedgerIsOwn' /\ TargetIsCalm' /\ RestoredIsCalm'
  BY <1>1 DEF LedgerIsOnDisk, LedgerIsOwn, IsOwn, TargetIsCalm, RestoredIsCalm
<1>7. TargetOutlivesTheStreak'
  BY <1>1, <1>4 DEF TargetOutlivesTheStreak, AmplyKept
<1>8. StepsInOrder'
  <2>1. \A q \in Rank : calm[q] \in Nat /\ step \in Nat
    BY DEF RTypeOK
  <2> QED BY <1>1, <1>2, <1>3, <2>1 DEF StepsInOrder
<1>9. VerdictsAreCounted'
  BY <1>1, <1>3 DEF VerdictsAreCounted
<1>10. DiskIsTheLedger'
  <2>1. Smooth' => Smooth
    BY <1>1, <1>4 DEF Smooth
  <2> QED BY <1>1, <2>1 DEF DiskIsTheLedger, OnDisk
<1>11. TargetIsKept'
  <2>1. CASE r = Main
    BY <1>4, <2>1 DEF TargetIsKept, Smooth
  <2>2. CASE r # Main
    BY <1>1, <1>3, <1>4, <2>2 DEF TargetIsKept, Smooth, AmplyKept
  <2> QED BY <2>1, <2>2
<1> QED BY <1>5, <1>6, <1>7, <1>8, <1>9, <1>10, <1>11

LEMMA ClimbGoesOn == ClimbInv /\ NotSavedYet /\ [LadderNext]_ladderVars => ClimbInv'
<1> SUFFICES ASSUME ClimbInv, NotSavedYet, [LadderNext]_ladderVars PROVE ClimbInv'
  OBVIOUS
<1>1. RTypeOK
  BY DEF ClimbInv
<1>2. CASE UNCHANGED ladderVars
  <2>1. pc' \in [Rank -> Pcs] /\ pc' = pc
    BY <1>1, <1>2 DEF ladderVars, RTypeOK, Pcs
  <2>2. \A q \in Rank : InCallbacks(q)' <=> InCallbacks(q)
    BY <2>1 DEF InCallbacks
  <2> QED BY <1>2, <2>1, <2>2, LadderRests DEF ladderVars, checkpoints, ladderControl
<1>3. ASSUME NEW r \in Rank, SkipsJudging(r) \/ LeavesTraining(r)
      PROVE  ClimbInv'
  <2>1. /\ \/ pc[r] = "saving" /\ RankGoes(r, "judging")
           \/ pc[r] = "stepping" /\ RankGoes(r, "out")
        /\ UNCHANGED <<training, step, checkpoints, ladderControl>>
    BY <1>3 DEF SkipsJudging, LeavesTraining
  <2>2. pc' \in [Rank -> Pcs] /\ \A q \in Rank : InCallbacks(q)' <=> InCallbacks(q)
    BY <1>1, <2>1, RankMoves DEF InCallbacks, Pcs
  <2> QED BY <2>1, <2>2, LadderRests
<1>4. ASSUME NEW r \in Rank, Callbacks(r)
      PROVE  ClimbInv'
  BY <1>3, <1>4, SavesKeeps, SaveFailsKeeps, JudgesCalmKeeps, JudgesHackKeeps, RollsBackKeeps,
     GivesUpKeeps, JudgesNothingKeeps DEF Callbacks
<1> QED BY <1>2, <1>3, <1>4, TrainsStepKeeps, RerunsKeeps DEF LadderNext

LEMMA EachStepOnce == ClimbInv /\ NotSavedYet /\ [LadderNext]_ladderVars => NotSavedYet'
<1> SUFFICES ASSUME ClimbInv, NotSavedYet, [LadderNext]_ladderVars, NEW r \in Rank,
                    pc'[r] = "saving"
             PROVE  step' \notin saved'[r]
  BY DEF NotSavedYet
<1>0. RTypeOK
  BY DEF ClimbInv
<1>1. CASE TrainsStep
  <2>1. step' = step + 1 /\ saved' = saved
    BY <1>1 DEF TrainsStep, checkpoints
  <2>3. step \in Nat /\ \A s \in saved[r] : s \in Nat
    <3>1. step \in 0 .. MaxStep /\ saved[r] \in SUBSET Step
      BY <1>0 DEF RTypeOK
    <3>2. \A s \in saved[r] : s \in Nat
      BY <3>1, LadderConstants, Zenon
    <3>3. MaxStep \in Nat
      BY LadderConstants
    <3> QED BY <3>1, <3>2, <3>3
  <2>2. \A s \in saved[r] : s <= step
    BY DEF ClimbInv, StepsInOrder
  <2> QED BY <2>1, <2>2, <2>3
<1>2. CASE Reruns
  BY <1>2 DEF Reruns, All
<1>3. ASSUME NEW q \in Rank, Callbacks(q) \/ LeavesTraining(q)
      PROVE  step' \notin saved'[r]
  <2>1. /\ step' = step
        /\ \E to \in {"judging", "stepping", "out"} : RankGoes(q, to)
        /\ saved' = saved \/ \E steps : saved' = [saved EXCEPT ![q] = steps]
    BY <1>3 DEF Callbacks, Saves, SaveFails, SkipsJudging, JudgesCalm, JudgesHack, RollsBack,
       GivesUp, JudgesNothing, Hacks, LeavesTraining, checkpoints
  <2>2. r # q /\ pc[r] = "saving"
    BY <1>0, <2>1 DEF RankGoes, RTypeOK
  <2>3. saved'[r] = saved[r]
    BY <1>0, <2>1, <2>2 DEF RTypeOK
  <2> QED BY <2>1, <2>2, <2>3 DEF NotSavedYet
<1>4. CASE UNCHANGED ladderVars
  BY <1>4 DEF NotSavedYet, ladderVars
<1> QED BY <1>1, <1>2, <1>3, <1>4 DEF LadderNext

LEMMA LadderInvStarts == LadderInit => LadderInv
BY LadderStarts DEF LadderInv, LadderInit, NotSavedYet, All

LEMMA LadderInvNext == LadderInv /\ [LadderNext]_ladderVars => LadderInv'
BY ClimbGoesOn, EachStepOnce DEF LadderInv

LEMMA LadderInvAlways == LadderSpec => []LadderInv
BY LadderInvStarts, LadderInvNext, PTL DEF LadderSpec

-----------------------------------------------------------------------------
\* Every variable of a training in an output directory stays in its type.
THEOREM LadderStaysTyped == LadderSpec => []RTypeOK
<1>1. LadderInv => RTypeOK
  BY DEF LadderInv, ClimbInv
<1> QED BY <1>1, LadderInvAlways, PTL

\* A ledger entry has its directory, with this training's adapter; a rollback goes behind
\* the hacking, loads what this training wrote unless it recorded the step without having
\* written its optimizer, and finds its target when enough checkpoints are kept; and
\* no more HACK verdicts in a row than the ladder has rungs leave the training running
\* (RLCheckpointCallback.on_step_end, _escalate, _prune).
THEOREM RollbackStaysSound == LadderSpec => []RollbackIsSound
<1>1. LadderInv => LadderIsBounded
  <2> SUFFICES ASSUME LadderInv, NEW r \in Rank
               PROVE  /\ hacked[r] <= Patience * (MaxAttempts + 1)
                      /\ hacked[r] = Patience * (MaxAttempts + 1) => stop[r]
    BY DEF LadderIsBounded
  <2>1. /\ ladder[r].attempts \in 0 .. MaxAttempts /\ ladder[r].streak \in 0 .. Patience
        /\ hacked[r] \in Nat
        /\ hacked[r] <= Patience * ladder[r].attempts + ladder[r].streak
        /\ ~stop[r] => ladder[r].streak < Patience
    BY DEF LadderInv, ClimbInv, RTypeOK, VerdictsAreCounted
  <2>2. /\ Patience * ladder[r].attempts <= Patience * MaxAttempts
        /\ Patience * ladder[r].attempts \in Nat /\ Patience * MaxAttempts \in Nat
        /\ Patience * (MaxAttempts + 1) = Patience * MaxAttempts + Patience
    <3>1. PICK a \in Nat : a = ladder[r].attempts /\ a <= MaxAttempts
      BY <2>1
    <3> QED BY <3>1, LadderConstants, ProductsGrow
  <2> QED BY <2>1, <2>2, LadderConstants
<1>2. LadderInv => RollbackGoesBehindTheHacking
  BY DEF LadderInv, ClimbInv, RestoredIsCalm, RollbackGoesBehindTheHacking
<1>3. LadderInv => RollbackIsSound
  BY <1>1, <1>2 DEF LadderInv, ClimbInv, RollbackIsSound
<1> QED BY <1>3, LadderInvAlways, PTL

-----------------------------------------------------------------------------
(* Lineage.                                                                *)

\* The typing of a call, and that every call in progress has its two entries.
CallType == [pc : Pc, child : Entry \cup {None}, parent : Entry \cup {None},
             seen : SUBSET Entry, frontier : SUBSET Entry]

\* An action that changes only p's call, to a typed one, keeps the calls typed.
LEMMA CallTyped ==
  ASSUME LTypeOK, NEW p \in Process, NEW new \in CallType,
         new.pc # "idle" => {new.child, new.parent} \subseteq Entry,
         call' = [call EXCEPT ![p] = new]
  PROVE  /\ call' \in [Process -> CallType]
         /\ \A q \in Process :
              call'[q].pc # "idle" => {call'[q].child, call'[q].parent} \subseteq Entry
BY DEF LTypeOK, CallType

\* The initial state is typed.
LEMMA InitTyped == LineageInit => LTypeOK
<1> SUFFICES ASSUME LineageInit PROVE LTypeOK
  OBVIOUS
<1>1. NoCall \in CallType /\ NoCall.pc = "idle"
  BY DEF NoCall, CallType, Pc
<1>2. call \in [Process -> CallType] /\ \A p \in Process : call[p].pc = "idle"
  BY <1>1 DEF LineageInit
<1> QED BY <1>2 DEF LineageInit, LTypeOK, CallType

\* Every step keeps the types.
LEMMA NextTyped == LTypeOK /\ [LineageNext]_lineageVars => LTypeOK'
<1> SUFFICES ASSUME LTypeOK, [LineageNext]_lineageVars PROVE LTypeOK'
  OBVIOUS
<1>n. NoCall \in CallType /\ NoCall.pc = "idle"
  BY DEF NoCall, CallType, Pc
<1>1. ASSUME NEW e \in Entry, Push(e) PROVE LTypeOK'
  BY <1>1 DEF Push, LTypeOK
<1>2. ASSUME NEW e \in Entry, Delete(e) PROVE LTypeOK'
  BY <1>2 DEF Delete, Cascaded, LTypeOK
<1>3. ASSUME NEW p \in Process, NEW c \in Entry, NEW q \in Entry, Calls(p, c, q) PROVE LTypeOK'
  <2> DEFINE new == [NoCall EXCEPT !.pc = "looking up", !.child = c, !.parent = q]
  <2>1. new \in CallType /\ {new.child, new.parent} \subseteq Entry
    BY DEF NoCall, CallType, Pc
  <2>2. call' = [call EXCEPT ![p] = new] /\ UNCHANGED tables
    BY <1>3 DEF Calls
  <2> HIDE DEF new
  <2> QED BY <2>1, <2>2, CallTyped DEF LTypeOK, tables, CallType
<1>4. ASSUME NEW p \in Process, WalkBegins(p) PROVE LTypeOK'
  <2> DEFINE new == [call[p] EXCEPT !.pc = "walking", !.frontier = {call[p].parent}]
  <2>1. new \in CallType /\ {new.child, new.parent} \subseteq Entry
    BY <1>4 DEF WalkBegins, LTypeOK, CallType, Pc
  <2>2. call' = [call EXCEPT ![p] = new]
    BY <1>4 DEF WalkBegins
  <2> HIDE DEF new
  <2> QED BY <1>4, <2>1, <2>2, CallTyped DEF WalkBegins, LTypeOK, CallType
<1>5. ASSUME NEW p \in Process, Walks(p) PROVE LTypeOK'
  <2>1. CASE Reaches(p)
    <3>1. call' = [call EXCEPT ![p] = NoCall]
      BY <1>5, <2>1 DEF Walks, AddReturns
    <3> QED BY <1>5, <2>1, <3>1, <1>n, CallTyped DEF Walks, LTypeOK, CallType
  <2>2. CASE ~Reaches(p)
    <3> DEFINE new == [call[p] EXCEPT !.frontier = New(p), !.seen = @ \cup New(p)]
    <3>1. New(p) \subseteq Entry
      BY DEF New, Parents
    <3>2. new \in CallType /\ {new.child, new.parent} \subseteq Entry
      BY <1>5, <3>1 DEF Walks, LTypeOK, CallType, Pc
    <3>3. call' = [call EXCEPT ![p] = new]
      BY <1>5, <2>2 DEF Walks
    <3> HIDE DEF new
    <3> QED BY <1>5, <2>2, <3>2, <3>3, CallTyped DEF Walks, LTypeOK, CallType
  <2> QED BY <2>1, <2>2
<1>6. ASSUME NEW p \in Process, WalkEnds(p) PROVE LTypeOK'
  <2> DEFINE new == [call[p] EXCEPT !.pc = "free"]
  <2>1. new \in CallType /\ {new.child, new.parent} \subseteq Entry
    BY <1>6 DEF WalkEnds, LTypeOK, CallType, Pc
  <2>2. call' = [call EXCEPT ![p] = new] /\ UNCHANGED tables
    BY <1>6 DEF WalkEnds
  <2> HIDE DEF new
  <2> QED BY <2>1, <2>2, CallTyped DEF LTypeOK, tables, CallType
<1>7. ASSUME NEW p \in Process, Inserts(p) PROVE LTypeOK'
  <2>1. call' = [call EXCEPT ![p] = NoCall]
    BY <1>7 DEF Inserts, AddReturns
  <2>2. edges' \subseteq entries' \X entries' /\ unraced' \subseteq Process /\ raced' \in BOOLEAN
    BY <1>7 DEF Inserts, LTypeOK
  <2> QED BY <1>7, <2>1, <2>2, <1>n, CallTyped DEF Inserts, LTypeOK, CallType
<1>8. ASSUME NEW p \in Process, InsertFails(p) \/ ProcessDies(p) PROVE LTypeOK'
  <2>1. call' = [call EXCEPT ![p] = NoCall]
    BY <1>8 DEF InsertFails, ProcessDies, AddReturns
  <2> QED BY <1>8, <2>1, <1>n, CallTyped DEF InsertFails, ProcessDies, LTypeOK, CallType
<1>9. CASE UNCHANGED lineageVars
  BY <1>9 DEF lineageVars, LTypeOK
<1> QED BY <1>1, <1>2, <1>3, <1>4, <1>5, <1>6, <1>7, <1>8, <1>9 DEF LineageNext, AddStep

\* The tables and the calls keep their types, and an edge always joins two entries
\* that exist: deletion takes a child's and a parent's edges with it.
THEOREM LineageTyped == LineageSpec => []LTypeOK
BY InitTyped, NextTyped, PTL DEF LineageSpec

-----------------------------------------------------------------------------
\* What a walk in progress owes, for one process.
Sound(p) ==
  /\ call[p].pc \in {"walking", "free"}
  /\ call[p].pc = "free" => call[p].frontier = {}
  /\ call[p].child \notin Visited(p)
  /\ call[p].frontier \subseteq Visited(p)
  /\ \A x \in Visited(p) \ call[p].frontier, e \in Entry : <<x, e>> \in edges => e \in Visited(p)

\* A step that leaves p's call alone and adds no edge keeps its walk sound.
LEMMA SoundKept ==
  ASSUME NEW p \in Process, Sound(p), call'[p] = call[p], edges' \subseteq edges
  PROVE  Sound(p)'
BY DEF Sound, Visited

\* Before its walk a call has seen nothing, and its child differs from its parent.
Prepared(p) ==
  /\ call[p].pc # "idle" => call[p].child # call[p].parent
  /\ call[p].pc = "looking up" => call[p].seen = {}
AllPrepared == \A p \in Process : Prepared(p)

\* An action that leaves all calls but p's alone.
LEMMA PreparedKept ==
  ASSUME LTypeOK, AllPrepared, NEW p \in Process, NEW new,
         call' = [call EXCEPT ![p] = new],
         new.pc # "idle" => new.child # new.parent,
         new.pc = "looking up" => new.seen = {}
  PROVE  AllPrepared'
<1>1. call'[p] = new /\ \A q \in Process \ {p} : call'[q] = call[q]
  BY DEF LTypeOK
<1> QED BY <1>1 DEF AllPrepared, Prepared

\* It is so in every step.
LEMMA NextPrepared == LTypeOK /\ AllPrepared /\ [LineageNext]_lineageVars => AllPrepared'
<1> SUFFICES ASSUME LTypeOK, AllPrepared, [LineageNext]_lineageVars PROVE AllPrepared'
  OBVIOUS
<1>n. NoCall.pc = "idle"
  BY DEF NoCall
<1>1. ASSUME NEW p \in Process, NEW c \in Entry, NEW q \in Entry, Calls(p, c, q) PROVE AllPrepared'
  <2> DEFINE new == [NoCall EXCEPT !.pc = "looking up", !.child = c, !.parent = q]
  <2>1. new.child # new.parent /\ new.seen = {}
    BY <1>1 DEF Calls, Admissible, NoCall
  <2>2. call' = [call EXCEPT ![p] = new]
    BY <1>1 DEF Calls
  <2> HIDE DEF new
  <2> QED BY <2>1, <2>2, PreparedKept
<1>2. ASSUME NEW p \in Process, WalkBegins(p) PROVE AllPrepared'
  <2> DEFINE new == [call[p] EXCEPT !.pc = "walking", !.frontier = {call[p].parent}]
  <2>1. new.pc = "walking" /\ new.child # new.parent
    BY <1>2 DEF WalkBegins, AllPrepared, Prepared, LTypeOK
  <2>2. call' = [call EXCEPT ![p] = new]
    BY <1>2 DEF WalkBegins
  <2> HIDE DEF new
  <2> QED BY <2>1, <2>2, PreparedKept
<1>3. ASSUME NEW p \in Process, WalkEnds(p) PROVE AllPrepared'
  <2> DEFINE new == [call[p] EXCEPT !.pc = "free"]
  <2>1. new.pc = "free" /\ new.child # new.parent
    BY <1>3 DEF WalkEnds, AllPrepared, Prepared, LTypeOK
  <2>2. call' = [call EXCEPT ![p] = new]
    BY <1>3 DEF WalkEnds
  <2> HIDE DEF new
  <2> QED BY <2>1, <2>2, PreparedKept
<1>4. ASSUME NEW p \in Process, Walks(p) PROVE AllPrepared'
  <2>1. CASE Reaches(p)
    BY <1>4, <2>1, <1>n, PreparedKept DEF Walks, AddReturns
  <2>2. CASE ~Reaches(p)
    <3> DEFINE new == [call[p] EXCEPT !.frontier = New(p), !.seen = @ \cup New(p)]
    <3>0. call[p] \in CallType /\ call[p].pc = "walking" /\ call[p].child # call[p].parent
      BY <1>4 DEF Walks, AllPrepared, Prepared, LTypeOK, CallType
    <3>1. new.pc = "walking" /\ new.child # new.parent
      BY <3>0 DEF CallType
    <3>2. call' = [call EXCEPT ![p] = new]
      BY <1>4, <2>2 DEF Walks
    <3> HIDE DEF new
    <3> QED BY <3>1, <3>2, PreparedKept
  <2> QED BY <2>1, <2>2
<1>5. ASSUME NEW p \in Process, Inserts(p) \/ InsertFails(p) \/ ProcessDies(p) PROVE AllPrepared'
  BY <1>5, <1>n, PreparedKept DEF Inserts, InsertFails, ProcessDies, AddReturns
<1>6. ASSUME NEW e \in Entry, Push(e) \/ Delete(e) PROVE AllPrepared'
  BY <1>6 DEF Push, Delete, AllPrepared, Prepared
<1>7. CASE UNCHANGED lineageVars
  BY <1>7 DEF lineageVars, AllPrepared, Prepared
<1> QED BY <1>1, <1>2, <1>3, <1>4, <1>5, <1>6, <1>7 DEF LineageNext, AddStep

\* Every step keeps the walks of unraced processes sound.
LEMMA NextSound ==
  LTypeOK /\ AllPrepared /\ WalkIsSound /\ [LineageNext]_lineageVars => WalkIsSound'
<1> SUFFICES ASSUME LTypeOK, AllPrepared, WalkIsSound, [LineageNext]_lineageVars,
                    NEW p \in unraced'
             PROVE  Sound(p)'
  BY DEF WalkIsSound, Sound
<1>p. p \in Process
  BY NextTyped DEF LTypeOK
<1>f. p \in unraced => Sound(p)
  BY DEF WalkIsSound, Sound
<1>1. ASSUME NEW e \in Entry, Push(e) PROVE Sound(p)'
  BY <1>1, <1>p, <1>f, SoundKept DEF Push
<1>2. ASSUME NEW e \in Entry, Delete(e) PROVE Sound(p)'
  BY <1>2, <1>p, <1>f, SoundKept DEF Delete, Cascaded
<1>3. ASSUME NEW r \in Process, NEW c \in Entry, NEW q \in Entry, Calls(r, c, q) PROVE Sound(p)'
  <2>1. p \in unraced /\ r # p
    BY <1>3, <1>f DEF Calls, tables, Sound
  <2>2. call'[p] = call[p] /\ edges' = edges
    BY <1>3, <1>p, <2>1 DEF Calls, tables, LTypeOK
  <2> QED BY <1>p, <1>f, <2>1, <2>2, SoundKept
<1>4. ASSUME NEW r \in Process, WalkBegins(r) PROVE Sound(p)'
  <2>1. CASE p = r
    <3>1. call'[p] = [call[p] EXCEPT !.pc = "walking", !.frontier = {call[p].parent}]
      BY <1>4, <1>p, <2>1 DEF WalkBegins, LTypeOK
    <3>2. call[p] \in CallType
      BY <1>p DEF LTypeOK, CallType
    <3>3. call[p].seen = {} /\ call[p].child # call[p].parent
      BY <1>4, <1>p, <2>1 DEF WalkBegins, AllPrepared, Prepared
    <3>4. /\ call'[p].pc = "walking" /\ call'[p].seen = {} /\ call'[p].frontier = {call[p].parent}
          /\ call'[p].child = call[p].child /\ call'[p].parent = call[p].parent
      BY <3>1, <3>2, <3>3 DEF CallType
    <3> QED BY <3>3, <3>4 DEF Sound, Visited
  <2>2. CASE p # r
    BY <1>4, <1>p, <1>f, <2>2, SoundKept DEF WalkBegins, LTypeOK
  <2> QED BY <2>1, <2>2
<1>5. ASSUME NEW r \in Process, Walks(r) PROVE Sound(p)'
  <2>1. CASE p # r
    BY <1>5, <1>p, <1>f, <2>1, SoundKept DEF Walks, AddReturns, LTypeOK
  <2>2. CASE p = r
    <3>1. ~Reaches(p) /\ p \in unraced /\ Sound(p)
      BY <1>5, <2>2, <1>f DEF Walks
    <3>2. /\ call'[p] = [call[p] EXCEPT !.frontier = New(p), !.seen = @ \cup New(p)]
          /\ edges' = edges /\ call[p].pc = "walking"
      BY <1>5, <1>p, <2>2, <3>1 DEF Walks, LTypeOK
    <3>3. /\ call'[p].frontier = New(p) /\ call'[p].seen = call[p].seen \cup New(p)
          /\ call'[p].pc = "walking" /\ call'[p].child = call[p].child
          /\ call'[p].parent = call[p].parent
      BY <3>2, <1>p DEF LTypeOK
    <3>4. Visited(p)' = Visited(p) \cup New(p)
      BY <3>3 DEF Visited
    <3>5. call[p].child \notin New(p)
      BY <3>1 DEF Reaches, New
    <3>6. ASSUME NEW x \in Visited(p)' \ call'[p].frontier, NEW e \in Entry, <<x, e>> \in edges
          PROVE  e \in Visited(p)'
      <4>1. x \in Visited(p)
        BY <3>6, <3>3, <3>4
      <4>2. CASE x \in call[p].frontier
        BY <4>2, <3>6, <3>4 DEF New, Parents, Visited
      <4>3. CASE x \notin call[p].frontier
        BY <4>1, <4>3, <3>6, <3>1, <3>4 DEF Sound
      <4> QED BY <4>2, <4>3
    <3> QED BY <3>1, <3>2, <3>3, <3>4, <3>5, <3>6 DEF Sound
  <2> QED BY <2>1, <2>2
<1>6. ASSUME NEW r \in Process, WalkEnds(r) PROVE Sound(p)'
  <2>1. p \in unraced /\ edges' = edges
    BY <1>6 DEF WalkEnds, tables
  <2>2. CASE p = r
    BY <1>6, <1>p, <1>f, <2>1, <2>2 DEF WalkEnds, Sound, Visited, LTypeOK
  <2>3. CASE p # r
    BY <1>6, <1>p, <1>f, <2>1, <2>3, SoundKept DEF WalkEnds, LTypeOK
  <2> QED BY <2>2, <2>3
<1>7. ASSUME NEW r \in Process, Inserts(r) PROVE Sound(p)'
  <2>1. p \in unraced /\ p # r /\ edges' = edges
    BY <1>7 DEF Inserts
  <2> QED BY <1>7, <1>p, <1>f, <2>1, SoundKept DEF Inserts, AddReturns, LTypeOK
<1>8. ASSUME NEW r \in Process, InsertFails(r) \/ ProcessDies(r) PROVE Sound(p)'
  BY <1>8, <1>p, <1>f, SoundKept DEF InsertFails, ProcessDies, AddReturns, LTypeOK
<1>9. CASE UNCHANGED lineageVars
  BY <1>9, <1>p, <1>f, SoundKept DEF lineageVars
<1> QED BY <1>1, <1>2, <1>3, <1>4, <1>5, <1>6, <1>7, <1>8, <1>9 DEF LineageNext, AddStep

-----------------------------------------------------------------------------
\* An edge whose parent lies in a set closed under parents that the child is not in
\* closes no cycle.
LEMMA InsertKeepsAcyclic ==
  ASSUME NEW E, NEW A \in SUBSET Entry, NEW c \in Entry, NEW q \in A,
         Acyclic(E), c \notin A,
         \A x \in A, e \in Entry : <<x, e>> \in E => e \in A
  PROVE  Acyclic(E \cup {<<c, q>>})
<1> SUFFICES ASSUME NEW S \in SUBSET Entry, S # {}
             PROVE  Rooted(S, E \cup {<<c, q>>})
  BY DEF Acyclic
<1>1. CASE S \cap A # {}
  <2>1. PICK x \in S \cap A : \A y \in S \cap A : <<x, y>> \notin E
    <3>1. S \cap A \in SUBSET Entry
      OBVIOUS
    <3> QED BY <1>1, <3>1 DEF Acyclic, Rooted
  <2>2. \A y \in S : <<x, y>> \notin E
    BY <2>1
  <2>3. x # c
    BY <2>1
  <2> QED BY <2>2, <2>3 DEF Rooted
<1>2. CASE S \cap A = {}
  <2>1. PICK x \in S : \A y \in S : <<x, y>> \notin E
    BY DEF Acyclic, Rooted
  <2>2. q \notin S
    BY <1>2
  <2> QED BY <2>1, <2>2 DEF Rooted
<1> QED BY <1>1, <1>2

\* Fewer edges have no more cycles.
LEMMA FewerAcyclic == ASSUME NEW E, NEW F \in SUBSET E, Acyclic(E) PROVE Acyclic(F)
BY DEF Acyclic, Rooted

\* What every step keeps.
IInv == LTypeOK /\ AllPrepared /\ WalkIsSound /\ AcyclicIfSerial

\* Every step keeps the lineage without cycles.
LEMMA NextAcyclic == IInv /\ [LineageNext]_lineageVars => AcyclicIfSerial'
<1> SUFFICES ASSUME IInv, [LineageNext]_lineageVars, ~raced' PROVE Acyclic(edges')
  BY DEF AcyclicIfSerial
<1>1. CASE edges' \subseteq edges /\ raced' = raced
  BY <1>1, FewerAcyclic DEF IInv, AcyclicIfSerial
<1>2. ASSUME NEW p \in Process, Inserts(p) PROVE Acyclic(edges')
  <2>1. p \in unraced /\ ~raced /\ call[p].pc = "free"
    BY <1>2 DEF Inserts
  <2>2. Sound(p)
    BY <2>1 DEF IInv, WalkIsSound, Sound
  <2>3. Visited(p) \in SUBSET Entry /\ call[p].child \in Entry /\ call[p].parent \in Visited(p)
    BY <2>1, <1>2 DEF IInv, LTypeOK, Visited
  <2>4. /\ call[p].child \notin Visited(p)
        /\ \A x \in Visited(p), e \in Entry : <<x, e>> \in edges => e \in Visited(p)
    BY <2>1, <2>2 DEF Sound
  <2>5. Acyclic(edges)
    BY <2>1 DEF IInv, AcyclicIfSerial
  <2>6. edges' = edges \cup {<<call[p].child, call[p].parent>>}
    BY <1>2 DEF Inserts
  <2> HIDE DEF Acyclic
  <2>7. Acyclic(edges \cup {<<call[p].child, call[p].parent>>})
    BY <2>3, <2>4, <2>5, InsertKeepsAcyclic
  <2> QED BY <2>6, <2>7
<1>3. ASSUME NEW p \in Process, ~Inserts(p), AddStep(p) \/ ProcessDies(p)
      PROVE  edges' = edges /\ raced' = raced
  BY <1>3 DEF AddStep, WalkBegins, Walks, WalkEnds, InsertFails, ProcessDies, tables
<1>4. ASSUME NEW e \in Entry, Push(e) \/ Delete(e)
      PROVE  edges' \subseteq edges /\ raced' = raced
  BY <1>4 DEF Push, Delete, Cascaded
<1>5. ASSUME NEW p \in Process, NEW c \in Entry, NEW q \in Entry, Calls(p, c, q)
      PROVE  edges' = edges /\ raced' = raced
  BY <1>5 DEF Calls, tables
<1>6. CASE UNCHANGED lineageVars
  BY <1>6, <1>1 DEF lineageVars
<1> QED BY <1>1, <1>2, <1>3, <1>4, <1>5, <1>6 DEF LineageNext

\* IInv is an invariant.
LEMMA Inductive == LineageSpec => []IInv
<1>1. ASSUME LineageInit PROVE IInv
  <2>1. LTypeOK /\ WalkIsSound
    BY <1>1, InitTyped DEF LineageInit, WalkIsSound
  <2>2. AllPrepared
    <3>1. NoCall.pc = "idle"
      BY DEF NoCall
    <3> QED BY <1>1, <3>1 DEF LineageInit, AllPrepared, Prepared
  <2>3. AcyclicIfSerial
    <3>1. edges = {}
      BY <1>1 DEF LineageInit
    <3> QED BY <3>1 DEF AcyclicIfSerial, Acyclic, Rooted
  <2> QED BY <2>1, <2>2, <2>3 DEF IInv
<1>2. IInv /\ [LineageNext]_lineageVars => IInv'
  BY NextTyped, NextPrepared, NextSound, NextAcyclic DEF IInv
<1> QED BY <1>1, <1>2, PTL DEF LineageSpec

\* A walk that was not overtaken has visited a set closed under parents, and the
\* lineage has no cycle as long as no insert overtook another's check.
THEOREM LineageStaysSound == LineageSpec => []LineageIsSound
<1>1. IInv => LineageIsSound
  BY DEF IInv, LineageIsSound
<1> QED BY <1>1, Inductive, PTL

-----------------------------------------------------------------------------
(* Side by side, as MCRecords has them.                                    *)

RecordsInv == LoopInv /\ LadderInv /\ RecipeInv /\ KahnInv /\ McpInv /\ LTypeOK

\* What the others do is nothing to a component.
LEMMA EachStepsAlone ==
  [Next]_vars =>
    /\ [LoopNext]_loopVars
    /\ [LadderNext]_ladderVars
    /\ [RecipeNext]_recipeVars
    /\ [OrderNext]_orderVars
    /\ [McpNext]_mcpVars
    /\ [LineageNext]_lineageVars
<1> SUFFICES ASSUME [Next]_vars
             PROVE  /\ [LoopNext]_loopVars
                    /\ [LadderNext]_ladderVars
                    /\ [RecipeNext]_recipeVars
                    /\ [OrderNext]_orderVars
                    /\ [McpNext]_mcpVars
                    /\ [LineageNext]_lineageVars
  OBVIOUS
<1>1. CASE LoopActs
  BY <1>1, Zenon DEF LoopActs, Only
<1>2. CASE LadderActs
  BY <1>2, Zenon DEF LadderActs, Only
<1>3. CASE RecipeActs
  BY <1>3, Zenon DEF RecipeActs, Only
<1>4. CASE OrderActs
  BY <1>4, Zenon DEF OrderActs, Only
<1>5. CASE McpActs
  BY <1>5, Zenon DEF McpActs, Only
<1>6. CASE LineageActs
  BY <1>6, Zenon DEF LineageActs, Only
<1>7. CASE UNCHANGED vars
  BY <1>7, Zenon DEF vars
<1> QED BY <1>1, <1>2, <1>3, <1>4, <1>5, <1>6, <1>7, Zenon DEF Next

\* Each keeps its types: what is read again from a file or a table is what was written there,
\* and every reference in it is to something that exists.
THEOREM RecordsStayTyped == Spec => []RecordsTyped
<1>1. Init => RecordsInv
  BY LoopInvInit, LadderInvStarts, RecipeInvInit, OrderStarts, McpStarts, InitTyped
     DEF Init, RecordsInv
<1>2. RecordsInv /\ [Next]_vars => RecordsInv'
  BY EachStepsAlone, LoopInvNext, LadderInvNext, RecipeInvNext, KahnInvNext, McpStep, NextTyped
     DEF RecordsInv
<1>3. RecordsInv => RecordsTyped
  BY KahnIsTyped DEF RecordsInv, RecordsTyped, LoopInv, LadderInv, ClimbInv, RecipeInv, McpInv
<1> QED BY <1>1, <1>2, <1>3, PTL DEF Spec
=============================================================================
