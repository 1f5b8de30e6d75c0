---------------------------- MODULE LoopProofs ----------------------------
(***************************************************************************)
(* For every number of daemons and of operators and all caps, budgets and  *)
(* estimates: the loop's counters tell the truth, only operators pause it, *)
(* and its caps hold.  What the first leaves out is where a claim is on    *)
(* its way: in the copy a daemon is about to record, and in the iteration  *)
(* it has recorded and not yet filed.  Pauses and caps follow the copies   *)
(* that nobody's write has made stale.                                     *)
(***************************************************************************)
EXTENDS LoopDaemon, FiniteSetTheorems, TLAPS

\* What a daemon and an operator may be; LDTypeOK says that of all of them.
DaemonState ==
  [pc : DaemonPc, state : LoopState, stop : BOOLEAN, ran : Nat,
   decision : {"proceed", "daily", "budget"}, estimate : Nat, verdict : {"OK", "MAJOR", "SKIPPED"}]

OperatorState == [cmd : Command \cup {"idle"}, state : LoopState]

\* An iteration that the daemon's copy counts and the file does not, yet.
Pending(p) == IF daemon[p].pc = "recording" /\ Proceeded(p) THEN 1 ELSE 0

\* What s claims has happened, but for what is still pending.
Earned(s, pending) ==
  Funnel(s) /\ s.iterations - pending <= completed /\ s.shipped <= deployed

Filing == {p \in Daemon : daemon[p].pc = "filing" /\ Proceeded(p)}

\* Iterations recorded are filed, to be filed, or never will be.
ManifestsAreEarned == manifests + Cardinality(Filing) <= completed

\* Whoever is in the middle of an iteration was allowed to begin it.
WorkIsAllowed == \A p \in Daemon : daemon[p].pc \in {"training", "deploying"} => Proceeded(p)

\* Only a daemon that holds a copy is said to hold a fresh one ...
FreshIsHeld ==
  \A p \in fresh \cap Daemon :
    daemon[p].pc \in {"promoting", "training", "deploying", "recording", "stopping"}

\* ... and what is fresh differs from the file by what is pending.
FreshIsExact ==
  /\ \A p \in fresh \cap Daemon : daemon[p].state.iterations = file.iterations + Pending(p)
  /\ \A o \in fresh \cap Operator : operator[o].state.iterations = file.iterations

AllEarned ==
  /\ Earned(file, 0)
  /\ \A p \in Daemon : Earned(daemon[p].state, Pending(p))
  /\ \A o \in Operator : Earned(operator[o].state, 0)

Exact == FreshIsHeld /\ FreshIsExact /\ CountersAreExact

LoopInv == LDTypeOK /\ AllEarned /\ ManifestsAreEarned /\ WorkIsAllowed /\ Exact

-----------------------------------------------------------------------------
LEMMA FirstIsAState == FirstState \in LoopState
  BY DEF FirstState, LoopState, NeverRan

LEMMA OffIsAState == OffDuty \in DaemonState
  BY FirstIsAState DEF OffDuty, DaemonState, DaemonPc

LEMMA MonthsAreKnown == ASSUME LDTypeOK PROVE Month(today) \in {Month(d) : d \in Day}
  BY DEF LDTypeOK

LEMMA LoopInvInit == LoopInit => LoopInv
<1> SUFFICES ASSUME LoopInit PROVE LoopInv
  OBVIOUS
<1> USE LoopAssumption DEF LoopInit
<1>1. LDTypeOK
  <2>1. file \in LoopState
    BY FirstIsAState
  <2>2. daemon \in [Daemon -> DaemonState]
    BY OffIsAState
  <2>3. operator \in [Operator -> OperatorState]
    BY FirstIsAState DEF OperatorState
  <2>4. today \in Day
    BY DEF Day
  <2>5. startedOn \in [Day -> Nat] /\ paidIn \in [{Month(d) : d \in Day} -> Nat]
    OBVIOUS
  <2> QED BY <2>1, <2>2, <2>3, <2>4, <2>5 DEF LDTypeOK, DaemonState, OperatorState
<1>2. AllEarned
  BY DEF AllEarned, Earned, Funnel, FirstState, OffDuty, Pending
<1>3. ManifestsAreEarned
  <2>1. Filing = {}
    BY DEF Filing, OffDuty
  <2> QED BY <2>1, FS_EmptySet DEF ManifestsAreEarned
<1>4. WorkIsAllowed /\ Exact
  BY DEF WorkIsAllowed, Exact, FreshIsHeld, FreshIsExact, CountersAreExact, OffDuty, FirstState
<1> QED BY <1>1, <1>2, <1>3, <1>4 DEF LoopInv

-----------------------------------------------------------------------------
(* Types.                                                                  *)

LEMMA RestIsAState ==
  ASSUME LDTypeOK, NEW p \in Daemon, NEW pc \in DaemonPc
  PROVE  Rest(p, pc) \in DaemonState
  BY OffIsAState DEF Rest, LDTypeOK, DaemonState

LEMMA StatusIsAState ==
  ASSUME NEW s \in LoopState, NEW status \in {"stopped", "running", "paused"}
  PROVE  WithStatus(s, status) \in LoopState
  BY DEF WithStatus, LoopState

LEMMA RolledIsAState ==
  ASSUME LDTypeOK, NEW s \in LoopState
  PROVE  RolledOver(s) \in LoopState
  BY DEF RolledOver, LoopState, LDTypeOK

LEMMA BumpedIsAState ==
  ASSUME NEW s \in LoopState, NEW verdict, NEW shipped \in BOOLEAN, NEW estimate \in Nat
  PROVE  Bumped(s, verdict, shipped, estimate) \in LoopState
<1>1. /\ s.iterations + 1 \in Nat /\ s.runsToday + 1 \in Nat /\ s.spent + estimate \in Nat
      /\ s.gated + 1 \in Nat /\ s.shipped + 1 \in Nat
  BY DEF LoopState
<1> QED BY <1>1 DEF Bumped, LoopState

\* The types are kept by a step that gives one daemon an allowed state and leaves the
\* clock and the operators alone.
LEMMA DaemonTyped ==
  ASSUME LDTypeOK, NEW p \in Daemon, NEW w \in DaemonState, daemon' = [daemon EXCEPT ![p] = w],
         file' \in LoopState, UNCHANGED <<operator, today, intent>>,
         fresh' \subseteq Daemon \cup Operator, overlapped' \in BOOLEAN, lossy' \in BOOLEAN,
         completed' \in Nat, erased' \in Nat, deployed' \in Nat, manifests' \in Nat,
         startedOn' \in [Day -> Nat], paidIn' \in [{Month(d) : d \in Day} -> Nat]
  PROVE  LDTypeOK'
<1>1. daemon' \in [Daemon -> DaemonState]
  BY DEF LDTypeOK, DaemonState
<1> QED BY <1>1 DEF LDTypeOK, DaemonState

LEMMA WritesTyped ==
  ASSUME LDTypeOK, NEW p, NEW s \in LoopState, Writes(p, s)
  PROVE  file' \in LoopState /\ fresh' \subseteq Daemon \cup Operator /\ overlapped' \in BOOLEAN
  BY DEF LDTypeOK, Writes

LEMMA ReadsTyped ==
  ASSUME LDTypeOK, NEW p \in Daemon \cup Operator, Reads(p) \/ Forgets(p) \/ UNCHANGED control
  PROVE  file' \in LoopState /\ fresh' \subseteq Daemon \cup Operator /\ overlapped' \in BOOLEAN
  BY DEF LDTypeOK, Reads, Forgets, control

\* What each of the daemon's steps makes of the daemon.
LEMMA DecidesAs ==
  ASSUME LDTypeOK, NEW p \in Daemon, NEW e \in Estimate, Decides(p, e)
  PROVE  \E d \in DaemonState :
           /\ daemon' = [daemon EXCEPT ![p] = d]
           /\ d.state = RolledOver(file)
           /\ d.decision = Decision(d.state, e) /\ d.estimate = e
           /\ d.pc = IF d.decision = "proceed" THEN "training" ELSE "recording"
<1> DEFINE s == RolledOver(file)
           decision == Decision(s, e)
           d == [daemon[p] EXCEPT !.state = s, !.decision = decision, !.estimate = e,
                   !.verdict = "SKIPPED",
                   !.pc = IF decision = "proceed" THEN "training" ELSE "recording"]
<1>1. daemon' = [daemon EXCEPT ![p] = d]
  BY DEF Decides, LDTypeOK
<1>2. s \in LoopState /\ decision \in {"proceed", "daily", "budget"} /\ e \in Nat
  BY RolledIsAState, LoopAssumption DEF Decision, LDTypeOK
<1>3. daemon[p] \in DaemonState
  BY DEF LDTypeOK, DaemonState
<1>4. decision = Decision(s, e)
  OBVIOUS
<1> HIDE DEF s, decision
<1>5. d \in DaemonState
  BY <1>2, <1>3 DEF DaemonState, DaemonPc
<1>6. /\ d.state = s /\ d.decision = decision /\ d.estimate = e
      /\ d.pc = IF d.decision = "proceed" THEN "training" ELSE "recording"
  BY <1>3 DEF DaemonState
<1> QED BY <1>1, <1>4, <1>5, <1>6 DEF s

LEMMA TrainsAs ==
  ASSUME LDTypeOK, NEW p \in Daemon, NEW v \in {"OK", "MAJOR", "SKIPPED"}, Trains(p, v)
  PROVE  \E d \in DaemonState :
           /\ daemon' = [daemon EXCEPT ![p] = d]
           /\ d.pc = "deploying" /\ d.state = daemon[p].state /\ d.decision = daemon[p].decision
           /\ d.estimate = daemon[p].estimate
<1> DEFINE d == [daemon[p] EXCEPT !.pc = "deploying", !.verdict = v]
<1>1. daemon' = [daemon EXCEPT ![p] = d]
  BY DEF Trains, LDTypeOK
<1>2. daemon[p] \in DaemonState
  BY DEF LDTypeOK, DaemonState
<1>3. d \in DaemonState
  BY <1>2 DEF DaemonState, DaemonPc
<1>4. /\ d.pc = "deploying" /\ d.state = daemon[p].state /\ d.decision = daemon[p].decision
      /\ d.estimate = daemon[p].estimate
  BY <1>2 DEF DaemonState
<1> QED BY <1>1, <1>3, <1>4

LEMMA DeploysAs ==
  ASSUME LDTypeOK, NEW p \in Daemon, NEW shipped \in BOOLEAN, Deploys(p, shipped)
  PROVE  \E d \in DaemonState :
           /\ daemon' = [daemon EXCEPT ![p] = d]
           /\ d.pc = "recording" /\ d.decision = daemon[p].decision
           /\ d.state = Bumped(daemon[p].state, daemon[p].verdict, shipped, daemon[p].estimate)
<1> DEFINE s == Bumped(daemon[p].state, daemon[p].verdict, shipped, daemon[p].estimate)
           d == [daemon[p] EXCEPT !.pc = "recording", !.state = s]
<1>1. daemon' = [daemon EXCEPT ![p] = d]
  BY DEF Deploys, LDTypeOK
<1>2. daemon[p] \in DaemonState
  BY DEF LDTypeOK, DaemonState
<1>3. s \in LoopState
  BY <1>2, BumpedIsAState DEF DaemonState
<1> HIDE DEF s
<1>4. d \in DaemonState
  BY <1>2, <1>3 DEF DaemonState, DaemonPc
<1>5. d.pc = "recording" /\ d.state = s /\ d.decision = daemon[p].decision
  BY <1>2 DEF DaemonState
<1> QED BY <1>1, <1>4, <1>5 DEF s

LEMMA SignalledAs ==
  ASSUME LDTypeOK, NEW p \in Daemon, Signalled(p)
  PROVE  \E d \in DaemonState :
           /\ daemon' = [daemon EXCEPT ![p] = d]
           /\ d.pc = daemon[p].pc /\ d.state = daemon[p].state /\ d.decision = daemon[p].decision
           /\ d.estimate = daemon[p].estimate
<1> DEFINE d == [daemon[p] EXCEPT !.stop = TRUE]
<1>1. daemon' = [daemon EXCEPT ![p] = d]
  BY DEF Signalled, LDTypeOK
<1>2. daemon[p] \in DaemonState
  BY DEF LDTypeOK, DaemonState
<1>3. d \in DaemonState
  BY <1>2 DEF DaemonState
<1>4. /\ d.pc = daemon[p].pc /\ d.state = daemon[p].state /\ d.decision = daemon[p].decision
      /\ d.estimate = daemon[p].estimate
  BY <1>2 DEF DaemonState
<1> QED BY <1>1, <1>3, <1>4

\* A daemon at rest has nothing in hand.
LEMMA RestsAs ==
  ASSUME LDTypeOK, NEW p \in Daemon, NEW pc \in DaemonPc, DaemonGoes(p, pc)
  PROVE  \E d \in DaemonState :
           /\ daemon' = [daemon EXCEPT ![p] = d]
           /\ d.pc = pc /\ d.state = FirstState /\ d.decision = "proceed"
<1>1. daemon' = [daemon EXCEPT ![p] = Rest(p, pc)]
  BY DEF DaemonGoes
<1>2. Rest(p, pc).pc = pc /\ Rest(p, pc).state = FirstState /\ Rest(p, pc).decision = "proceed"
  BY DEF Rest, OffDuty
<1> QED BY <1>1, <1>2, RestIsAState

LEMMA RecordsAs ==
  ASSUME LDTypeOK, NEW p \in Daemon, Records(p)
  PROVE  \E d \in DaemonState :
           /\ daemon' = [daemon EXCEPT ![p] = d]
           /\ d.pc = "filing" /\ d.state = FirstState /\ d.decision = daemon[p].decision
<1> DEFINE d == [Rest(p, "filing") EXCEPT !.decision = daemon[p].decision]
<1>1. daemon' = [daemon EXCEPT ![p] = d]
  BY DEF Records
<1>2. Rest(p, "filing") \in DaemonState /\ daemon[p] \in DaemonState
  BY RestIsAState DEF LDTypeOK, DaemonState, DaemonPc
<1>3. Rest(p, "filing").pc = "filing" /\ Rest(p, "filing").state = FirstState
  BY DEF Rest, OffDuty
<1>4. d \in DaemonState
  BY <1>2 DEF DaemonState
<1>5. d.pc = "filing" /\ d.state = FirstState /\ d.decision = daemon[p].decision
  BY <1>2, <1>3 DEF DaemonState
<1> QED BY <1>1, <1>4, <1>5

LEMMA FilesAs ==
  ASSUME LDTypeOK, NEW p \in Daemon, Files(p)
  PROVE  \E d \in DaemonState :
           /\ daemon' = [daemon EXCEPT ![p] = d]
           /\ d.pc \in {"top", "resting"} /\ d.state = FirstState
<1> DEFINE ran == IF MaxIterations = NoLimit THEN 0 ELSE daemon[p].ran + 1
           pc == IF MaxIterations # NoLimit /\ ran >= MaxIterations THEN "top" ELSE "resting"
           d == [Rest(p, pc) EXCEPT !.ran = ran]
<1>1. daemon' = [daemon EXCEPT ![p] = d]
  BY DEF Files
<1>2. ran \in Nat
  BY DEF LDTypeOK
<1> HIDE DEF ran
<1>3. pc \in {"top", "resting"} /\ pc \in DaemonPc
  BY DEF DaemonPc
<1> HIDE DEF pc
<1>4. Rest(p, pc) \in DaemonState /\ Rest(p, pc).pc = pc /\ Rest(p, pc).state = FirstState
  BY <1>3, RestIsAState DEF Rest, OffDuty
<1>5. d \in DaemonState
  BY <1>2, <1>4 DEF DaemonState
<1>6. d.pc = pc /\ d.state = FirstState
  BY <1>4 DEF DaemonState
<1> QED BY <1>1, <1>3, <1>5, <1>6

\* A daemon that has read the file to write it back, on its way in or out.
LEMMA WatchStartsAs ==
  ASSUME LDTypeOK, NEW p \in Daemon, WatchStarts(p)
  PROVE  \E d \in DaemonState :
           /\ daemon' = [daemon EXCEPT ![p] = d]
           /\ \/ d.pc = "promoting" /\ d.state = file /\ Reads(p)
              \/ d.pc = "top" /\ d.state = FirstState /\ UNCHANGED control
<1> DEFINE in == [OffDuty EXCEPT !.pc = "promoting", !.state = file]
           up == [OffDuty EXCEPT !.pc = "top"]
<1>1. in \in DaemonState /\ in.pc = "promoting" /\ in.state = file
  BY OffIsAState DEF DaemonState, DaemonPc, LDTypeOK
<1>2. up \in DaemonState /\ up.pc = "top" /\ up.state = FirstState
  BY OffIsAState DEF DaemonState, DaemonPc, OffDuty
<1>3. CASE Promotable(file.status)
  BY <1>1, <1>3 DEF WatchStarts
<1>4. CASE ~Promotable(file.status)
  BY <1>2, <1>4 DEF WatchStarts
<1> QED BY <1>3, <1>4

LEMMA LooksBackAs ==
  ASSUME LDTypeOK, NEW p \in Daemon, LooksBack(p)
  PROVE  \E d \in DaemonState :
           /\ daemon' = [daemon EXCEPT ![p] = d]
           /\ \/ d.pc = "stopping" /\ d.state = file /\ Reads(p)
              \/ d.pc = "off" /\ d.state = FirstState /\ UNCHANGED control
<1> DEFINE back == [Rest(p, "stopping") EXCEPT !.state = file]
<1>1. Rest(p, "stopping") \in DaemonState /\ Rest(p, "stopping").pc = "stopping"
  BY RestIsAState DEF DaemonPc, Rest, OffDuty
<1>2. back \in DaemonState /\ back.pc = "stopping" /\ back.state = file
  BY <1>1 DEF DaemonState, LDTypeOK
<1>3. CASE Demotable(file.status)
  BY <1>2, <1>3 DEF LooksBack
<1>4. CASE ~Demotable(file.status)
  BY <1>4, OffIsAState DEF LooksBack, OffDuty
<1> QED BY <1>3, <1>4

-----------------------------------------------------------------------------
(* What a daemon's step must see to, each part of the invariant by itself. *)

\* What is still pending of a daemon in state d.
PendingOf(d) == IF d.pc = "recording" /\ d.decision = "proceed" THEN 1 ELSE 0

\* The claims are kept by a step of p after which the file's and p's own are true.
LEMMA ClaimsKept ==
  ASSUME LDTypeOK, LDTypeOK', AllEarned, WorkIsAllowed,
         NEW p \in Daemon, NEW d \in DaemonState, daemon' = [daemon EXCEPT ![p] = d],
         UNCHANGED operator, completed <= completed', deployed <= deployed',
         Earned(file, 0)', Earned(d.state, PendingOf(d))',
         d.pc \in {"training", "deploying"} => d.decision = "proceed"
  PROVE  AllEarned' /\ WorkIsAllowed'
<1>1. daemon'[p] = d /\ \A q \in Daemon \ {p} : daemon'[q] = daemon[q]
  BY DEF LDTypeOK
<1>2. WorkIsAllowed'
  BY <1>1 DEF WorkIsAllowed, Proceeded
<1>3. ASSUME NEW s \in LoopState, NEW k \in Nat, Earned(s, k) PROVE Earned(s, k)'
  BY <1>3 DEF Earned, LoopState, LDTypeOK
<1>4. ASSUME NEW q \in Daemon PROVE Earned(daemon[q].state, Pending(q))'
  <2>1. CASE q = p
    BY <1>1, <2>1 DEF Pending, PendingOf, Proceeded, Earned
  <2>2. CASE q # p
    <3>1. daemon'[q] = daemon[q] /\ Pending(q)' = Pending(q) /\ Pending(q) \in Nat
      BY <1>1, <2>2 DEF Pending, Proceeded
    <3>2. daemon[q].state \in LoopState /\ Earned(daemon[q].state, Pending(q))
      BY DEF LDTypeOK, AllEarned
    <3>3. Earned(daemon[q].state, Pending(q)) => Funnel(daemon[q].state)
                 /\ daemon[q].state.iterations - Pending(q) <= completed'
                 /\ daemon[q].state.shipped <= deployed'
      BY <3>1, <3>2 DEF Earned, LoopState, LDTypeOK
    <3> QED BY <3>1, <3>2, <3>3 DEF Earned
  <2> QED BY <2>1, <2>2
<1>5. ASSUME NEW o \in Operator PROVE Earned(operator[o].state, 0)'
  <2>1. operator[o].state \in LoopState /\ Earned(operator[o].state, 0)
    BY DEF LDTypeOK, AllEarned
  <2> QED BY <2>1 DEF Earned, LoopState, LDTypeOK
<1> QED BY <1>2, <1>4, <1>5 DEF AllEarned

\* No new iteration is waiting to be filed.
LEMMA FilingKept ==
  ASSUME LDTypeOK, LDTypeOK', ManifestsAreEarned, LoopAssumption,
         NEW p \in Daemon, NEW d \in DaemonState, daemon' = [daemon EXCEPT ![p] = d],
         completed <= completed', manifests' = manifests,
         d.pc = "filing" => d.pc = daemon[p].pc /\ d.decision = daemon[p].decision
  PROVE  ManifestsAreEarned'
<1>1. daemon'[p] = d /\ \A q \in Daemon \ {p} : daemon'[q] = daemon[q]
  BY DEF LDTypeOK
<1>2. Filing' \subseteq Filing
  BY <1>1 DEF Filing, Proceeded
<1>3. IsFiniteSet(Filing)
  BY FS_Subset, LoopAssumption DEF Filing
<1>4. Cardinality(Filing') <= Cardinality(Filing) /\ Cardinality(Filing) \in Nat
      /\ Cardinality(Filing') \in Nat
  BY <1>2, <1>3, FS_Subset, FS_CardinalityType
<1> QED BY <1>4 DEF ManifestsAreEarned, LDTypeOK

\* Nobody reads or writes, and a daemon that held a fresh copy still does.
LEMMA ExactUntouched ==
  ASSUME LDTypeOK, Exact,
         NEW p \in Daemon, NEW d \in DaemonState, daemon' = [daemon EXCEPT ![p] = d],
         UNCHANGED <<file, overlapped, operator, completed, erased>>, fresh' \subseteq fresh,
         p \in fresh' =>
           /\ d.pc \in {"promoting", "training", "deploying", "recording", "stopping"}
           /\ d.state.iterations = file.iterations + PendingOf(d)
  PROVE  Exact'
<1>1. daemon'[p] = d /\ \A q \in Daemon \ {p} : daemon'[q] = daemon[q]
  BY DEF LDTypeOK
<1>2. FreshIsHeld'
  BY <1>1 DEF Exact, FreshIsHeld
<1>3. FreshIsExact'
  <2>1. ASSUME NEW q \in fresh' \cap Daemon
        PROVE  daemon'[q].state.iterations = file'.iterations + Pending(q)'
    <3>1. CASE q = p
      BY <1>1, <3>1 DEF Pending, PendingOf, Proceeded
    <3>2. CASE q # p
      BY <1>1, <3>2 DEF Pending, Proceeded, Exact, FreshIsExact
    <3> QED BY <3>1, <3>2
  <2> QED BY <2>1 DEF Exact, FreshIsExact
<1>4. CountersAreExact'
  BY DEF Exact, CountersAreExact
<1> QED BY <1>2, <1>3, <1>4 DEF Exact

\* p holds what it has just read.
LEMMA ExactAfterRead ==
  ASSUME LDTypeOK, Exact,
         NEW p \in Daemon, NEW d \in DaemonState, daemon' = [daemon EXCEPT ![p] = d],
         Reads(p), UNCHANGED <<operator, completed, erased>>,
         d.pc \in {"promoting", "training", "deploying", "recording", "stopping"},
         d.state.iterations = file.iterations, PendingOf(d) = 0
  PROVE  Exact'
<1>1. daemon'[p] = d /\ \A q \in Daemon \ {p} : daemon'[q] = daemon[q]
  BY DEF LDTypeOK
<1>2. fresh' = fresh \cup {p} /\ UNCHANGED <<file, overlapped>>
  BY DEF Reads
<1>3. FreshIsHeld'
  BY <1>1, <1>2 DEF Exact, FreshIsHeld
<1>4. FreshIsExact'
  <2>1. ASSUME NEW q \in fresh' \cap Daemon
        PROVE  daemon'[q].state.iterations = file'.iterations + Pending(q)'
    <3>1. CASE q = p
      <4>1. Pending(q)' = 0 /\ file.iterations \in Nat
        BY <1>1, <3>1 DEF Pending, PendingOf, Proceeded, LDTypeOK, LoopState
      <4> QED BY <1>1, <1>2, <3>1, <4>1
    <3>2. CASE q # p
      BY <1>1, <1>2, <3>2 DEF Pending, Proceeded, Exact, FreshIsExact
    <3> QED BY <3>1, <3>2
  <2>2. fresh' \cap Operator = fresh \cap Operator
    BY <1>2, LoopAssumption
  <2> QED BY <1>2, <2>1, <2>2 DEF Exact, FreshIsExact
<1>5. CountersAreExact'
  BY <1>2 DEF Exact, CountersAreExact
<1> QED BY <1>3, <1>4, <1>5 DEF Exact

\* A write adds to the file what it adds to the count of the completed.
LEMMA ExactAfterWrite ==
  ASSUME NEW p, NEW s, Writes(p, s), UNCHANGED erased,
         ~overlapped /\ p \in fresh => s.iterations = completed' - erased
  PROVE  Exact'
  BY DEF Writes, Exact, FreshIsHeld, FreshIsExact, CountersAreExact

-----------------------------------------------------------------------------
(* The steps.                                                              *)

\* A copy without claims is earned.
LEMMA FirstIsEarned ==
  ASSUME LDTypeOK', NEW s, s = FirstState PROVE Earned(s, 0)'
<1>1. completed' \in Nat /\ deployed' \in Nat
  BY DEF LDTypeOK
<1>2. s.iterations = 0 /\ s.gated = 0 /\ s.shipped = 0
  BY DEF FirstState
<1> QED BY <1>1, <1>2 DEF Earned, Funnel

\* A daemon goes where it has nothing in hand; it may forget what it has read.
LEMMA GoesNext ==
  ASSUME LoopInv, NEW p \in Daemon, NEW d \in DaemonState, daemon' = [daemon EXCEPT ![p] = d],
         d.state = FirstState, d.pc \in {"off", "top", "parked", "leaving"},
         UNCHANGED <<file, overlapped, operator, today, intent, tally>>, lossy' \in BOOLEAN,
         fresh' = fresh \ {p}
  PROVE  LoopInv'
<1> USE DEF LoopInv, tally
<1>1. fresh' \subseteq fresh /\ fresh' \subseteq Daemon \cup Operator
  BY DEF LDTypeOK
<1>2. LDTypeOK'
  <2>1. /\ file' \in LoopState /\ overlapped' \in BOOLEAN
        /\ completed' \in Nat /\ erased' \in Nat /\ deployed' \in Nat /\ manifests' \in Nat
        /\ startedOn' \in [Day -> Nat] /\ paidIn' \in [{Month(e) : e \in Day} -> Nat]
    BY DEF LDTypeOK
  <2> QED BY <1>1, <2>1, DaemonTyped
<1>3. PendingOf(d) = 0
  BY DEF PendingOf
<1>4. AllEarned' /\ WorkIsAllowed'
  <2>1. completed <= completed' /\ deployed <= deployed'
    BY DEF LDTypeOK
  <2>2. Earned(file, 0)'
    BY DEF AllEarned, Earned
  <2>3. Earned(d.state, PendingOf(d))'
    BY <1>2, <1>3, FirstIsEarned
  <2> QED BY <1>2, <2>1, <2>2, <2>3, ClaimsKept
<1>5. ManifestsAreEarned'
  <2>1. completed <= completed'
    BY DEF LDTypeOK
  <2> QED BY <1>2, <2>1, LoopAssumption, FilingKept
<1>6. Exact'
  <2>1. p \notin fresh'
    OBVIOUS
  <2> QED BY <1>1, <2>1, ExactUntouched
<1> QED BY <1>2, <1>4, <1>5, <1>6

\* A daemon reads the file, to write it back with another status.
LEMMA HoldsNext ==
  ASSUME LoopInv, NEW p \in Daemon, NEW d \in DaemonState, daemon' = [daemon EXCEPT ![p] = d],
         d.state = file, d.pc \in {"promoting", "stopping"}, Reads(p),
         UNCHANGED <<operator, today, lossy, intent, tally>>
  PROVE  LoopInv'
<1> USE DEF LoopInv, tally
<1>1. PendingOf(d) = 0
  BY DEF PendingOf
<1>2. LDTypeOK'
  <2>1. /\ lossy' \in BOOLEAN
        /\ completed' \in Nat /\ erased' \in Nat /\ deployed' \in Nat /\ manifests' \in Nat
        /\ startedOn' \in [Day -> Nat] /\ paidIn' \in [{Month(e) : e \in Day} -> Nat]
    BY DEF LDTypeOK
  <2>2. file' \in LoopState /\ fresh' \subseteq Daemon \cup Operator /\ overlapped' \in BOOLEAN
    BY ReadsTyped
  <2> QED BY <2>1, <2>2, DaemonTyped
<1>3. completed <= completed' /\ deployed <= deployed'
  BY DEF LDTypeOK
<1>4. AllEarned' /\ WorkIsAllowed'
  <2>1. Earned(file, 0)'
    BY DEF AllEarned, Earned, Reads
  <2>2. Earned(d.state, PendingOf(d))'
    BY <1>1 DEF AllEarned, Earned
  <2> QED BY <1>2, <1>3, <2>1, <2>2, ClaimsKept
<1>5. ManifestsAreEarned'
  BY <1>2, <1>3, LoopAssumption, FilingKept
<1>6. Exact'
  BY <1>1, ExactAfterRead
<1> QED BY <1>2, <1>4, <1>5, <1>6

\* A daemon writes its copy with another status.
LEMMA FlipsNext ==
  ASSUME LoopInv, NEW p \in Daemon, NEW d \in DaemonState, daemon' = [daemon EXCEPT ![p] = d],
         d.state = FirstState, d.pc \in {"top", "off"}, daemon[p].pc # "recording",
         NEW status \in {"running", "stopped"}, Writes(p, WithStatus(daemon[p].state, status)),
         UNCHANGED <<operator, today, lossy, intent, tally>>
  PROVE  LoopInv'
<1> USE DEF LoopInv, tally
<1> DEFINE s == WithStatus(daemon[p].state, status)
<1>1. daemon[p].state \in LoopState /\ s \in LoopState
  BY StatusIsAState DEF LDTypeOK
<1>2. /\ s.iterations = daemon[p].state.iterations /\ s.gated = daemon[p].state.gated
      /\ s.shipped = daemon[p].state.shipped
  BY <1>1 DEF WithStatus, LoopState
<1>3. Pending(p) = 0 /\ PendingOf(d) = 0
  BY DEF Pending, PendingOf
<1>4. Writes(p, s)
  OBVIOUS
<1> HIDE DEF s
<1>5. LDTypeOK'
  <2>1. /\ lossy' \in BOOLEAN
        /\ completed' \in Nat /\ erased' \in Nat /\ deployed' \in Nat /\ manifests' \in Nat
        /\ startedOn' \in [Day -> Nat] /\ paidIn' \in [{Month(e) : e \in Day} -> Nat]
    BY DEF LDTypeOK
  <2>2. file' \in LoopState /\ fresh' \subseteq Daemon \cup Operator /\ overlapped' \in BOOLEAN
    BY <1>1, <1>4, WritesTyped
  <2> QED BY <2>1, <2>2, DaemonTyped
<1>6. completed <= completed' /\ deployed <= deployed'
  BY DEF LDTypeOK
<1>7. AllEarned' /\ WorkIsAllowed'
  <2>1. Earned(s, 0)
    BY <1>2, <1>3 DEF AllEarned, Earned, Funnel
  <2>2. Earned(file, 0)'
    BY <1>4, <2>1 DEF Earned, Writes
  <2>3. Earned(d.state, PendingOf(d))'
    BY <1>3, <1>5, FirstIsEarned
  <2> QED BY <1>5, <1>6, <2>2, <2>3, ClaimsKept
<1>8. ManifestsAreEarned'
  BY <1>5, <1>6, LoopAssumption, FilingKept
<1>9. Exact'
  <2>1. ~overlapped /\ p \in fresh => s.iterations = completed' - erased
    BY <1>2, <1>3 DEF Exact, FreshIsExact, CountersAreExact, LDTypeOK, LoopState
  <2> QED BY <1>4, <2>1, ExactAfterWrite
<1> QED BY <1>5, <1>7, <1>8, <1>9

\* The history counters only grow, and stay numbers.
LEMMA CountsTyped ==
  ASSUME LDTypeOK, NEW p \in Daemon,
         \/ \E e \in Estimate : Decides(p, e)
         \/ \E v \in {"OK", "MAJOR", "SKIPPED"} : Trains(p, v)
         \/ \E shipped \in BOOLEAN : Deploys(p, shipped)
         \/ Records(p) \/ Files(p) \/ Signalled(p)
  PROVE  /\ completed' \in Nat /\ erased' \in Nat /\ deployed' \in Nat /\ manifests' \in Nat
         /\ completed <= completed' /\ deployed <= deployed'
         /\ startedOn' \in [Day -> Nat] /\ paidIn' \in [{Month(d) : d \in Day} -> Nat]
         /\ lossy' \in BOOLEAN /\ UNCHANGED <<operator, today, intent, erased>>
<1> USE DEF LDTypeOK, tally
<1>1. ASSUME NEW e \in Estimate, Decides(p, e)
      PROVE  startedOn' \in [Day -> Nat] /\ paidIn' \in [{Month(d) : d \in Day} -> Nat]
  <2>1. e \in Nat /\ today \in Day
    BY LoopAssumption
  <2>2. startedOn[today] \in Nat /\ startedOn[today] + 1 \in Nat
    BY <2>1
  <2>3. paidIn[Month(today)] \in Nat
    BY MonthsAreKnown
  <2>4. paidIn[Month(today)] + e \in Nat
    BY <2>1, <2>3
  <2>5. startedOn' \in [Day -> Nat]
    BY <1>1, <2>2 DEF Decides
  <2>6. paidIn' \in [{Month(d) : d \in Day} -> Nat]
    BY <1>1, <2>3, <2>4 DEF Decides
  <2> QED BY <2>5, <2>6
<1>2. CASE \E e \in Estimate : Decides(p, e)
  <2>1. PICK e \in Estimate : Decides(p, e)
    BY <1>2
  <2>2. UNCHANGED <<operator, today, lossy, intent, completed, erased, deployed, manifests>>
    BY <2>1 DEF Decides
  <2>3. startedOn' \in [Day -> Nat] /\ paidIn' \in [{Month(d) : d \in Day} -> Nat]
    BY <1>1, <2>1
  <2>4. /\ completed' \in Nat /\ erased' \in Nat /\ deployed' \in Nat /\ manifests' \in Nat
        /\ completed <= completed' /\ deployed <= deployed' /\ lossy' \in BOOLEAN
    BY <2>2
  <2> HIDE DEF LDTypeOK
  <2> QED BY <2>2, <2>3, <2>4
<1>3. CASE \E v \in {"OK", "MAJOR", "SKIPPED"} : Trains(p, v)
  BY <1>3 DEF Trains
<1>4. CASE \E shipped \in BOOLEAN : Deploys(p, shipped)
  <2>1. PICK shipped \in BOOLEAN : Deploys(p, shipped)
    BY <1>4
  <2>2. deployed' = IF shipped THEN deployed + 1 ELSE deployed
    BY <2>1 DEF Deploys
  <2>3. UNCHANGED <<operator, today, lossy, intent, completed, erased, manifests, startedOn,
                    paidIn>>
    BY <2>1 DEF Deploys
  <2> QED BY <2>2, <2>3
<1>5. CASE Records(p)
  BY <1>5 DEF Records
<1>6. CASE Files(p)
  BY <1>6 DEF Files
<1>7. CASE Signalled(p)
  BY <1>7 DEF Signalled
<1> QED BY <1>2, <1>3, <1>4, <1>5, <1>6, <1>7

\* The budget is asked of a fresh copy, which claims nothing more.
LEMMA DecidesNext ==
  ASSUME LoopInv, NEW p \in Daemon, NEW e \in Estimate, Decides(p, e)
  PROVE  LoopInv'
<1> USE DEF LoopInv
<1> PICK d \in DaemonState :
      /\ daemon' = [daemon EXCEPT ![p] = d]
      /\ d.state = RolledOver(file)
      /\ d.pc = IF d.decision = "proceed" THEN "training" ELSE "recording"
  BY DecidesAs
<1>1. /\ d.state.iterations = file.iterations /\ d.state.gated = file.gated
      /\ d.state.shipped = file.shipped
  BY DEF RolledOver, LDTypeOK, LoopState
<1>2. PendingOf(d) = 0
  BY DEF PendingOf
<1>3. Reads(p) /\ UNCHANGED <<operator, completed, erased, deployed, manifests>>
  BY DEF Decides
<1>4. LDTypeOK'
  BY <1>3, CountsTyped, ReadsTyped, DaemonTyped
<1>5. AllEarned' /\ WorkIsAllowed'
  <2>1. Earned(file, 0)'
    BY <1>3 DEF AllEarned, Earned, Reads
  <2>2. Earned(d.state, PendingOf(d))'
    BY <1>1, <1>2, <1>3 DEF AllEarned, Earned, Funnel
  <2> QED BY <1>3, <1>4, <2>1, <2>2, CountsTyped, ClaimsKept
<1>6. ManifestsAreEarned'
  BY <1>3, <1>4, CountsTyped, LoopAssumption, FilingKept
<1>7. Exact'
  BY <1>1, <1>2, <1>3, ExactAfterRead
<1> QED BY <1>4, <1>5, <1>6, <1>7

\* A train and a gate change no claim, nor does a signal.
LEMMA WorksNext ==
  ASSUME LoopInv, NEW p \in Daemon,
         (\E v \in {"OK", "MAJOR", "SKIPPED"} : Trains(p, v)) \/ Signalled(p)
  PROVE  LoopInv'
<1> USE DEF LoopInv
<1>1. PICK d \in DaemonState :
      /\ daemon' = [daemon EXCEPT ![p] = d]
      /\ d.state = daemon[p].state /\ d.decision = daemon[p].decision
      /\ \/ d.pc = daemon[p].pc
         \/ d.pc = "deploying" /\ daemon[p].pc = "training"
  <2>1. ASSUME NEW v \in {"OK", "MAJOR", "SKIPPED"}, Trains(p, v) PROVE daemon[p].pc = "training"
    BY <2>1 DEF Trains
  <2>2. CASE Signalled(p)
    BY <2>2, SignalledAs
  <2>3. CASE \E v \in {"OK", "MAJOR", "SKIPPED"} : Trains(p, v)
    <3>1. PICK v \in {"OK", "MAJOR", "SKIPPED"} : Trains(p, v)
      BY <2>3
    <3>2. daemon[p].pc = "training"
      BY <2>1, <3>1
    <3> QED BY <3>1, <3>2, TrainsAs
  <2> QED BY <2>2, <2>3
<1>2. PendingOf(d) = Pending(p)
  BY <1>1 DEF PendingOf, Pending, Proceeded
<1>3. UNCHANGED <<file, fresh, overlapped, operator, completed, erased, deployed, manifests>>
  BY DEF Trains, Signalled, control, tally
<1>4. LDTypeOK'
  <2>1. UNCHANGED control
    BY <1>3 DEF control
  <2> QED BY <1>1, <2>1, CountsTyped, ReadsTyped, DaemonTyped
<1>5. AllEarned' /\ WorkIsAllowed'
  <2>1. Earned(file, 0)'
    BY <1>3 DEF AllEarned, Earned
  <2>2. Earned(d.state, PendingOf(d))'
    BY <1>1, <1>2, <1>3 DEF AllEarned, Earned
  <2>3. d.pc \in {"training", "deploying"} => d.decision = "proceed"
    BY <1>1 DEF WorkIsAllowed, Proceeded
  <2> QED BY <1>1, <1>3, <1>4, <2>1, <2>2, <2>3, CountsTyped, ClaimsKept
<1>6. ManifestsAreEarned'
  BY <1>1, <1>3, <1>4, CountsTyped, LoopAssumption, FilingKept
<1>7. Exact'
  BY <1>1, <1>2, <1>3, ExactUntouched DEF Exact, FreshIsHeld, FreshIsExact
<1> QED BY <1>4, <1>5, <1>6, <1>7

\* What a daemon's iteration adds to its copy is earned: a ship had a gate and an answer.
LEMMA DeploysNext ==
  ASSUME LoopInv, NEW p \in Daemon, NEW shipped \in BOOLEAN, Deploys(p, shipped)
  PROVE  LoopInv'
<1> USE DEF LoopInv
<1> DEFINE old == daemon[p].state
           verdict == daemon[p].verdict
<1> PICK d \in DaemonState :
      /\ daemon' = [daemon EXCEPT ![p] = d]
      /\ d.pc = "recording" /\ d.decision = daemon[p].decision
      /\ d.state = Bumped(old, verdict, shipped, daemon[p].estimate)
  BY DeploysAs
<1>1. old \in LoopState
  BY DEF LDTypeOK
<1>2. /\ d.state.iterations = old.iterations + 1
      /\ d.state.gated = IF verdict = "SKIPPED" THEN old.gated ELSE old.gated + 1
      /\ d.state.shipped = IF shipped THEN old.shipped + 1 ELSE old.shipped
  BY <1>1 DEF Bumped, LoopState
<1>3. /\ UNCHANGED <<file, fresh, overlapped, operator, completed, erased, manifests>>
      /\ deployed' = IF shipped THEN deployed + 1 ELSE deployed
      /\ daemon[p].pc = "deploying" /\ (shipped => verdict = "OK")
  BY DEF Deploys, control, MayDeploy
<1>4. LDTypeOK'
  <2>1. UNCHANGED control
    BY <1>3 DEF control
  <2> QED BY <2>1, CountsTyped, ReadsTyped, DaemonTyped
<1>5. PendingOf(d) = 1 /\ Pending(p) = 0
  BY <1>3 DEF PendingOf, Pending, WorkIsAllowed, Proceeded
<1>6. AllEarned' /\ WorkIsAllowed'
  <2>1. Earned(file, 0)'
    <3>1. file.shipped <= deployed'
      BY <1>3 DEF AllEarned, Earned, LDTypeOK, LoopState
    <3> QED BY <1>3, <3>1 DEF AllEarned, Earned
  <2>2. Earned(old, 0)
    BY <1>5 DEF AllEarned
  <2>3. Funnel(d.state) /\ d.state.iterations - 1 <= completed /\ d.state.shipped <= deployed'
    BY <1>1, <1>2, <1>3, <2>2 DEF Earned, Funnel, LoopState, LDTypeOK
  <2>4. Earned(d.state, PendingOf(d))'
    BY <1>3, <1>5, <2>3 DEF Earned, Funnel
  <2> QED BY <1>3, <1>4, <2>1, <2>4, CountsTyped, ClaimsKept
<1>7. ManifestsAreEarned'
  BY <1>3, <1>4, CountsTyped, LoopAssumption, FilingKept
<1>8. Exact'
  <2>1. p \in fresh => d.state.iterations = file.iterations + PendingOf(d)
    BY <1>1, <1>2, <1>5 DEF Exact, FreshIsExact, LDTypeOK, LoopState
  <2> QED BY <1>3, <2>1, ExactUntouched
<1> QED BY <1>4, <1>6, <1>7, <1>8

\* A copy is recorded: what was pending of it is completed, and to be filed.
LEMMA RecordsNext ==
  ASSUME LoopInv, NEW p \in Daemon, Records(p)
  PROVE  LoopInv'
<1> USE DEF LoopInv
<1> DEFINE old == daemon[p].state
<1> PICK d \in DaemonState :
      /\ daemon' = [daemon EXCEPT ![p] = d]
      /\ d.pc = "filing" /\ d.state = FirstState /\ d.decision = daemon[p].decision
  BY RecordsAs
<1>1. /\ Writes(p, old) /\ UNCHANGED <<operator, erased, deployed, manifests>>
      /\ completed' = (IF Proceeded(p) THEN completed + 1 ELSE completed)
      /\ daemon[p].pc = "recording"
  BY DEF Records
<1>2. old \in LoopState /\ completed \in Nat
  BY DEF LDTypeOK
<1>3. completed' = completed + Pending(p) /\ Pending(p) \in {0, 1} /\ PendingOf(d) = 0
  BY <1>1, <1>2 DEF Pending, PendingOf
<1>4. LDTypeOK'
  BY <1>1, <1>2, CountsTyped, WritesTyped, DaemonTyped
<1>5. AllEarned' /\ WorkIsAllowed'
  <2>1. Earned(old, Pending(p))
    BY DEF AllEarned
  <2>2. old.iterations <= completed'
    BY <1>2, <1>3, <2>1 DEF Earned, LoopState
  <2>3. Earned(file, 0)'
    BY <1>1, <1>2, <2>1, <2>2 DEF Earned, Writes, LoopState, Funnel
  <2>4. Earned(d.state, PendingOf(d))'
    BY <1>3, <1>4, FirstIsEarned
  <2> QED BY <1>1, <1>4, <2>3, <2>4, CountsTyped, ClaimsKept
<1>6. ManifestsAreEarned'
  <2>1. daemon'[p] = d /\ \A q \in Daemon \ {p} : daemon'[q] = daemon[q]
    BY DEF LDTypeOK
  <2>2. IsFiniteSet(Filing) /\ Cardinality(Filing) \in Nat
    BY FS_Subset, FS_CardinalityType, LoopAssumption DEF Filing
  <2>3. CASE Proceeded(p)
    <3>1. Filing' = Filing \cup {p} /\ p \notin Filing
      BY <1>1, <2>1, <2>3 DEF Filing, Proceeded
    <3>2. Cardinality(Filing') = Cardinality(Filing) + 1
      BY <2>2, <3>1, FS_AddElement
    <3> QED BY <1>1, <1>2, <2>2, <2>3, <3>2 DEF ManifestsAreEarned, LDTypeOK
  <2>4. CASE ~Proceeded(p)
    <3>1. Filing' = Filing
      BY <1>1, <2>1, <2>4 DEF Filing, Proceeded
    <3> QED BY <1>1, <2>4, <3>1 DEF ManifestsAreEarned
  <2> QED BY <2>3, <2>4
<1>7. Exact'
  <2>1. ~overlapped /\ p \in fresh => old.iterations = (completed + Pending(p)) - erased
    <3>1. ~overlapped => file.iterations = completed - erased
      BY DEF Exact, CountersAreExact
    <3>2. p \in fresh => old.iterations = file.iterations + Pending(p)
      BY DEF Exact, FreshIsExact
    <3>3. erased \in Nat
      BY DEF LDTypeOK
    <3> QED BY <1>2, <1>3, <3>1, <3>2, <3>3
  <2>2. ~overlapped /\ p \in fresh => old.iterations = completed' - erased
    BY <1>3, <2>1
  <2> QED BY <1>1, <2>2, ExactAfterWrite
<1> QED BY <1>4, <1>5, <1>6, <1>7

\* A manifest is written for an iteration that is on record, once.
LEMMA FilesNext ==
  ASSUME LoopInv, NEW p \in Daemon, Files(p)
  PROVE  LoopInv'
<1> USE DEF LoopInv
<1> PICK d \in DaemonState :
      /\ daemon' = [daemon EXCEPT ![p] = d]
      /\ d.pc \in {"top", "resting"} /\ d.state = FirstState
  BY FilesAs
<1>1. /\ UNCHANGED <<file, fresh, overlapped, operator, completed, erased, deployed>>
      /\ manifests' \in IF Proceeded(p) THEN {manifests, manifests + 1} ELSE {manifests}
      /\ daemon[p].pc = "filing"
  BY DEF Files, control, Manifested
<1>2. LDTypeOK'
  <2>1. UNCHANGED control
    BY <1>1 DEF control
  <2> QED BY <2>1, CountsTyped, ReadsTyped, DaemonTyped
<1>3. PendingOf(d) = 0
  BY DEF PendingOf
<1>4. AllEarned' /\ WorkIsAllowed'
  <2>1. Earned(file, 0)'
    BY <1>1 DEF AllEarned, Earned
  <2>2. Earned(d.state, PendingOf(d))'
    BY <1>2, <1>3, FirstIsEarned
  <2> QED BY <1>1, <1>2, <2>1, <2>2, CountsTyped, ClaimsKept
<1>5. ManifestsAreEarned'
  <2>1. daemon'[p] = d /\ \A q \in Daemon \ {p} : daemon'[q] = daemon[q]
    BY DEF LDTypeOK
  <2>2. IsFiniteSet(Filing) /\ Cardinality(Filing) \in Nat
    BY FS_Subset, FS_CardinalityType, LoopAssumption DEF Filing
  <2>3. CASE Proceeded(p)
    <3>1. Filing' = Filing \ {p} /\ p \in Filing
      BY <1>1, <2>1, <2>3 DEF Filing, Proceeded
    <3>2. Cardinality(Filing') = Cardinality(Filing) - 1
      BY <2>2, <3>1, FS_RemoveElement
    <3> QED BY <1>1, <2>2, <2>3, <3>2 DEF ManifestsAreEarned, LDTypeOK
  <2>4. CASE ~Proceeded(p)
    <3>1. Filing' = Filing
      BY <1>1, <2>1, <2>4 DEF Filing, Proceeded
    <3> QED BY <1>1, <2>4, <3>1 DEF ManifestsAreEarned
  <2> QED BY <2>3, <2>4
<1>6. Exact'
  <2>1. p \notin fresh
    BY <1>1 DEF Exact, FreshIsHeld
  <2> QED BY <1>1, <2>1, ExactUntouched
<1> QED BY <1>2, <1>4, <1>5, <1>6

-----------------------------------------------------------------------------
(* The operators, and the clock.                                           *)

\* The claims outlive a step that only changes what is not counted.
LEMMA ClaimsOfOthers ==
  ASSUME LoopInv, UNCHANGED <<daemon, completed, deployed, manifests>>,
         Earned(file', 0), \A o \in Operator : Earned(operator'[o].state, 0)
  PROVE  AllEarned' /\ ManifestsAreEarned' /\ WorkIsAllowed'
<1> USE DEF LoopInv
<1>1. AllEarned'
  BY DEF AllEarned, Earned, Pending, Proceeded
<1>2. Filing' = Filing
  BY DEF Filing, Proceeded
<1> QED BY <1>1, <1>2 DEF ManifestsAreEarned, WorkIsAllowed, Proceeded

LEMMA CommandReadsNext ==
  ASSUME LoopInv, NEW o \in Operator, NEW cmd \in Command, CommandReads(o, cmd)
  PROVE  LoopInv'
<1> USE DEF LoopInv
<1>1. /\ operator' = [operator EXCEPT ![o] = [cmd |-> cmd, state |-> file]]
      /\ fresh' = fresh \cup {o} /\ UNCHANGED <<file, overlapped, daemon, tally>>
      /\ UNCHANGED <<today, lossy, intent>>
  BY DEF CommandReads, Reads
<1>2. /\ operator'[o].state = file
      /\ \A u \in Operator \ {o} : operator'[u] = operator[u]
  BY <1>1 DEF LDTypeOK
<1>3. LDTypeOK'
  <2>1. [cmd |-> cmd, state |-> file] \in OperatorState
    BY DEF LDTypeOK, OperatorState
  <2>2. operator' \in [Operator -> OperatorState]
    BY <1>1, <2>1 DEF LDTypeOK, OperatorState
  <2> QED BY <1>1, <2>2 DEF LDTypeOK, OperatorState, tally
<1>4. AllEarned' /\ ManifestsAreEarned' /\ WorkIsAllowed'
  <2>1. UNCHANGED <<daemon, completed, deployed, manifests>> /\ file' = file
    BY <1>1 DEF tally
  <2>2. Earned(file', 0) /\ \A u \in Operator : Earned(operator'[u].state, 0)
    BY <1>2, <2>1 DEF AllEarned
  <2> QED BY <2>1, <2>2, ClaimsOfOthers
<1>5. Exact'
  <2>1. fresh' \cap Daemon = fresh \cap Daemon
    BY <1>1, LoopAssumption
  <2>2. FreshIsHeld'
    BY <1>1, <2>1 DEF Exact, FreshIsHeld
  <2>3. FreshIsExact'
    BY <1>1, <1>2, <2>1 DEF Exact, FreshIsExact, Pending, Proceeded
  <2>4. CountersAreExact'
    BY <1>1 DEF Exact, CountersAreExact, tally
  <2> QED BY <2>2, <2>3, <2>4 DEF Exact
<1> QED BY <1>3, <1>4, <1>5

\* A command writes back the counters it has read.
LEMMA CommandWritesNext ==
  ASSUME LoopInv, NEW o \in Operator, CommandWrites(o)
  PROVE  LoopInv'
<1> USE DEF LoopInv
<1> DEFINE old == operator[o].state
<1>1. old \in LoopState
  BY DEF LDTypeOK
<1>2. PICK s \in LoopState :
        /\ Writes(o, s) /\ intent' \in {"running", "paused"}
        /\ s.iterations = old.iterations /\ s.gated = old.gated /\ s.shipped = old.shipped
  <2>1. CASE operator[o].cmd = "canary"
    <3>1. PICK a \in Adapter : Writes(o, [old EXCEPT !.canary = a]) /\ UNCHANGED intent
      BY <2>1 DEF CommandWrites
    <3> DEFINE s == [old EXCEPT !.canary = a]
    <3>2. /\ s \in LoopState
          /\ s.iterations = old.iterations /\ s.gated = old.gated /\ s.shipped = old.shipped
      BY <1>1 DEF LoopState
    <3> HIDE DEF s
    <3>3. Writes(o, s)
      BY <3>1 DEF s
    <3> QED BY <3>1, <3>2, <3>3 DEF LDTypeOK
  <2>2. CASE operator[o].cmd # "canary"
    <3>1. PICK status \in {"running", "paused"} :
            Writes(o, WithStatus(old, status)) /\ intent' = status
      BY <2>2 DEF CommandWrites
    <3> DEFINE s == WithStatus(old, status)
    <3>2. /\ s \in LoopState
          /\ s.iterations = old.iterations /\ s.gated = old.gated /\ s.shipped = old.shipped
      BY <1>1 DEF LoopState, WithStatus
    <3> HIDE DEF s
    <3>3. Writes(o, s)
      BY <3>1 DEF s
    <3> QED BY <3>1, <3>2, <3>3
  <2> QED BY <2>1, <2>2
<1>3. /\ operator' = [operator EXCEPT ![o] = [cmd |-> "idle", state |-> FirstState]]
      /\ UNCHANGED <<daemon, today, lossy, tally>>
  BY DEF CommandWrites
<1>4. /\ operator'[o].state = FirstState
      /\ \A u \in Operator \ {o} : operator'[u] = operator[u]
  BY <1>3 DEF LDTypeOK
<1>5. LDTypeOK'
  <2>1. [cmd |-> "idle", state |-> FirstState] \in OperatorState
    BY FirstIsAState DEF OperatorState
  <2>2. operator' \in [Operator -> OperatorState]
    BY <1>3, <2>1 DEF LDTypeOK, OperatorState
  <2>3. file' \in LoopState /\ fresh' \subseteq Daemon \cup Operator /\ overlapped' \in BOOLEAN
    BY <1>2, WritesTyped
  <2> QED BY <1>2, <1>3, <2>2, <2>3 DEF LDTypeOK, OperatorState, tally
<1>6. Earned(s, 0)
  BY <1>2 DEF AllEarned, Earned, Funnel
<1>7. AllEarned' /\ ManifestsAreEarned' /\ WorkIsAllowed'
  <2>1. Earned(file', 0)
    BY <1>2, <1>6 DEF Writes
  <2>2. Earned(FirstState, 0)
    BY DEF Earned, Funnel, FirstState, LDTypeOK
  <2>3. \A u \in Operator : Earned(operator'[u].state, 0)
    BY <1>4, <2>2 DEF AllEarned
  <2> QED BY <1>3, <2>1, <2>3, ClaimsOfOthers DEF tally
<1>8. Exact'
  <2>1. ~overlapped /\ o \in fresh => s.iterations = completed' - erased
    BY <1>2, <1>3 DEF Exact, FreshIsExact, CountersAreExact, tally
  <2> QED BY <1>2, <1>3, <2>1, ExactAfterWrite DEF tally
<1> QED BY <1>5, <1>7, <1>8

\* Beginning again claims nothing, and nobody's copy is fresh any more.
LEMMA InitForceNext == ASSUME LoopInv, InitForce PROVE LoopInv'
<1> USE DEF LoopInv
<1>1. /\ file' = FirstState /\ fresh' = {} /\ erased' = completed /\ lossy' = TRUE
      /\ intent' = "running"
      /\ UNCHANGED <<daemon, operator, today, overlapped, completed, deployed, manifests,
                     startedOn, paidIn>>
  BY DEF InitForce
<1>2. LDTypeOK'
  BY <1>1, FirstIsAState DEF LDTypeOK
<1>3. AllEarned' /\ ManifestsAreEarned' /\ WorkIsAllowed'
  <2>1. Earned(FirstState, 0)
    BY DEF Earned, Funnel, FirstState, LDTypeOK
  <2> QED BY <1>1, <2>1, ClaimsOfOthers DEF AllEarned
<1>4. Exact'
  <2>1. file'.iterations = completed' - erased'
    BY <1>1 DEF FirstState, LDTypeOK
  <2> QED BY <1>1, <2>1 DEF Exact, FreshIsHeld, FreshIsExact, CountersAreExact
<1> QED BY <1>2, <1>3, <1>4

\* Neither midnight nor the passing of time changes a counter.
LEMMA TimeNext == ASSUME LoopInv, DayPasses \/ UNCHANGED loopVars PROVE LoopInv'
<1> USE DEF LoopInv
<1>1. UNCHANGED <<file, daemon, operator, fresh, overlapped, lossy, completed, erased, deployed,
                  manifests, startedOn, paidIn, intent>>
  BY DEF DayPasses, loopVars, tally
<1>2. today' \in Day
  BY LoopAssumption DEF DayPasses, loopVars, Day, LDTypeOK
<1>3. LDTypeOK'
  BY <1>1, <1>2 DEF LDTypeOK
<1>4. AllEarned' /\ ManifestsAreEarned' /\ WorkIsAllowed'
  BY <1>1, ClaimsOfOthers DEF AllEarned
<1>5. Exact'
  BY <1>1 DEF Exact, FreshIsHeld, FreshIsExact, CountersAreExact, Pending, Proceeded
<1> QED BY <1>3, <1>4, <1>5

-----------------------------------------------------------------------------
(* The daemons, and all together.                                          *)

\* The steps of a daemon that leave it with nothing in hand.
LEMMA RestingNext ==
  ASSUME LoopInv, NEW p \in Daemon,
         Leaves(p) \/ Parks(p) \/ Wakes(p) \/ Raises(p) \/ RecordFails(p) \/ DaemonDies(p)
  PROVE  LoopInv'
<1> USE DEF LoopInv
<1>1. CASE Leaves(p) \/ Parks(p) \/ Wakes(p)
  <2>1. PICK pc \in {"leaving", "parked", "top"} : DaemonGoes(p, pc)
    BY <1>1 DEF Leaves, Parks, Wakes
  <2>2. PICK d \in DaemonState :
          daemon' = [daemon EXCEPT ![p] = d] /\ d.pc = pc /\ d.state = FirstState
    BY <2>1, RestsAs DEF DaemonPc
  <2>3. p \notin fresh
    <3>1. daemon[p].pc \in {"top", "parked", "resting"}
      BY <1>1 DEF Leaves, Parks, Wakes, InLoop
    <3> QED BY <3>1 DEF Exact, FreshIsHeld
  <2>4. UNCHANGED <<operator, today, lossy, intent, control, tally>>
    BY <1>1 DEF Leaves, Parks, Wakes
  <2>5. lossy' \in BOOLEAN /\ fresh' = fresh \ {p}
    BY <2>3, <2>4 DEF control, LDTypeOK
  <2> QED BY <2>2, <2>4, <2>5, GoesNext DEF control
<1>2. CASE Raises(p) \/ RecordFails(p)
  <2>1. PICK d \in DaemonState :
          daemon' = [daemon EXCEPT ![p] = d] /\ d.pc = "leaving" /\ d.state = FirstState
    BY <1>2, RestsAs DEF Raises, RecordFails, DaemonPc
  <2>2. Forgets(p) /\ UNCHANGED <<operator, today, intent, tally>> /\ lossy' \in BOOLEAN
    BY <1>2 DEF Raises, RecordFails, LDTypeOK
  <2> QED BY <2>1, <2>2, GoesNext DEF Forgets
<1>3. CASE DaemonDies(p)
  <2>1. Forgets(p) /\ UNCHANGED <<operator, today, intent, tally>> /\ lossy' \in BOOLEAN
    BY <1>3 DEF DaemonDies, LDTypeOK
  <2>2. daemon' = [daemon EXCEPT ![p] = OffDuty]
    BY <1>3 DEF DaemonDies
  <2>3. OffDuty.pc = "off" /\ OffDuty.state = FirstState
    BY DEF OffDuty
  <2> QED BY <2>1, <2>2, <2>3, OffIsAState, GoesNext DEF Forgets
<1> QED BY <1>1, <1>2, <1>3

\* A daemon on its way in, or out.
LEMMA ThresholdNext ==
  ASSUME LoopInv, NEW p \in Daemon, WatchStarts(p) \/ LooksBack(p) \/ Promotes(p) \/ Stops(p)
  PROVE  LoopInv'
<1> USE DEF LoopInv
<1>1. CASE WatchStarts(p) \/ LooksBack(p)
  <2>1. UNCHANGED <<operator, today, lossy, intent, tally>>
    BY <1>1 DEF WatchStarts, LooksBack
  <2>2. PICK d \in DaemonState :
          /\ daemon' = [daemon EXCEPT ![p] = d]
          /\ \/ d.pc \in {"promoting", "stopping"} /\ d.state = file /\ Reads(p)
             \/ d.pc \in {"top", "off"} /\ d.state = FirstState /\ UNCHANGED control
    <3>1. CASE WatchStarts(p)
      BY <3>1, WatchStartsAs
    <3>2. CASE LooksBack(p)
      BY <3>2, LooksBackAs
    <3> QED BY <1>1, <3>1, <3>2
  <2>3. CASE d.pc \in {"promoting", "stopping"} /\ d.state = file /\ Reads(p)
    BY <2>1, <2>2, <2>3, HoldsNext
  <2>4. CASE d.pc \in {"top", "off"} /\ d.state = FirstState /\ UNCHANGED control
    <3>1. p \notin fresh
      BY <1>1 DEF WatchStarts, LooksBack, Exact, FreshIsHeld
    <3>2. fresh' = fresh \ {p} /\ lossy' \in BOOLEAN
      BY <2>1, <2>4, <3>1 DEF control, LDTypeOK
    <3> QED BY <2>1, <2>2, <2>4, <3>2, GoesNext DEF control
  <2> QED BY <2>2, <2>3, <2>4
<1>2. CASE Promotes(p)
  <2>1. PICK d \in DaemonState :
          daemon' = [daemon EXCEPT ![p] = d] /\ d.pc = "top" /\ d.state = FirstState
    BY <1>2, RestsAs DEF Promotes, DaemonPc
  <2> QED BY <1>2, <2>1, FlipsNext DEF Promotes
<1>3. CASE Stops(p)
  <2>1. OffDuty.pc = "off" /\ OffDuty.state = FirstState
    BY DEF OffDuty
  <2> QED BY <1>3, <2>1, OffIsAState, FlipsNext DEF Stops
<1> QED BY <1>1, <1>2, <1>3

LEMMA LoopInvNext == LoopInv /\ [LoopNext]_loopVars => LoopInv'
<1> SUFFICES ASSUME LoopInv, [LoopNext]_loopVars PROVE LoopInv'
  OBVIOUS
<1>1. ASSUME NEW p \in Daemon, WatchStarts(p) \/ DaemonStep(p) \/ Signalled(p) \/ DaemonDies(p)
      PROVE  LoopInv'
  <2>1. CASE WatchStarts(p) \/ Promotes(p) \/ LooksBack(p) \/ Stops(p)
    BY <2>1, ThresholdNext
  <2>2. CASE Leaves(p) \/ Parks(p) \/ Wakes(p) \/ Raises(p) \/ RecordFails(p) \/ DaemonDies(p)
    BY <2>2, RestingNext
  <2>3. CASE \E e \in Estimate : Decides(p, e)
    BY <2>3, DecidesNext
  <2>4. CASE (\E v \in {"OK", "MAJOR", "SKIPPED"} : Trains(p, v)) \/ Signalled(p)
    BY <2>4, WorksNext
  <2>5. CASE \E shipped \in BOOLEAN : Deploys(p, shipped)
    BY <2>5, DeploysNext
  <2>6. CASE Records(p)
    BY <2>6, RecordsNext
  <2>7. CASE Files(p)
    BY <2>7, FilesNext
  <2> QED
    BY <1>1, <2>1, <2>2, <2>3, <2>4, <2>5, <2>6, <2>7 DEF DaemonStep, IterationStep
<1>2. ASSUME NEW o \in Operator, OperatorStep(o) PROVE LoopInv'
  BY <1>2, CommandReadsNext, CommandWritesNext DEF OperatorStep
<1>3. CASE InitForce
  BY <1>3, InitForceNext
<1>4. CASE DayPasses \/ UNCHANGED loopVars
  BY <1>4, TimeNext
<1> QED BY <1>1, <1>2, <1>3, <1>4 DEF LoopNext

\* Whatever the writes of daemons, operators and init --force do to one another, no
\* counter claims what did not happen, and no iteration has two manifests; and while
\* nobody writes what it read before another's write, the counters are exact (watch).
THEOREM CountersStayTrue == LoopSpec => []CountersAreTrue
<1>1. LoopInv => CountersAreTrue
  <2> SUFFICES ASSUME LoopInv PROVE CountersAreEarned
    BY DEF LoopInv, Exact, CountersAreTrue
  <2>1. AllEarned /\ LDTypeOK
    BY DEF LoopInv
  <2>2. manifests <= completed
    <3>1. IsFiniteSet(Filing) /\ Cardinality(Filing) \in Nat
      BY FS_Subset, FS_CardinalityType, LoopAssumption DEF Filing
    <3> QED BY <2>1, <3>1 DEF LoopInv, ManifestsAreEarned, LDTypeOK
  <2>3. Funnel(file) /\ file.iterations <= completed /\ file.shipped <= deployed
    BY <2>1 DEF AllEarned, Earned, LDTypeOK, LoopState
  <2>4. ASSUME NEW p \in Daemon
        PROVE  /\ Funnel(daemon[p].state) /\ daemon[p].state.shipped <= deployed
               /\ daemon[p].state.iterations <= completed + Pending(p)
    <3>1. daemon[p].state \in LoopState /\ completed \in Nat /\ Pending(p) \in Nat
      BY <2>1 DEF LDTypeOK, Pending
    <3> QED BY <2>1, <3>1 DEF AllEarned, Earned, LoopState
  <2>5. ASSUME NEW o \in Operator
        PROVE  /\ Funnel(operator[o].state) /\ operator[o].state.iterations <= completed
               /\ operator[o].state.shipped <= deployed
    <3>1. operator[o].state \in LoopState /\ completed \in Nat
      BY <2>1 DEF LDTypeOK
    <3> QED BY <2>1, <3>1 DEF AllEarned, Earned, LoopState
  <2> QED BY <2>2, <2>3, <2>4, <2>5 DEF CountersAreEarned, Pending
<1> QED BY <1>1, LoopInvInit, LoopInvNext, PTL DEF LoopSpec

\* The control file, the copies of it and the counters keep their types.
THEOREM LoopStaysTyped == LoopSpec => []LDTypeOK
<1>1. LoopInv => LDTypeOK
  BY DEF LoopInv
<1> QED BY <1>1, LoopInvInit, LoopInvNext, PTL DEF LoopSpec

-----------------------------------------------------------------------------
(* Pauses.                                                                 *)

\* What is fresh has the file's status ...
StatusIsFresh ==
  /\ \A p \in fresh \cap Daemon : daemon[p].state.status = file.status
  /\ \A o \in fresh \cap Operator : operator[o].state.status = file.status

\* ... and a daemon on its way in or out flips the one it has found.
FlipsWhatItFound ==
  \A p \in Daemon :
    /\ daemon[p].pc = "promoting" => daemon[p].state.status = "stopped"
    /\ daemon[p].pc = "stopping" => daemon[p].state.status = "running"

PauseInv == StatusIsFresh /\ FlipsWhatItFound /\ PauseIsTheOperators

\* A daemon's step that writes nothing.
LEMMA PauseUnwritten ==
  ASSUME LDTypeOK, PauseInv, NEW p \in Daemon, NEW d, daemon' = [daemon EXCEPT ![p] = d],
         UNCHANGED <<file, overlapped, operator, intent>>, fresh' \subseteq fresh \cup {p},
         p \in fresh' => d.state.status = file.status,
         d.pc = "promoting" => d.state.status = "stopped",
         d.pc = "stopping" => d.state.status = "running"
  PROVE  PauseInv'
<1>1. daemon'[p] = d /\ \A q \in Daemon \ {p} : daemon'[q] = daemon[q]
  BY DEF LDTypeOK
<1>2. StatusIsFresh'
  BY <1>1, LoopAssumption DEF PauseInv, StatusIsFresh
<1>3. FlipsWhatItFound'
  BY <1>1 DEF PauseInv, FlipsWhatItFound
<1>4. PauseIsTheOperators'
  BY DEF PauseInv, PauseIsTheOperators
<1> QED BY <1>2, <1>3, <1>4 DEF PauseInv

\* A daemon's write neither pauses nor resumes, unless what it writes is stale.
LEMMA PauseWritten ==
  ASSUME LDTypeOK, PauseInv, NEW p \in Daemon, NEW d, daemon' = [daemon EXCEPT ![p] = d],
         UNCHANGED <<operator, intent>>, NEW s, Writes(p, s),
         p \in fresh => (s.status = "paused" <=> file.status = "paused"),
         d.pc \notin {"promoting", "stopping"}
  PROVE  PauseInv'
<1>1. daemon'[p] = d /\ \A q \in Daemon \ {p} : daemon'[q] = daemon[q]
  BY DEF LDTypeOK
<1>2. StatusIsFresh' /\ FlipsWhatItFound'
  BY <1>1 DEF PauseInv, StatusIsFresh, FlipsWhatItFound, Writes
<1>3. PauseIsTheOperators'
  BY DEF PauseInv, PauseIsTheOperators, Writes
<1> QED BY <1>2, <1>3 DEF PauseInv

LEMMA PauseOfADaemon ==
  ASSUME LoopInv, PauseInv, NEW p \in Daemon,
         WatchStarts(p) \/ DaemonStep(p) \/ Signalled(p) \/ DaemonDies(p)
  PROVE  PauseInv'
<1> USE DEF LoopInv
<1>1. p \in fresh => daemon[p].state.status = file.status
  BY DEF PauseInv, StatusIsFresh
<1>2. CASE WatchStarts(p)
  <2>1. PICK d \in DaemonState :
          /\ daemon' = [daemon EXCEPT ![p] = d]
          /\ \/ d.pc = "promoting" /\ d.state = file /\ Reads(p)
             \/ d.pc = "top" /\ d.state = FirstState /\ UNCHANGED control
    BY <1>2, WatchStartsAs
  <2>2. p \notin fresh /\ UNCHANGED <<operator, intent>>
    BY <1>2 DEF WatchStarts, Exact, FreshIsHeld
  <2>3. d.pc = "promoting" => file.status = "stopped"
    <3>1. Promotable(file.status) \/ daemon' = [daemon EXCEPT ![p] = [OffDuty EXCEPT !.pc = "top"]]
      BY <1>2 DEF WatchStarts
    <3>2. daemon'[p] = d
      BY <2>1 DEF LDTypeOK
    <3>3. CASE daemon' = [daemon EXCEPT ![p] = [OffDuty EXCEPT !.pc = "top"]]
      BY <3>2, <3>3 DEF LDTypeOK, OffDuty
    <3> QED BY <3>1, <3>3 DEF Promotable
  <2> QED BY <2>1, <2>2, <2>3, PauseUnwritten DEF Reads, control
<1>3. CASE LooksBack(p)
  <2>1. PICK d \in DaemonState :
          /\ daemon' = [daemon EXCEPT ![p] = d]
          /\ \/ d.pc = "stopping" /\ d.state = file /\ Reads(p)
             \/ d.pc = "off" /\ d.state = FirstState /\ UNCHANGED control
    BY <1>3, LooksBackAs
  <2>2. p \notin fresh /\ UNCHANGED <<operator, intent>>
    BY <1>3 DEF LooksBack, Exact, FreshIsHeld
  <2>3. d.pc = "stopping" => file.status = "running"
    <3>1. Demotable(file.status) \/ daemon' = [daemon EXCEPT ![p] = OffDuty]
      BY <1>3 DEF LooksBack
    <3>2. daemon'[p] = d
      BY <2>1 DEF LDTypeOK
    <3>3. CASE daemon' = [daemon EXCEPT ![p] = OffDuty]
      BY <3>2, <3>3 DEF LDTypeOK, OffDuty
    <3> QED BY <3>1, <3>3 DEF Demotable
  <2> QED BY <2>1, <2>2, <2>3, PauseUnwritten DEF Reads, control
<1>4. CASE Promotes(p) \/ Stops(p)
  <2>1. PICK status \in {"running", "stopped"} :
          /\ Writes(p, WithStatus(daemon[p].state, status))
          /\ daemon[p].state.status # "paused"
    BY <1>4 DEF Promotes, Stops, PauseInv, FlipsWhatItFound
  <2>2. PICK d \in DaemonState :
          daemon' = [daemon EXCEPT ![p] = d] /\ d.pc \in {"top", "off"}
    <3>1. CASE Promotes(p)
      BY <3>1, RestsAs DEF Promotes, DaemonPc
    <3>2. CASE Stops(p)
      BY <3>2, OffIsAState DEF Stops, OffDuty
    <3> QED BY <1>4, <3>1, <3>2
  <2>3. WithStatus(daemon[p].state, status).status = status
    BY DEF WithStatus, LDTypeOK, LoopState
  <2>4. UNCHANGED <<operator, intent>>
    BY <1>4 DEF Promotes, Stops
  <2> QED BY <1>1, <2>1, <2>2, <2>3, <2>4, PauseWritten
<1>5. CASE Leaves(p) \/ Parks(p) \/ Wakes(p) \/ Files(p)
  <2>1. PICK d \in DaemonState :
          daemon' = [daemon EXCEPT ![p] = d] /\ d.pc \in {"leaving", "parked", "top", "resting"}
    <3>1. CASE Files(p)
      BY <3>1, FilesAs
    <3>2. CASE Leaves(p) \/ Parks(p) \/ Wakes(p)
      BY <3>2, RestsAs DEF Leaves, Parks, Wakes, DaemonPc
    <3> QED BY <1>5, <3>1, <3>2
  <2>2. p \notin fresh
    <3>1. daemon[p].pc \in {"top", "parked", "resting", "filing"}
      BY <1>5 DEF Leaves, Parks, Wakes, InLoop, Files
    <3> QED BY <3>1 DEF Exact, FreshIsHeld
  <2>3. UNCHANGED <<file, overlapped, operator, intent, fresh>>
    BY <1>5 DEF Leaves, Parks, Wakes, Files, control
  <2> QED BY <2>1, <2>2, <2>3, PauseUnwritten
<1>6. CASE Raises(p) \/ RecordFails(p) \/ DaemonDies(p)
  <2>1. PICK d \in DaemonState :
          daemon' = [daemon EXCEPT ![p] = d] /\ d.pc \in {"leaving", "off"}
    <3>1. CASE DaemonDies(p)
      BY <3>1, OffIsAState DEF DaemonDies, OffDuty
    <3>2. CASE Raises(p) \/ RecordFails(p)
      BY <3>2, RestsAs DEF Raises, RecordFails, DaemonPc
    <3> QED BY <1>6, <3>1, <3>2
  <2>2. Forgets(p) /\ UNCHANGED <<operator, intent>>
    BY <1>6 DEF Raises, RecordFails, DaemonDies
  <2> QED BY <2>1, <2>2, PauseUnwritten DEF Forgets
<1>7. CASE \E e \in Estimate : Decides(p, e)
  <2>1. PICK e \in Estimate : Decides(p, e)
    BY <1>7
  <2>2. PICK d \in DaemonState :
          /\ daemon' = [daemon EXCEPT ![p] = d] /\ d.state = RolledOver(file)
          /\ d.pc \in {"training", "recording"}
    BY <2>1, DecidesAs
  <2>3. RolledOver(file).status = file.status
    BY DEF RolledOver, LDTypeOK, LoopState
  <2> QED BY <2>1, <2>2, <2>3, PauseUnwritten DEF Decides, Reads
<1>8. CASE \E v \in {"OK", "MAJOR", "SKIPPED"} : Trains(p, v)
  <2>1. PICK v \in {"OK", "MAJOR", "SKIPPED"} : Trains(p, v)
    BY <1>8
  <2>2. PICK d \in DaemonState :
          daemon' = [daemon EXCEPT ![p] = d] /\ d.pc = "deploying" /\ d.state = daemon[p].state
    BY <2>1, TrainsAs
  <2> QED BY <1>1, <2>1, <2>2, PauseUnwritten DEF Trains, control
<1>9. CASE \E shipped \in BOOLEAN : Deploys(p, shipped)
  <2>1. PICK shipped \in BOOLEAN : Deploys(p, shipped)
    BY <1>9
  <2> DEFINE s == Bumped(daemon[p].state, daemon[p].verdict, shipped, daemon[p].estimate)
  <2>2. PICK d \in DaemonState :
          daemon' = [daemon EXCEPT ![p] = d] /\ d.pc = "recording" /\ d.state = s
    BY <2>1, DeploysAs
  <2>3. s.status = daemon[p].state.status
    BY DEF Bumped, LDTypeOK, LoopState
  <2> HIDE DEF s
  <2> QED BY <1>1, <2>1, <2>2, <2>3, PauseUnwritten DEF Deploys, control
<1>10. CASE Records(p)
  <2>1. PICK d \in DaemonState : daemon' = [daemon EXCEPT ![p] = d] /\ d.pc = "filing"
    BY <1>10, RecordsAs
  <2> QED BY <1>1, <1>10, <2>1, PauseWritten DEF Records
<1>11. CASE Signalled(p)
  <2>1. PICK d \in DaemonState :
          daemon' = [daemon EXCEPT ![p] = d] /\ d.pc = daemon[p].pc /\ d.state = daemon[p].state
    BY <1>11, SignalledAs
  <2>2. UNCHANGED <<file, fresh, overlapped, operator, intent>>
    BY <1>11 DEF Signalled, control
  <2> QED BY <1>1, <2>1, <2>2, PauseUnwritten DEF PauseInv, FlipsWhatItFound
<1> QED
  BY <1>2, <1>3, <1>4, <1>5, <1>6, <1>7, <1>8, <1>9, <1>10, <1>11 DEF DaemonStep, IterationStep

LEMMA PauseOfAnOperator ==
  ASSUME LoopInv, PauseInv, NEW o \in Operator, OperatorStep(o)
  PROVE  PauseInv'
<1> USE DEF LoopInv
<1>1. ASSUME NEW cmd \in Command, CommandReads(o, cmd) PROVE PauseInv'
  <2>1. /\ operator' = [operator EXCEPT ![o] = [cmd |-> cmd, state |-> file]]
        /\ fresh' = fresh \cup {o} /\ UNCHANGED <<file, overlapped, daemon, intent>>
    BY <1>1 DEF CommandReads, Reads
  <2>2. operator'[o].state = file /\ \A u \in Operator \ {o} : operator'[u] = operator[u]
    BY <2>1 DEF LDTypeOK
  <2>3. StatusIsFresh'
    BY <2>1, <2>2, LoopAssumption DEF PauseInv, StatusIsFresh
  <2> QED BY <2>1, <2>3 DEF PauseInv, FlipsWhatItFound, PauseIsTheOperators
<1>2. CASE CommandWrites(o)
  <2> DEFINE old == operator[o].state
  <2>1. old \in LoopState /\ (o \in fresh => old.status = file.status)
    BY DEF LDTypeOK, PauseInv, StatusIsFresh
  <2>2. PICK s :
          /\ Writes(o, s)
          /\ \/ s.status = "paused" /\ intent' = "paused"
             \/ s.status = "running" /\ intent' = "running"
             \/ s.status = old.status /\ intent' = intent
    <3>1. ASSUME NEW status \in {"running", "paused"} PROVE WithStatus(old, status).status = status
      BY <2>1 DEF WithStatus, LoopState
    <3>2. ASSUME NEW a \in Adapter PROVE [old EXCEPT !.canary = a].status = old.status
      BY <2>1 DEF LoopState
    <3> HIDE DEF old
    <3>3. CASE operator[o].cmd = "pause"
      BY <1>2, <3>1, <3>3 DEF CommandWrites, old
    <3>4. CASE operator[o].cmd = "resume"
      BY <1>2, <3>1, <3>4 DEF CommandWrites, old
    <3>5. CASE operator[o].cmd = "canary"
      <4>1. PICK a \in Adapter : Writes(o, [old EXCEPT !.canary = a]) /\ UNCHANGED intent
        BY <1>2, <3>5 DEF CommandWrites, old
      <4> DEFINE s == [old EXCEPT !.canary = a]
      <4>2. s.status = old.status
        BY <3>2
      <4> HIDE DEF s
      <4>3. Writes(o, s)
        BY <4>1 DEF s
      <4> QED BY <4>1, <4>2, <4>3
    <3> QED BY <1>2, <3>3, <3>4, <3>5 DEF CommandWrites
  <2>3. UNCHANGED daemon
    BY <1>2 DEF CommandWrites
  <2>4. StatusIsFresh' /\ FlipsWhatItFound'
    BY <2>2, <2>3 DEF PauseInv, StatusIsFresh, FlipsWhatItFound, Writes
  <2>5. PauseIsTheOperators'
    BY <2>1, <2>2 DEF PauseInv, PauseIsTheOperators, Writes
  <2> QED BY <2>4, <2>5 DEF PauseInv
<1> QED BY <1>1, <1>2 DEF OperatorStep

LEMMA PauseInvNext == LoopInv /\ PauseInv /\ [LoopNext]_loopVars => PauseInv'
<1> SUFFICES ASSUME LoopInv, PauseInv, [LoopNext]_loopVars PROVE PauseInv'
  OBVIOUS
<1>1. CASE InitForce
  BY <1>1 DEF InitForce, FirstState, PauseInv, StatusIsFresh, FlipsWhatItFound,
              PauseIsTheOperators
<1>2. CASE DayPasses \/ UNCHANGED loopVars
  <2>1. UNCHANGED <<file, daemon, operator, fresh, overlapped, intent>>
    BY <1>2 DEF DayPasses, loopVars
  <2> QED BY <2>1 DEF PauseInv, StatusIsFresh, FlipsWhatItFound, PauseIsTheOperators
<1> QED BY <1>1, <1>2, PauseOfADaemon, PauseOfAnOperator DEF LoopNext

\* While nobody writes what it read before another's write, the loop is paused exactly when
\* an operator paused it last: no daemon pauses or resumes it, whatever befalls it (watch).
THEOREM OnlyOperatorsPause == LoopSpec => []PauseIsTheOperators
<1>1. LoopInit => PauseInv
  BY DEF LoopInit, FirstState, OffDuty, PauseInv, StatusIsFresh, FlipsWhatItFound,
         PauseIsTheOperators
<1>2. PauseInv => PauseIsTheOperators
  BY DEF PauseInv
<1> QED BY <1>1, <1>2, LoopInvInit, LoopInvNext, PauseInvNext, PTL DEF LoopSpec

-----------------------------------------------------------------------------
(* Caps.                                                                   *)

\* Somebody's account of the runs of one day, and of what was spent, covers what was begun.
Books(date, runs, spent) ==
  /\ date <= today
  /\ \A d \in Day : d > date => startedOn[d] = 0
  /\ \A d \in Day : d = date => startedOn[d] = runs
  /\ \A d \in Day : paidIn[Month(d)] <= spent

Balanced(s) == Books(s.date, s.runsToday, s.spent)

\* A daemon at work counts its iteration when it is over.
BalancesOf(w) ==
  IF w.pc = "recording" THEN Balanced(w.state)
  ELSE Books(w.state.date, w.state.runsToday + 1, w.state.spent + w.estimate)

Capped ==
  /\ \A d \in Day : startedOn[d] <= DailyCap
  /\ \A d \in Day : paidIn[Month(d)] <= Budget

\* Between iterations the file balances, and what is fresh with it.
IdleBooks ==
  Working = {} =>
    /\ Balanced(file)
    /\ \A p \in fresh \cap Daemon : Balanced(daemon[p].state)
    /\ \A o \in fresh \cap Operator : Balanced(operator[o].state)

WorkBooks == \A p \in Working : BalancesOf(daemon[p])

\* Once lost, this never comes back: who works on a stale copy either writes it or fails.
InOrder == ~overlapped /\ ~lossy /\ Working \subseteq fresh /\ \A p, q \in Working : p = q

CapsInv == InOrder => Capped /\ IdleBooks /\ WorkBooks

\* A daemon in state w is at work.
AtWork(w) == w.pc \in {"training", "deploying", "recording"} /\ w.decision = "proceed"

LEMMA WorkingAfter ==
  ASSUME LDTypeOK, NEW p \in Daemon, NEW d, daemon' = [daemon EXCEPT ![p] = d]
  PROVE  /\ daemon'[p] = d /\ \A q \in Daemon \ {p} : daemon'[q] = daemon[q]
         /\ \A q \in Daemon \ {p} : q \in Working' <=> q \in Working
         /\ p \in Working' <=> AtWork(d)
<1>1. daemon'[p] = d /\ \A q \in Daemon \ {p} : daemon'[q] = daemon[q]
  BY DEF LDTypeOK
<1> QED BY <1>1 DEF Working, Proceeded, AtWork

\* What is booked does not depend on the time of the day.
LEMMA BooksKept ==
  ASSUME LDTypeOK, UNCHANGED <<today, startedOn, paidIn>>
  PROVE  /\ \A date, runs, spent : Books(date, runs, spent)' <=> Books(date, runs, spent)
         /\ Capped' <=> Capped
  BY DEF Books, Capped

\* A daemon's step that writes nothing and begins nothing.
LEMMA CapsUnwritten ==
  ASSUME LDTypeOK, CapsInv, NEW p \in Daemon, NEW d, daemon' = [daemon EXCEPT ![p] = d],
         UNCHANGED <<file, overlapped, lossy, operator, today, startedOn, paidIn>>,
         fresh' \subseteq fresh \cup {p},
         AtWork(d) <=> p \in Working,
         p \in Working => fresh' = fresh /\ (BalancesOf(daemon[p]) => BalancesOf(d)),
         p \in fresh' /\ p \notin Working =>
           d.state = file \/ (p \in fresh /\ d.state = daemon[p].state)
  PROVE  CapsInv'
<1> SUFFICES ASSUME InOrder' PROVE Capped' /\ IdleBooks' /\ WorkBooks'
  BY DEF CapsInv
<1>1. Working' = Working /\ daemon'[p] = d /\ \A q \in Daemon \ {p} : daemon'[q] = daemon[q]
  <2>1. Working \subseteq Daemon /\ Working' \subseteq Daemon
    BY DEF Working
  <2>2. daemon'[p] = d /\ \A q \in Daemon \ {p} : daemon'[q] = daemon[q]
    BY WorkingAfter
  <2>3. ASSUME NEW q \in Daemon PROVE q \in Working' <=> q \in Working
    BY WorkingAfter
  <2> QED BY <2>1, <2>2, <2>3
<1>2. InOrder
  BY <1>1 DEF InOrder
<1>3. Capped /\ IdleBooks /\ WorkBooks
  BY <1>2 DEF CapsInv
<1>4. Capped'
  BY <1>3, BooksKept
<1>5. \A s : Balanced(s)' <=> Balanced(s)
  BY BooksKept DEF Balanced
<1>6. IdleBooks'
  <2> SUFFICES ASSUME Working = {} PROVE
        /\ Balanced(file)
        /\ \A q \in fresh' \cap Daemon : Balanced(daemon'[q].state)
        /\ \A o \in fresh' \cap Operator : Balanced(operator[o].state)
    BY <1>1, <1>5 DEF IdleBooks
  <2>1. /\ Balanced(file)
        /\ \A q \in fresh \cap Daemon : Balanced(daemon[q].state)
        /\ \A o \in fresh \cap Operator : Balanced(operator[o].state)
    BY <1>3 DEF IdleBooks
  <2>2. fresh' \cap Operator \subseteq fresh
    BY LoopAssumption
  <2>3. ASSUME NEW q \in fresh' \cap Daemon PROVE Balanced(daemon'[q].state)
    <3>1. CASE q = p
      BY <1>1, <2>1, <3>1
    <3>2. CASE q # p
      BY <1>1, <2>1, <3>2
    <3> QED BY <3>1, <3>2
  <2> QED BY <2>1, <2>2, <2>3
<1>7. WorkBooks'
  <2>1. \A w : BalancesOf(w)' <=> BalancesOf(w)
    BY <1>5, BooksKept DEF BalancesOf
  <2>2. ASSUME NEW q \in Working PROVE BalancesOf(daemon'[q])
    <3>1. BalancesOf(daemon[q]) /\ q \in Daemon
      BY <1>3 DEF WorkBooks, Working
    <3>2. CASE q = p
      BY <1>1, <3>1, <3>2
    <3>3. CASE q # p
      BY <1>1, <3>1, <3>3
    <3> QED BY <3>2, <3>3
  <2> QED BY <1>1, <2>1, <2>2 DEF WorkBooks
<1> QED BY <1>4, <1>6, <1>7

\* Whoever writes, a daemon that is done or anybody else, leaves a file that balances.
LEMMA CapsWritten ==
  ASSUME LDTypeOK, CapsInv, NEW p \in Daemon \cup Operator, NEW s, Writes(p, s),
         UNCHANGED <<lossy, today, startedOn, paidIn>>,
         Working' = Working \ {p},
         ASSUME p \in fresh, InOrder, IdleBooks, WorkBooks, Working \subseteq {p}
         PROVE  Balanced(s)
  PROVE  CapsInv'
<1> SUFFICES ASSUME InOrder' PROVE Capped' /\ IdleBooks' /\ WorkBooks'
  BY DEF CapsInv
<1>1. fresh' = {} /\ file' = s /\ ~overlapped /\ p \in fresh
  BY DEF Writes, InOrder, LDTypeOK
<1>2. Working' = {} /\ Working \subseteq {p}
  BY <1>1 DEF InOrder
<1>3. InOrder
  BY <1>1, <1>2 DEF InOrder
<1>4. Capped /\ IdleBooks /\ WorkBooks
  BY <1>3 DEF CapsInv
<1>5. Capped' /\ Balanced(s)'
  BY <1>1, <1>2, <1>3, <1>4, BooksKept DEF Balanced
<1> QED BY <1>1, <1>2, <1>5 DEF IdleBooks, WorkBooks

\* The budget is asked: an iteration begins only within the caps.
LEMMA CapsDecided ==
  ASSUME LoopInv, CapsInv, NEW p \in Daemon, NEW e \in Estimate, Decides(p, e)
  PROVE  CapsInv'
<1> USE DEF LoopInv
<1> SUFFICES ASSUME InOrder' PROVE Capped' /\ IdleBooks' /\ WorkBooks'
  BY DEF CapsInv
<1> PICK d \in DaemonState :
      /\ daemon' = [daemon EXCEPT ![p] = d]
      /\ d.state = RolledOver(file)
      /\ d.decision = Decision(d.state, e) /\ d.estimate = e
      /\ d.pc = IF d.decision = "proceed" THEN "training" ELSE "recording"
  BY DecidesAs
<1>1. /\ fresh' = fresh \cup {p} /\ UNCHANGED <<file, overlapped, lossy, operator, today>>
      /\ daemon[p].pc = "top"
  BY DEF Decides, Reads, InLoop
<1>2. p \notin Working /\ Working \subseteq Daemon /\ Working' \subseteq Daemon
  BY <1>1 DEF Working
<1>3. /\ daemon'[p] = d /\ \A q \in Daemon \ {p} : daemon'[q] = daemon[q]
      /\ Working \subseteq Working' /\ Working' \subseteq Working \cup {p}
      /\ p \in Working' <=> d.decision = "proceed"
  BY <1>2, WorkingAfter DEF AtWork
<1>4. InOrder
  BY <1>1, <1>2, <1>3 DEF InOrder
<1>5. Capped /\ IdleBooks /\ WorkBooks
  BY <1>4 DEF CapsInv
<1>6. /\ d.state.date = today /\ d.state.spent = file.spent
      /\ d.state.runsToday = IF file.date = today THEN file.runsToday ELSE 0
      /\ today \in Day /\ today \in Int /\ Day \subseteq Int
  BY DEF RolledOver, LDTypeOK, LoopState, Day
<1>7. \* A file that balances does so when it has been rolled over.
      ASSUME Working = {} PROVE Balanced(d.state) /\ startedOn[today] = d.state.runsToday
  <2>1. Balanced(file)
    BY <1>5, <1>7 DEF IdleBooks
  <2>2. file.date \in Int
    BY DEF LDTypeOK, LoopState, Day, NeverRan
  <2>3. CASE file.date = today
    BY <1>6, <2>1, <2>3 DEF Balanced, Books
  <2>4. CASE file.date # today
    <3>1. file.date <= today /\ (\A x \in Day : x > file.date => startedOn[x] = 0)
      BY <2>1 DEF Balanced, Books
    <3>2. file.date < today
      BY <1>6, <2>2, <2>4, <3>1
    <3>3. startedOn[today] = 0 /\ (\A x \in Day : x > today => startedOn[x] = 0)
      BY <1>6, <2>2, <3>1, <3>2
    <3> QED BY <1>6, <2>1, <2>4, <3>3 DEF Balanced, Books
  <2> QED BY <2>3, <2>4
<1>8. CASE d.decision # "proceed"
  <2>1. UNCHANGED <<startedOn, paidIn>> /\ Working' = Working
    <3>1. Decision(RolledOver(file), e) # "proceed"
      BY <1>8
    <3>2. /\ startedOn' = [startedOn EXCEPT ![today] = startedOn[today]]
          /\ paidIn' = [paidIn EXCEPT ![Month(today)] = paidIn[Month(today)]]
      BY <3>1 DEF Decides
    <3>3. startedOn' = startedOn /\ paidIn' = paidIn
      BY <3>2 DEF LDTypeOK
    <3> QED BY <1>2, <1>3, <1>8, <3>3
  <2>2. \A s : Balanced(s)' <=> Balanced(s)
    BY <1>1, <2>1, BooksKept DEF Balanced
  <2>3. Capped'
    BY <1>1, <1>5, <2>1, BooksKept
  <2>4. IdleBooks'
    <3> SUFFICES ASSUME Working = {} PROVE
          /\ Balanced(file)
          /\ \A q \in fresh' \cap Daemon : Balanced(daemon'[q].state)
          /\ \A o \in fresh' \cap Operator : Balanced(operator[o].state)
      BY <1>1, <2>1, <2>2 DEF IdleBooks
    <3>1. /\ Balanced(file)
          /\ \A q \in fresh \cap Daemon : Balanced(daemon[q].state)
          /\ \A o \in fresh \cap Operator : Balanced(operator[o].state)
      BY <1>5 DEF IdleBooks
    <3>2. fresh' \cap Operator \subseteq fresh
      BY <1>1, LoopAssumption
    <3> QED BY <1>1, <1>3, <1>7, <3>1, <3>2
  <2>5. WorkBooks'
    <3>1. \A w : BalancesOf(w)' <=> BalancesOf(w)
      BY <1>1, <2>1, BooksKept DEF BalancesOf, Balanced
    <3> QED BY <1>2, <1>3, <1>5, <2>1, <3>1 DEF WorkBooks
  <2> QED BY <2>3, <2>4, <2>5
<1>9. CASE d.decision = "proceed"
  <2>1. Working = {} /\ p \in Working' /\ Working' = {p}
    BY <1>2, <1>3, <1>9 DEF InOrder
  <2>2. Balanced(d.state) /\ startedOn[today] = d.state.runsToday
    BY <1>7, <2>1
  <2>3. d.state.runsToday < DailyCap /\ d.state.spent + e <= Budget
    <3>1. d.state.runsToday \in Nat /\ d.state.spent \in Nat /\ e \in Nat
      BY LoopAssumption DEF DaemonState, LoopState
    <3> QED BY <1>9, <3>1, LoopAssumption DEF Decision
  <2>4. /\ startedOn' = [startedOn EXCEPT ![today] = startedOn[today] + 1]
        /\ paidIn' = [paidIn EXCEPT ![Month(today)] = paidIn[Month(today)] + e]
    <3>1. Decision(RolledOver(file), e) = "proceed"
      BY <1>9
    <3> QED BY <3>1 DEF Decides
  <2>5. e \in Nat /\ d.state.spent \in Nat /\ d.state.runsToday \in Nat
    BY LoopAssumption DEF DaemonState, LoopState
  <2>6. \A x \in Day : paidIn[Month(x)] \in Nat /\ paidIn[Month(x)] <= d.state.spent
    BY <2>2 DEF Balanced, Books, LDTypeOK
  <2>7. \A x \in Day : paidIn'[Month(x)] =
          IF Month(x) = Month(today) THEN paidIn[Month(today)] + e ELSE paidIn[Month(x)]
    BY <2>4 DEF LDTypeOK
  <2>8. \A x \in Day : paidIn'[Month(x)] <= d.state.spent + e
    <3> SUFFICES ASSUME NEW x \in Day PROVE paidIn'[Month(x)] <= d.state.spent + e
      OBVIOUS
    <3>1. paidIn[Month(x)] \in Nat /\ paidIn[Month(x)] <= d.state.spent
          /\ paidIn[Month(today)] \in Nat /\ paidIn[Month(today)] <= d.state.spent
      BY <1>6, <2>6
    <3>2. CASE Month(x) = Month(today)
      BY <2>5, <2>7, <3>1, <3>2
    <3>3. CASE Month(x) # Month(today)
      BY <2>5, <2>7, <3>1, <3>3
    <3> QED BY <3>2, <3>3
  <2>9. /\ startedOn'[today] = d.state.runsToday + 1
        /\ \A x \in Day : x # today => startedOn'[x] = startedOn[x]
    BY <1>6, <2>2, <2>4 DEF LDTypeOK
  <2>10. Capped'
    <3>1. \A x \in Day : startedOn'[x] <= DailyCap
      BY <1>5, <2>3, <2>5, <2>9, LoopAssumption DEF Capped
    <3>2. \A x \in Day : paidIn'[Month(x)] <= Budget
      <4> SUFFICES ASSUME NEW x \in Day PROVE paidIn'[Month(x)] <= Budget
        OBVIOUS
      <4>1. paidIn'[Month(x)] <= d.state.spent + e
        BY <2>8
      <4>2. paidIn'[Month(x)] \in Nat
        <5>1. paidIn[Month(x)] \in Nat /\ paidIn[Month(today)] \in Nat
          BY <1>6, <2>6
        <5> QED BY <2>5, <2>7, <5>1
      <4> QED BY <2>3, <2>5, <4>1, <4>2, LoopAssumption
    <3> QED BY <3>1, <3>2 DEF Capped
  <2>11. IdleBooks'
    BY <2>1 DEF IdleBooks
  <2>12. WorkBooks'
    <3>1. BalancesOf(d)'
      <4>1. d.pc = "training"
        BY <1>9
      <4>2. Books(today, d.state.runsToday + 1, d.state.spent + e)'
        BY <1>1, <1>6, <2>2, <2>8, <2>9 DEF Books, Balanced
      <4> QED BY <1>1, <1>6, <4>1, <4>2 DEF BalancesOf
    <3> QED BY <1>3, <2>1, <3>1 DEF WorkBooks
  <2> QED BY <2>10, <2>11, <2>12
<1> QED BY <1>8, <1>9
LEMMA CapsOfADaemon ==
  ASSUME LoopInv, CapsInv, NEW p \in Daemon,
         WatchStarts(p) \/ DaemonStep(p) \/ Signalled(p) \/ DaemonDies(p)
  PROVE  CapsInv'
<1> USE DEF LoopInv
<1>1. p \in Working <=> AtWork(daemon[p])
  BY DEF Working, AtWork, Proceeded
<1>2. CASE WatchStarts(p) \/ LooksBack(p)
  <2>1. PICK d \in DaemonState :
          /\ daemon' = [daemon EXCEPT ![p] = d] /\ ~AtWork(d)
          /\ (d.state = file /\ Reads(p)) \/ UNCHANGED control
    <3>1. CASE WatchStarts(p)
      BY <3>1, WatchStartsAs DEF AtWork
    <3>2. CASE LooksBack(p)
      BY <3>2, LooksBackAs DEF AtWork
    <3> QED BY <1>2, <3>1, <3>2
  <2>2. daemon[p].pc \in {"off", "leaving"}
    BY <1>2 DEF WatchStarts, LooksBack
  <2>3. p \notin fresh /\ p \notin Working
    BY <1>1, <2>2 DEF Exact, FreshIsHeld, AtWork
  <2>4. UNCHANGED <<lossy, operator, today, startedOn, paidIn>>
    BY <1>2 DEF WatchStarts, LooksBack, tally
  <2>5. /\ UNCHANGED <<file, overlapped>> /\ fresh' \subseteq fresh \cup {p}
        /\ p \in fresh' => d.state = file
    BY <2>1, <2>3 DEF Reads, control
  <2> QED BY <2>1, <2>3, <2>4, <2>5, CapsUnwritten
<1>3. CASE Leaves(p) \/ Parks(p) \/ Wakes(p) \/ Files(p)
  <2>1. PICK d \in DaemonState :
          daemon' = [daemon EXCEPT ![p] = d] /\ d.pc \in {"leaving", "parked", "top", "resting"}
    <3>1. CASE Files(p)
      BY <3>1, FilesAs
    <3>2. CASE Leaves(p) \/ Parks(p) \/ Wakes(p)
      BY <3>2, RestsAs DEF Leaves, Parks, Wakes, DaemonPc
    <3> QED BY <1>3, <3>1, <3>2
  <2>2. daemon[p].pc \in {"top", "parked", "resting", "filing"}
    BY <1>3 DEF Leaves, Parks, Wakes, InLoop, Files
  <2>3. p \notin fresh /\ p \notin Working /\ ~AtWork(d)
    BY <1>1, <2>1, <2>2 DEF Exact, FreshIsHeld, AtWork
  <2>4. UNCHANGED <<file, overlapped, fresh, lossy, operator, today, startedOn, paidIn>>
    BY <1>3 DEF Leaves, Parks, Wakes, Files, control, tally
  <2> QED BY <2>1, <2>3, <2>4, CapsUnwritten
<1>4. CASE Raises(p) \/ RecordFails(p) \/ DaemonDies(p)
  <2>1. CASE lossy'
    BY <2>1 DEF CapsInv, InOrder
  <2>2. CASE ~lossy'
    <3>1. ~lossy /\ p \notin Working
      BY <1>1, <1>4, <2>2 DEF Raises, RecordFails, DaemonDies, AtWork, Proceeded, LDTypeOK
    <3>2. PICK d \in DaemonState :
            daemon' = [daemon EXCEPT ![p] = d] /\ d.pc \in {"leaving", "off"}
      <4>1. CASE DaemonDies(p)
        BY <4>1, OffIsAState DEF DaemonDies, OffDuty
      <4>2. CASE Raises(p) \/ RecordFails(p)
        BY <4>2, RestsAs DEF Raises, RecordFails, DaemonPc
      <4> QED BY <1>4, <4>1, <4>2
    <3>3. Forgets(p) /\ UNCHANGED <<operator, today, startedOn, paidIn>>
      BY <1>4 DEF Raises, RecordFails, DaemonDies, tally
    <3>4. lossy' = lossy
      <4>1. lossy \in BOOLEAN /\ lossy' \in BOOLEAN
        BY <1>4 DEF LDTypeOK, Raises, RecordFails, DaemonDies
      <4> QED BY <2>2, <3>1, <4>1
    <3>5. ~AtWork(d)
      BY <3>2 DEF AtWork
    <3> QED BY <3>1, <3>2, <3>3, <3>4, <3>5, CapsUnwritten DEF Forgets
  <2> QED BY <2>1, <2>2
<1>5. CASE Signalled(p) \/ \E v \in {"OK", "MAJOR", "SKIPPED"} : Trains(p, v)
  <2>1. PICK d \in DaemonState :
          /\ daemon' = [daemon EXCEPT ![p] = d]
          /\ d.state = daemon[p].state /\ d.decision = daemon[p].decision
          /\ d.estimate = daemon[p].estimate
          /\ d.pc = daemon[p].pc \/ (d.pc = "deploying" /\ daemon[p].pc = "training")
    <3>1. CASE Signalled(p)
      BY <3>1, SignalledAs
    <3>2. CASE \E v \in {"OK", "MAJOR", "SKIPPED"} : Trains(p, v)
      <4>1. PICK v \in {"OK", "MAJOR", "SKIPPED"} : Trains(p, v)
        BY <3>2
      <4>2. daemon[p].pc = "training"
        BY <4>1 DEF Trains
      <4> QED BY <4>1, <4>2, TrainsAs
    <3> QED BY <1>5, <3>1, <3>2
  <2>2. UNCHANGED <<file, overlapped, fresh, lossy, operator, today, startedOn, paidIn>>
    BY <1>5 DEF Signalled, Trains, control, tally
  <2>3. AtWork(d) <=> AtWork(daemon[p])
    BY <2>1 DEF AtWork
  <2>4. BalancesOf(daemon[p]) => BalancesOf(d)
    BY <2>1 DEF BalancesOf
  <2> QED BY <1>1, <2>1, <2>2, <2>3, <2>4, CapsUnwritten
<1>6. CASE \E shipped \in BOOLEAN : Deploys(p, shipped)
  <2>1. PICK shipped \in BOOLEAN : Deploys(p, shipped)
    BY <1>6
  <2> DEFINE old == daemon[p].state
             s == Bumped(old, daemon[p].verdict, shipped, daemon[p].estimate)
  <2>2. PICK d \in DaemonState :
          /\ daemon' = [daemon EXCEPT ![p] = d] /\ d.pc = "recording" /\ d.state = s
          /\ d.decision = daemon[p].decision
    BY <2>1, DeploysAs
  <2>3. daemon[p].pc = "deploying" /\ daemon[p].decision = "proceed"
    BY <2>1 DEF Deploys, WorkIsAllowed, Proceeded
  <2>4. /\ s.date = old.date /\ s.runsToday = old.runsToday + 1
        /\ s.spent = old.spent + daemon[p].estimate
    BY DEF Bumped, LDTypeOK, LoopState
  <2> HIDE DEF s
  <2>5. BalancesOf(daemon[p]) => BalancesOf(d)
    BY <2>2, <2>3, <2>4 DEF BalancesOf, Balanced
  <2>6. UNCHANGED <<file, overlapped, fresh, lossy, operator, today, startedOn, paidIn>>
    BY <2>1 DEF Deploys, control
  <2>7. AtWork(d) /\ p \in Working
    BY <1>1, <2>2, <2>3 DEF AtWork
  <2> QED BY <2>2, <2>5, <2>6, <2>7, CapsUnwritten
<1>7. CASE Records(p)
  <2>1. PICK d \in DaemonState : daemon' = [daemon EXCEPT ![p] = d] /\ d.pc = "filing"
    BY <1>7, RecordsAs
  <2>2. Working' = Working \ {p}
    <3>1. Working \subseteq Daemon /\ Working' \subseteq Daemon /\ ~AtWork(d)
      BY <2>1 DEF Working, AtWork
    <3>2. ASSUME NEW q \in Daemon PROVE q \in Working' <=> q \in Working \ {p}
      BY <2>1, <3>1, WorkingAfter
    <3> QED BY <3>1, <3>2
  <2>3. Writes(p, daemon[p].state) /\ UNCHANGED <<lossy, today, startedOn, paidIn>>
    BY <1>7 DEF Records
  <2>4. ASSUME p \in fresh, IdleBooks, WorkBooks, Working \subseteq {p}
        PROVE  Balanced(daemon[p].state)
    <3>1. CASE p \in Working
      BY <1>7, <2>4, <3>1 DEF WorkBooks, BalancesOf, Records
    <3>2. CASE p \notin Working
      BY <2>4, <3>2 DEF IdleBooks
    <3> QED BY <3>1, <3>2
  <2> QED BY <2>2, <2>3, <2>4, CapsWritten
<1>8. CASE Promotes(p) \/ Stops(p)
  <2>1. PICK status \in {"running", "stopped"} : Writes(p, WithStatus(daemon[p].state, status))
    BY <1>8 DEF Promotes, Stops
  <2> DEFINE s == WithStatus(daemon[p].state, status)
  <2>2. /\ s.date = daemon[p].state.date /\ s.runsToday = daemon[p].state.runsToday
        /\ s.spent = daemon[p].state.spent
    BY DEF WithStatus, LDTypeOK, LoopState
  <2>3. Writes(p, s)
    BY <2>1
  <2> HIDE DEF s
  <2>4. PICK d \in DaemonState :
          daemon' = [daemon EXCEPT ![p] = d] /\ d.pc \in {"top", "off"}
    <3>1. CASE Promotes(p)
      BY <3>1, RestsAs DEF Promotes, DaemonPc
    <3>2. CASE Stops(p)
      BY <3>2, OffIsAState DEF Stops, OffDuty
    <3> QED BY <1>8, <3>1, <3>2
  <2>5. p \notin Working /\ ~AtWork(d)
    BY <1>1, <1>8, <2>4 DEF AtWork, Promotes, Stops
  <2>6. Working' = Working \ {p}
    <3>1. Working \subseteq Daemon /\ Working' \subseteq Daemon
      BY DEF Working
    <3>2. ASSUME NEW q \in Daemon PROVE q \in Working' <=> q \in Working \ {p}
      BY <2>4, <2>5, WorkingAfter
    <3> QED BY <3>1, <3>2
  <2>7. UNCHANGED <<lossy, today, startedOn, paidIn>>
    BY <1>8 DEF Promotes, Stops, tally
  <2>8. ASSUME p \in fresh, IdleBooks, Working \subseteq {p} PROVE Balanced(s)
    BY <2>2, <2>5, <2>8 DEF IdleBooks, Balanced
  <2> QED BY <2>3, <2>6, <2>7, <2>8, CapsWritten
<1>9. CASE \E e \in Estimate : Decides(p, e)
  BY <1>9, CapsDecided
<1> QED
  BY <1>2, <1>3, <1>4, <1>5, <1>6, <1>7, <1>8, <1>9 DEF DaemonStep, IterationStep

LEMMA CapsOfAnOperator ==
  ASSUME LoopInv, CapsInv, NEW o \in Operator, OperatorStep(o)
  PROVE  CapsInv'
<1> USE DEF LoopInv
<1>1. Working' = Working /\ Working \subseteq Daemon /\ UNCHANGED daemon
  BY DEF OperatorStep, CommandReads, CommandWrites, Working, Proceeded
<1>2. o \notin Daemon
  BY LoopAssumption
<1>3. UNCHANGED <<lossy, today, startedOn, paidIn>>
  BY DEF OperatorStep, CommandReads, CommandWrites, tally
<1>4. ASSUME NEW cmd \in Command, CommandReads(o, cmd) PROVE CapsInv'
  <2>1. /\ operator' = [operator EXCEPT ![o] = [cmd |-> cmd, state |-> file]]
        /\ fresh' = fresh \cup {o} /\ UNCHANGED <<file, overlapped>>
    BY <1>4 DEF CommandReads, Reads
  <2>2. operator'[o].state = file /\ \A u \in Operator \ {o} : operator'[u] = operator[u]
    BY <2>1 DEF LDTypeOK
  <2>3. InOrder' <=> InOrder
    BY <1>1, <1>2, <1>3, <2>1 DEF InOrder
  <2>4. /\ Capped' <=> Capped
        /\ \A s : Balanced(s)' <=> Balanced(s)
        /\ \A w : BalancesOf(w)' <=> BalancesOf(w)
    BY <1>3, BooksKept DEF Balanced, BalancesOf
  <2>5. WorkBooks => WorkBooks'
    BY <1>1, <2>4 DEF WorkBooks
  <2>6. ASSUME IdleBooks, Working = {} PROVE
          /\ Balanced(file')
          /\ \A q \in fresh' \cap Daemon : Balanced(daemon'[q].state)
          /\ \A u \in fresh' \cap Operator : Balanced(operator'[u].state)
    <3>1. /\ Balanced(file)
          /\ \A q \in fresh \cap Daemon : Balanced(daemon[q].state)
          /\ \A u \in fresh \cap Operator : Balanced(operator[u].state)
      BY <2>6 DEF IdleBooks
    <3> QED BY <1>1, <1>2, <2>1, <2>2, <3>1
  <2>7. IdleBooks => IdleBooks'
    BY <1>1, <2>4, <2>6 DEF IdleBooks
  <2> QED BY <2>3, <2>4, <2>5, <2>7 DEF CapsInv
<1>5. CASE CommandWrites(o)
  <2> DEFINE old == operator[o].state
  <2>1. old \in LoopState
    BY DEF LDTypeOK
  <2>2. PICK s \in LoopState :
          /\ Writes(o, s)
          /\ s.date = old.date /\ s.runsToday = old.runsToday /\ s.spent = old.spent
    <3>1. CASE operator[o].cmd = "canary"
      <4>1. PICK a \in Adapter : Writes(o, [old EXCEPT !.canary = a])
        BY <1>5, <3>1 DEF CommandWrites
      <4> DEFINE s == [old EXCEPT !.canary = a]
      <4>2. /\ s \in LoopState
            /\ s.date = old.date /\ s.runsToday = old.runsToday /\ s.spent = old.spent
        BY <2>1 DEF LoopState
      <4> HIDE DEF s
      <4>3. Writes(o, s)
        BY <4>1 DEF s
      <4> QED BY <4>2, <4>3
    <3>2. CASE operator[o].cmd # "canary"
      <4>1. PICK status \in {"running", "paused"} : Writes(o, WithStatus(old, status))
        BY <1>5, <3>2 DEF CommandWrites
      <4> DEFINE s == WithStatus(old, status)
      <4>2. /\ s \in LoopState
            /\ s.date = old.date /\ s.runsToday = old.runsToday /\ s.spent = old.spent
        BY <2>1 DEF LoopState, WithStatus
      <4> HIDE DEF s
      <4>3. Writes(o, s)
        BY <4>1 DEF s
      <4> QED BY <4>2, <4>3
    <3> QED BY <3>1, <3>2
  <2>3. Working' = Working \ {o}
    BY <1>1, <1>2
  <2>4. ASSUME o \in fresh, IdleBooks, Working \subseteq {o} PROVE Balanced(s)
    BY <1>1, <1>2, <2>2, <2>4 DEF IdleBooks, Balanced
  <2> QED BY <1>3, <2>2, <2>3, <2>4, CapsWritten
<1> QED BY <1>4, <1>5 DEF OperatorStep

LEMMA CapsOfTime == ASSUME LoopInv, CapsInv, DayPasses PROVE CapsInv'
<1>1. /\ UNCHANGED <<file, daemon, operator, fresh, overlapped, lossy, startedOn, paidIn>>
      /\ today' = today + 1
  BY DEF DayPasses, tally
<1>2. Working' = Working
  BY <1>1 DEF Working, Proceeded
<1>3. Capped' <=> Capped
  BY <1>1 DEF Capped
<1>4. \A date \in Int : \A runs, spent : Books(date, runs, spent) => Books(date, runs, spent)'
  <2>1. today \in Int
    BY DEF LoopInv, LDTypeOK, Day
  <2> QED BY <1>1, <2>1 DEF Books
<1>5. \A s \in LoopState : Balanced(s) => Balanced(s)'
  BY <1>4 DEF Balanced, LoopState, Day, NeverRan
<1>6. \A w \in DaemonState : BalancesOf(w) => BalancesOf(w)'
  <2>1. \A w \in DaemonState : w.state \in LoopState /\ w.state.date \in Int
    BY DEF DaemonState, LoopState, Day, NeverRan
  <2> QED BY <1>4, <1>5, <2>1 DEF BalancesOf
<1>7. /\ file \in LoopState /\ daemon \in [Daemon -> DaemonState]
      /\ \A o \in Operator : operator[o].state \in LoopState
      /\ \A p \in Daemon : daemon[p].state \in LoopState
  BY DEF LoopInv, LDTypeOK, DaemonState
<1>8. IdleBooks => IdleBooks'
  BY <1>1, <1>2, <1>5, <1>7 DEF IdleBooks
<1>9. WorkBooks => WorkBooks'
  <2>1. Working \subseteq Daemon
    BY DEF Working
  <2> QED BY <1>1, <1>2, <1>6, <1>7, <2>1 DEF WorkBooks
<1> QED BY <1>1, <1>2, <1>3, <1>8, <1>9 DEF CapsInv, InOrder

LEMMA CapsInvNext == LoopInv /\ CapsInv /\ [LoopNext]_loopVars => CapsInv'
<1> SUFFICES ASSUME LoopInv, CapsInv, [LoopNext]_loopVars PROVE CapsInv'
  OBVIOUS
<1>1. CASE InitForce
  BY <1>1 DEF InitForce, CapsInv, InOrder
<1>2. CASE UNCHANGED loopVars
  <2>1. UNCHANGED <<file, daemon, operator, today, fresh, overlapped, lossy, startedOn, paidIn>>
    BY <1>2 DEF loopVars
  <2>2. Working' = Working
    BY <2>1 DEF Working, Proceeded
  <2> QED BY <2>1, <2>2 DEF CapsInv, InOrder, Capped, IdleBooks, WorkBooks, Balanced, BalancesOf,
                            Books
<1> QED BY <1>1, <1>2, CapsOfADaemon, CapsOfAnOperator, CapsOfTime DEF LoopNext

LEMMA CapsInvInit == LoopInit => CapsInv
<1> SUFFICES ASSUME LoopInit PROVE Capped /\ IdleBooks /\ WorkBooks
  BY DEF CapsInv
<1> USE DEF LoopInit
<1>1. Working = {} /\ fresh = {}
  BY DEF Working, OffDuty
<1>2. Balanced(FirstState)
  BY LoopAssumption DEF Balanced, Books, FirstState, NeverRan, Day
<1>3. Capped
  BY LoopAssumption DEF Capped
<1> QED BY <1>1, <1>2, <1>3 DEF IdleBooks, WorkBooks

\* What was begun on a day stays within the daily cap and what was estimated for a month
\* within the budget, whenever midnight falls, as long as iterations do not overlap and
\* none is lost (check_budget against the persisted counters).
THEOREM CapsAlwaysHold == LoopSpec => []CapsHold
<1>1. LoopInv /\ CapsInv => CapsHold
  <2> SUFFICES ASSUME LoopInv, CapsInv, ~overlapped, ~lossy, Cardinality(Working) <= 1,
                      Working \subseteq fresh
               PROVE  Capped
    BY DEF CapsHold, Capped
  <2>1. IsFiniteSet(Working)
    BY FS_Subset, LoopAssumption DEF Working
  <2>2. ASSUME NEW p \in Working, NEW q \in Working, p # q PROVE FALSE
    <3>1. {p, q} \subseteq Working /\ IsFiniteSet({p, q})
      BY <2>1, FS_Subset
    <3>2. Cardinality({p, q}) = 2
      <4>1. IsFiniteSet({p}) /\ Cardinality({p}) = 1
        BY FS_Singleton
      <4>2. Cardinality({p} \cup {q}) = Cardinality({p}) + 1
        BY <2>2, <4>1, FS_AddElement
      <4>3. {p} \cup {q} = {p, q}
        OBVIOUS
      <4> QED BY <4>1, <4>2, <4>3
    <3>3. Cardinality({p, q}) <= Cardinality(Working) /\ Cardinality(Working) \in Nat
      BY <2>1, <3>1, FS_Subset, FS_CardinalityType
    <3> QED BY <3>2, <3>3
  <2> QED BY <2>2 DEF CapsInv, InOrder
<1> QED BY <1>1, CapsInvInit, CapsInvNext, LoopInvInit, LoopInvNext, PTL DEF LoopSpec
=============================================================================
