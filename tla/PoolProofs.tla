----------------------------- MODULE PoolProofs -----------------------------
(***************************************************************************)
(* Theorems about RangeReaders, for every number of workers, parts, starts *)
(* and runs: a run leaves nobody inside its layer, its error names the     *)
(* cause, and it implements LayerRead, a read that is whole or refused.    *)
(*                                                                         *)
(* The argument is about who owns a part.  A part that has been put is in  *)
(* the queue, or with one worker, or decided, and in only one of these;    *)
(* so a run that has seen every part decided leaves nothing behind, and    *)
(* the next one may use the same outcomes and the same bytes.              *)
(***************************************************************************)
EXTENDS RangeReaders, TLAPS

Holds(w) == worker[w].pc \in {"reading", "wedged"}

\* The parts a run has already put in the queue.
Put(p) == run.pc = "putting" => p < run.at

\* A part in the queue is undecided, nobody reads it, and it is there once.
QueuedIsUndecided ==
  \A i \in 1 .. Len(jobs) :
    jobs[i] \in Part =>
      /\ Put(jobs[i]) /\ outcome[jobs[i]] = "pending"
      /\ \A w \in Worker : Holds(w) => worker[w].part # jobs[i]
      /\ \A j \in 1 .. Len(jobs) : j # i => jobs[j] # jobs[i]

\* A part in a worker's hands is undecided, and in one worker's hands.
HeldIsUndecided ==
  \A w \in Worker : Holds(w) =>
    /\ worker[w].part \in Part
    /\ Put(worker[w].part) /\ outcome[worker[w].part] = "pending"
    /\ \A v \in Worker : v # w /\ Holds(v) => worker[v].part # worker[w].part

\* What has not been put is undecided; what has been waited for is decided.
RunKnowsItsPlace ==
  /\ run.pc = "putting" => \A p \in Part : p >= run.at => outcome[p] = "pending"
  /\ run.pc \in {"waiting", "judging"} =>
       \A p \in Part : p < run.at => outcome[p] # "pending"

\* A run that is over has left no job in the queue, or nobody to take it.
NoJobLeftBehind ==
  run.pc = "idle" => \/ \A i \in 1 .. Len(jobs) : jobs[i] = Sentinel
                     \/ result \in Raised /\ \A w \in Worker : ~Alive(w)

\* Only the caller of a run that did not raise makes another.
RaisedIsTheLast == result \in Raised => run.pc = "idle"

\* A decided part is in the region, an undecided one is not.
BytesFollowOutcomes ==
  \A p \in Part :
    /\ outcome[p] = "done" => bytes[p] = "fresh"
    /\ outcome[p] = "pending" => bytes[p] # "fresh"

\* No worker leaves a pool that nobody has closed.
OnlyCloseSendsAway ==
  ~closed => /\ \A i \in 1 .. Len(jobs) : jobs[i] # Sentinel
             /\ \A w \in Worker : worker[w].pc # "gone"

PoolInv ==
  /\ PoolIsSound
  /\ QueuedIsUndecided
  /\ HeldIsUndecided
  /\ RunKnowsItsPlace
  /\ NoJobLeftBehind
  /\ RaisedIsTheLast
  /\ BytesFollowOutcomes
  /\ OnlyCloseSendsAway

-----------------------------------------------------------------------------
Thread == [pc : {"born", "stillborn", "idle", "reading", "wedged", "gone"},
           part : Part \cup {Sentinel}]

LEMMA NewbornIsAThread == Newborn \in Thread
BY DEF Newborn, Thread

LEMMA PartNumbers ==
  1 \in Part /\ (\A p \in Part : p \in Nat /\ p # 0 /\ p >= 1) /\ Sentinel \notin Part
BY PoolAssumption DEF Part, Sentinel

LEMMA InitIsSound == Init => PoolInv
<1> SUFFICES ASSUME Init PROVE PoolInv
  OBVIOUS
<1>1. RRTypeOK
  BY PoolAssumption, PartNumbers, NewbornIsAThread DEF Init, RRTypeOK, Thread
<1>2. Len(jobs) = 0
  BY DEF Init
<1> QED BY <1>1, <1>2, PartNumbers
        DEF Init, PoolInv, PoolIsSound, QuietBetweenRuns, BlameIsRight, QueuedIsUndecided,
            HeldIsUndecided, RunKnowsItsPlace, NoJobLeftBehind, RaisedIsTheLast,
            BytesFollowOutcomes, OnlyCloseSendsAway, Holds, Put, Newborn, Raised, closed

LEMMA QueueIsTyped ==
  ASSUME jobs \in Seq(Part \cup {Sentinel})
  PROVE  /\ \A x \in Part \cup {Sentinel} : Append(jobs, x) \in Seq(Part \cup {Sentinel})
         /\ jobs # <<>> => /\ Head(jobs) \in Part \cup {Sentinel}
                           /\ Tail(jobs) \in Seq(Part \cup {Sentinel})
OBVIOUS

LEMMA QueueGrows ==
  ASSUME jobs \in Seq(Part \cup {Sentinel}), NEW x \in Part \cup {Sentinel}, jobs' = Append(jobs, x)
  PROVE  /\ Len(jobs) \in Nat /\ Len(jobs') = Len(jobs) + 1 /\ jobs'[Len(jobs) + 1] = x
         /\ \A i \in 1 .. Len(jobs) : jobs'[i] = jobs[i]
OBVIOUS

LEMMA QueueShrinks ==
  ASSUME jobs \in Seq(Part \cup {Sentinel}), jobs # <<>>, jobs' = Tail(jobs)
  PROVE  /\ Len(jobs) \in Nat \ {0} /\ Len(jobs') = Len(jobs) - 1
         /\ \A i \in 1 .. Len(jobs') : jobs'[i] = jobs[i + 1]
         /\ \A i \in 1 .. Len(jobs') : i + 1 \in 2 .. Len(jobs)
         /\ Head(jobs) = jobs[1]
OBVIOUS

\* A worker's step is its own.
LEMMA WorksAlone ==
  ASSUME RRTypeOK, NEW w \in Worker, NEW pc, NEW part, Works(w, pc, part)
  PROVE  /\ worker'[w].pc = pc /\ worker'[w].part = part
         /\ \A v \in Worker : v # w => worker'[v] = worker[v]
BY DEF RRTypeOK, Works

LEMMA WorkerIsTyped ==
  ASSUME RRTypeOK, NEW w \in Worker, NEW part \in Part \cup {Sentinel},
         NEW pc \in {"born", "stillborn", "idle", "reading", "wedged", "gone"}, Works(w, pc, part)
  PROVE  worker' \in [Worker -> Thread]
BY DEF RRTypeOK, Works, Thread

LEMMA TypesStep == RRTypeOK /\ [Next]_poolVars => RRTypeOK'
<1> SUFFICES ASSUME RRTypeOK, [Next]_poolVars PROVE RRTypeOK'
  OBVIOUS
<1> USE DEF RRTypeOK
<1>1. CASE RunBegins
  <2>1. runs' \in 0 .. MaxRuns /\ run' \in [pc : {"putting"}, at : Part]
    BY <1>1, PartNumbers, PoolAssumption DEF RunBegins
  <2> QED BY <1>1, <2>1 DEF RunBegins
<1>2. CASE RunPuts
  <2>1. run.at < NParts => run.at + 1 \in Part
    BY PoolAssumption DEF Part
  <2>2. run' \in [pc : {"putting", "waiting"}, at : Part]
    BY <1>2, <2>1, PartNumbers DEF RunPuts
  <2> QED BY <1>2, <2>2, QueueIsTyped DEF RunPuts
<1>3. CASE RunAwaits
  <2>1. run.at < NParts => run.at + 1 \in Part
    BY PoolAssumption DEF Part
  <2>2. run' \in [pc : {"idle", "waiting"}, at : Part]
    BY <1>3, <2>1, PartNumbers DEF RunAwaits
  <2>3. result' \in {"none", "whole"} \cup Raised
    BY <1>3 DEF RunAwaits, Raised
  <2> QED BY <1>3, <2>2, <2>3 DEF RunAwaits
<1>4. CASE RunPolls
  <2>1. run' \in [pc : {"judging"}, at : Part]
    BY <1>4 DEF RunPolls
  <2>2. worker' \in [Worker -> Thread]
    BY <1>4, NewbornIsAThread DEF RunPolls, Thread
  <2>3. starts' \in [Worker -> 1 .. MaxWorkerStarts]
    BY <1>4, PoolAssumption DEF RunPolls, Restartable
  <2> QED BY <1>4, <2>1, <2>2, <2>3 DEF RunPolls, Thread
<1>5. CASE RunJudges
  <2>1. Blame \in Raised
    BY DEF Blame, Raised
  <2>2. CASE Serving \/ WorthAnotherPoll
    <3>1. run' \in [pc : {"waiting"}, at : Part] /\ result' = result
      BY <1>5, <2>2 DEF RunJudges
    <3> QED BY <1>5, <3>1 DEF RunJudges
  <2>3. CASE ~(Serving \/ WorthAnotherPoll)
    <3>1. run' \in [pc : {"idle"}, at : Part] /\ result' = Blame
      BY <1>5, <2>3, PartNumbers DEF RunJudges
    <3> QED BY <1>5, <2>1, <3>1 DEF RunJudges
  <2> QED BY <2>2, <2>3
<1>6. ASSUME NEW w \in Worker, WorkerStep(w) PROVE RRTypeOK'
  <2>0. Sentinel \in Part \cup {Sentinel} /\ worker[w].part \in Part \cup {Sentinel}
    OBVIOUS
  <2>1. CASE WorkerEnters(w) \/ WorkerDiesUnborn(w) \/ WorkerWedges(w)
    <3>1. worker' \in [Worker -> Thread]
      BY <2>0, <2>1, WorkerIsTyped DEF WorkerEnters, WorkerDiesUnborn, WorkerWedges
    <3> QED BY <2>1, <3>1 DEF WorkerEnters, WorkerDiesUnborn, WorkerWedges, Thread
  <2>2. CASE WorkerTakes(w) \/ WorkerLeaves(w)
    <3>1. Head(jobs) \in Part \cup {Sentinel} /\ jobs' \in Seq(Part \cup {Sentinel})
      BY <2>2, QueueIsTyped DEF WorkerTakes, WorkerLeaves
    <3>2. worker' \in [Worker -> Thread]
      BY <2>0, <2>2, <3>1, WorkerIsTyped DEF WorkerTakes, WorkerLeaves
    <3>3. bytes' \in [Part -> {"stale", "torn", "fresh"}]
      BY <2>2 DEF WorkerTakes, WorkerLeaves
    <3> QED BY <2>2, <3>1, <3>2, <3>3 DEF WorkerTakes, WorkerLeaves, Thread
  <2>3. CASE WorkerReads(w) \/ WorkerFails(w)
    <3>1. worker' \in [Worker -> Thread]
      BY <2>0, <2>3, WorkerIsTyped DEF WorkerReads, WorkerFails
    <3>2. /\ bytes' \in [Part -> {"stale", "torn", "fresh"}]
          /\ outcome' \in [Part -> {"pending", "done", "failed"}]
      BY <2>3 DEF WorkerReads, WorkerFails
    <3> QED BY <2>3, <3>1, <3>2 DEF WorkerReads, WorkerFails, Thread
  <2> QED BY <1>6, <2>1, <2>2, <2>3 DEF WorkerStep
<1>7. CASE CloseBegins
  BY <1>7, PoolAssumption DEF CloseBegins, SentinelsOwed
<1>8. CASE CloseStep
  <2>1. CASE CloseSends
    <3>1. sentinels' \in 0 .. NWorkers
      BY <2>1, PoolAssumption DEF CloseSends
    <3>2. jobs' \in Seq(Part \cup {Sentinel})
      BY <2>1, QueueIsTyped DEF CloseSends
    <3> QED BY <2>1, <3>1, <3>2 DEF CloseSends
  <2>2. CASE CloseEnds
    BY <2>2 DEF CloseEnds
  <2> QED BY <1>8, <2>1, <2>2 DEF CloseStep
<1>9. CASE UNCHANGED poolVars
  BY <1>9 DEF poolVars
<1> QED BY <1>1, <1>2, <1>3, <1>4, <1>5, <1>6, <1>7, <1>8, <1>9 DEF Next, RunStep

-----------------------------------------------------------------------------
(* The owners of the parts.                                                *)

Owned == QueuedIsUndecided /\ HeldIsUndecided /\ RunKnowsItsPlace

\* What the invariant says of the types, as the steps below use it.
LEMMA Typed ==
  ASSUME PoolInv
  PROVE  /\ RRTypeOK /\ Owned
         /\ jobs \in Seq(Part \cup {Sentinel}) /\ Len(jobs) \in Nat
         /\ run.at \in Part /\ run.pc \in {"idle", "putting", "waiting", "judging"}
         /\ \A w \in Worker : worker[w].part \in Part \cup {Sentinel}
BY DEF PoolInv, PoolIsSound, RRTypeOK, Owned

\* Whoever holds a part now held the same part before.
LEMMA OwnersStay ==
  ASSUME Owned, UNCHANGED <<jobs, outcome>>, run'.pc = "putting" => run'.at = run.at /\ run' = run,
         \A w \in Worker : Holds(w)' => Holds(w) /\ worker'[w].part = worker[w].part
  PROVE  QueuedIsUndecided' /\ HeldIsUndecided'
<1>1. \A p : Put(p) => Put(p)'
  BY DEF Put
<1>2. QueuedIsUndecided'
  BY <1>1 DEF Owned, QueuedIsUndecided
<1>3. HeldIsUndecided'
  BY <1>1 DEF Owned, HeldIsUndecided
<1> QED BY <1>2, <1>3

LEMMA BeginOwners == PoolInv /\ RunBegins => Owned'
<1> SUFFICES ASSUME PoolInv, RunBegins PROVE Owned'
  OBVIOUS
<1>1. \A i \in 1 .. Len(jobs) : jobs[i] = Sentinel
  BY DEF RunBegins, PoolInv, NoJobLeftBehind
<1>2. \A w \in Worker : ~Holds(w)'
  BY DEF RunBegins, PoolInv, PoolIsSound, QuietBetweenRuns, Holds
<1> QED BY <1>1, <1>2, PartNumbers
        DEF Owned, RunBegins, QueuedIsUndecided, HeldIsUndecided, RunKnowsItsPlace

LEMMA PutOwners == PoolInv /\ RunPuts => Owned'
<1> SUFFICES ASSUME PoolInv, RunPuts PROVE Owned'
  OBVIOUS
<1>1. /\ run.pc = "putting" /\ run.at \in Part
      /\ run'.pc = "putting" => run'.at = run.at + 1
      /\ run'.pc \in {"putting", "waiting"}
      /\ run'.pc = "waiting" => run'.at = 1
  BY Typed, PoolAssumption DEF RunPuts, PoolInv, PoolIsSound, RRTypeOK
<1>2. UNCHANGED <<worker, outcome>> /\ jobs' = Append(jobs, run.at)
  BY DEF RunPuts
<1>3. /\ Len(jobs) \in Nat /\ Len(jobs') = Len(jobs) + 1 /\ jobs'[Len(jobs) + 1] = run.at
      /\ \A i \in 1 .. Len(jobs) : jobs'[i] = jobs[i]
  BY <1>1, <1>2, Typed, QueueGrows
<1>4. /\ \A p \in Part : Put(p) => Put(p)' /\ p # run.at
      /\ run'.pc = "putting" => run.at < run'.at
  BY <1>1, PartNumbers DEF Put
<1>5. outcome[run.at] = "pending"
  <2>1. run.at >= run.at
    BY <1>1, PartNumbers
  <2> QED BY <1>1, <2>1 DEF PoolInv, RunKnowsItsPlace
<1>6. QueuedIsUndecided'
  <2> SUFFICES ASSUME NEW i \in 1 .. Len(jobs'), jobs'[i] \in Part
               PROVE  /\ run'.pc = "putting" => jobs'[i] < run'.at
                      /\ outcome[jobs'[i]] = "pending"
                      /\ \A w \in Worker : Holds(w) => worker[w].part # jobs'[i]
                      /\ \A j \in 1 .. Len(jobs') : j # i => jobs'[j] # jobs'[i]
    BY <1>2 DEF QueuedIsUndecided, Holds, Put
  <2>1. CASE i \in 1 .. Len(jobs)
    <3>1. /\ Put(jobs[i]) /\ outcome[jobs[i]] = "pending"
          /\ \A w \in Worker : Holds(w) => worker[w].part # jobs[i]
          /\ \A j \in 1 .. Len(jobs) : j # i => jobs[j] # jobs[i]
      BY <2>1, <1>3 DEF PoolInv, QueuedIsUndecided
    <3>2. Put(jobs[i])'
      BY <1>3, <1>4, <2>1, <3>1 DEF Put
    <3> QED BY <1>1, <1>3, <1>4, <2>1, <3>1, <3>2 DEF Put
  <2>2. CASE i = Len(jobs) + 1
    <3>1. \A w \in Worker : Holds(w) => worker[w].part # run.at
      BY <1>4 DEF PoolInv, HeldIsUndecided
    <3>2. \A j \in 1 .. Len(jobs) : jobs[j] # run.at
      BY <1>1, <1>4 DEF PoolInv, QueuedIsUndecided
    <3> QED BY <1>3, <1>4, <1>5, <2>2, <3>1, <3>2
  <2> QED BY <1>3, <2>1, <2>2
<1>7. HeldIsUndecided'
  BY <1>2, <1>4 DEF PoolInv, HeldIsUndecided, Holds
<1>8. RunKnowsItsPlace'
  BY <1>1, <1>2, PartNumbers DEF PoolInv, RunKnowsItsPlace
<1> QED BY <1>6, <1>7, <1>8 DEF Owned

LEMMA OtherRunOwners == PoolInv /\ (RunAwaits \/ RunPolls \/ RunJudges) => Owned'
<1> SUFFICES ASSUME PoolInv, RunAwaits \/ RunPolls \/ RunJudges PROVE Owned'
  OBVIOUS
<1>1. UNCHANGED <<jobs, outcome>> /\ run'.pc # "putting"
  BY Typed DEF RunAwaits, RunPolls, RunJudges, PoolInv, PoolIsSound, RRTypeOK
<1>2. \A w \in Worker : Holds(w)' => Holds(w) /\ worker'[w].part = worker[w].part
  BY DEF RunAwaits, RunPolls, RunJudges, Holds, Newborn
<1>3. \/ run'.pc = "idle"
      \/ run'.at = run.at /\ run.pc \in {"waiting", "judging"}
      \/ run'.at = run.at + 1 /\ run.pc = "waiting" /\ outcome[run.at] # "pending"
  BY Typed DEF RunAwaits, RunPolls, RunJudges, Awaited, PoolInv, PoolIsSound, RRTypeOK
<1>4. RunKnowsItsPlace'
  BY <1>1, <1>3, Typed, PartNumbers DEF PoolInv, RunKnowsItsPlace
<1> QED BY <1>1, <1>2, <1>4, OwnersStay, Typed DEF Owned

LEMMA TakeOwners ==
  ASSUME PoolInv, NEW w \in Worker, WorkerTakes(w) \/ WorkerLeaves(w)
  PROVE  Owned'
<1>1. jobs # <<>> /\ jobs' = Tail(jobs) /\ UNCHANGED <<outcome, run>>
  BY DEF WorkerTakes, WorkerLeaves
<1>2. /\ Len(jobs) \in Nat \ {0} /\ Len(jobs') = Len(jobs) - 1
      /\ \A i \in 1 .. Len(jobs') : jobs'[i] = jobs[i + 1]
      /\ \A i \in 1 .. Len(jobs') : i + 1 \in 2 .. Len(jobs)
      /\ Head(jobs) = jobs[1]
  BY <1>1, Typed, QueueShrinks
<1>3. /\ \A v \in Worker : v # w => worker'[v] = worker[v]
      /\ Holds(w)' => worker'[w].part = jobs[1] /\ jobs[1] # Sentinel
  BY <1>2, Typed, WorksAlone DEF WorkerTakes, WorkerLeaves, Holds
<1>4. 1 \in 1 .. Len(jobs) /\ jobs[1] \in Part \cup {Sentinel}
  BY <1>1, <1>2, Typed, QueueIsTyped
<1>5. jobs[1] # Sentinel =>
        /\ Put(jobs[1]) /\ outcome[jobs[1]] = "pending"
        /\ \A v \in Worker : Holds(v) => worker[v].part # jobs[1]
        /\ \A j \in 1 .. Len(jobs) : j # 1 => jobs[j] # jobs[1]
  BY <1>4 DEF PoolInv, QueuedIsUndecided
<1>6. QueuedIsUndecided'
  <2> SUFFICES ASSUME NEW i \in 1 .. Len(jobs'), jobs[i + 1] \in Part
               PROVE  /\ Put(jobs[i + 1]) /\ outcome[jobs[i + 1]] = "pending"
                      /\ \A v \in Worker : Holds(v)' => worker'[v].part # jobs[i + 1]
                      /\ \A j \in 1 .. Len(jobs') : j # i => jobs[j + 1] # jobs[i + 1]
    BY <1>1, <1>2 DEF QueuedIsUndecided, Put
  <2>1. i + 1 \in 1 .. Len(jobs) /\ i + 1 # 1
    BY <1>2
  <2>2. /\ Put(jobs[i + 1]) /\ outcome[jobs[i + 1]] = "pending"
        /\ \A v \in Worker : Holds(v) => worker[v].part # jobs[i + 1]
        /\ \A j \in 1 .. Len(jobs) : j # i + 1 => jobs[j] # jobs[i + 1]
    BY <2>1 DEF PoolInv, QueuedIsUndecided
  <2>3. \A v \in Worker : Holds(v)' => worker'[v].part # jobs[i + 1]
    BY <1>3, <1>4, <2>1, <2>2 DEF Holds
  <2>4. \A j \in 1 .. Len(jobs') : j # i => j + 1 \in 1 .. Len(jobs) /\ j + 1 # i + 1
    BY <1>2
  <2> QED BY <2>2, <2>3, <2>4
<1>7. HeldIsUndecided'
  BY <1>1, <1>3, <1>4, <1>5 DEF PoolInv, HeldIsUndecided, Holds, Put
<1> QED BY <1>1, <1>6, <1>7 DEF Owned, PoolInv, RunKnowsItsPlace

LEMMA DecideOwners ==
  ASSUME PoolInv, NEW w \in Worker, WorkerReads(w) \/ WorkerFails(w)
  PROVE  Owned'
<1>1. /\ worker[w].part \in Part /\ Holds(w)
      /\ \A v \in Worker : v # w /\ Holds(v) => worker[v].part # worker[w].part
      /\ Put(worker[w].part)
  BY DEF WorkerReads, WorkerFails, PoolInv, HeldIsUndecided, Holds
<1>2. UNCHANGED <<jobs, run>>
  BY DEF WorkerReads, WorkerFails
<1>3. ~Holds(w)' /\ \A v \in Worker : v # w => worker'[v] = worker[v]
  BY Typed, WorksAlone DEF WorkerReads, WorkerFails, Holds
<1>4. \A p \in Part : outcome'[p] = IF p = worker[w].part THEN outcome'[p] ELSE outcome[p]
  BY Typed DEF WorkerReads, WorkerFails, RRTypeOK
<1>5. outcome'[worker[w].part] # "pending"
  BY <1>1, Typed DEF WorkerReads, WorkerFails, RRTypeOK
<1>6. QueuedIsUndecided'
  BY <1>1, <1>2, <1>3, <1>4 DEF PoolInv, QueuedIsUndecided, Put, Holds
<1>7. HeldIsUndecided'
  BY <1>1, <1>2, <1>3, <1>4 DEF PoolInv, HeldIsUndecided, Put, Holds
<1>8. RunKnowsItsPlace'
  BY <1>1, <1>2, <1>4, <1>5, Typed, PartNumbers DEF PoolInv, RunKnowsItsPlace, Put
<1> QED BY <1>6, <1>7, <1>8 DEF Owned

LEMMA WorkerOwners ==
  ASSUME PoolInv, NEW w \in Worker, WorkerStep(w)
  PROVE  Owned'
<1>1. CASE WorkerEnters(w) \/ WorkerDiesUnborn(w) \/ WorkerWedges(w)
  <2>1. UNCHANGED <<jobs, outcome, run>>
    BY <1>1 DEF WorkerEnters, WorkerDiesUnborn, WorkerWedges
  <2>2. \A v \in Worker : Holds(v)' => Holds(v) /\ worker'[v].part = worker[v].part
    BY <1>1, Typed, WorksAlone DEF WorkerEnters, WorkerDiesUnborn, WorkerWedges, Holds
  <2> QED BY <2>1, <2>2, OwnersStay, Typed DEF Owned, RunKnowsItsPlace
<1> QED BY <1>1, TakeOwners, DecideOwners DEF WorkerStep

LEMMA CloseOwners == PoolInv /\ (CloseBegins \/ CloseStep) => Owned'
<1> SUFFICES ASSUME PoolInv, CloseBegins \/ CloseStep PROVE Owned'
  OBVIOUS
<1>1. UNCHANGED <<worker, outcome, run>>
  BY DEF CloseBegins, CloseStep, CloseSends, CloseEnds
<1>2. CASE CloseSends
  <2>1. /\ Len(jobs) \in Nat /\ Len(jobs') = Len(jobs) + 1 /\ jobs'[Len(jobs) + 1] = Sentinel
        /\ \A i \in 1 .. Len(jobs) : jobs'[i] = jobs[i]
    BY <1>2, Typed, QueueGrows DEF CloseSends
  <2>2. QueuedIsUndecided'
    BY <1>1, <2>1, PartNumbers DEF PoolInv, QueuedIsUndecided, Holds, Put
  <2> QED BY <1>1, <2>2 DEF Owned, PoolInv, HeldIsUndecided, RunKnowsItsPlace, Holds, Put
<1>3. CASE CloseBegins \/ CloseEnds
  <2>1. UNCHANGED jobs
    BY <1>3 DEF CloseBegins, CloseEnds
  <2> QED BY <1>1, <2>1, OwnersStay, Typed DEF Owned, RunKnowsItsPlace, Holds
<1> QED BY <1>2, <1>3 DEF CloseStep

LEMMA OwnersStep == PoolInv /\ [Next]_poolVars => Owned'
<1> SUFFICES ASSUME PoolInv, [Next]_poolVars PROVE Owned'
  OBVIOUS
<1>1. CASE UNCHANGED poolVars
  BY <1>1, Typed DEF poolVars, Owned, QueuedIsUndecided, HeldIsUndecided, RunKnowsItsPlace,
     Holds, Put
<1> QED BY <1>1, BeginOwners, PutOwners, OtherRunOwners, WorkerOwners, CloseOwners
        DEF Next, RunStep

-----------------------------------------------------------------------------
(* Between runs.                                                           *)

LEMMA BytesStep == PoolInv /\ [Next]_poolVars => BytesFollowOutcomes'
<1> SUFFICES ASSUME PoolInv, [Next]_poolVars PROVE BytesFollowOutcomes'
  OBVIOUS
<1> USE DEF BytesFollowOutcomes
<1>1. CASE RunBegins
  BY <1>1 DEF RunBegins
<1>2. ASSUME NEW w \in Worker, WorkerTakes(w) PROVE BytesFollowOutcomes'
  <2>1. Head(jobs) \in Part /\ outcome[Head(jobs)] = "pending"
    <3>1. Head(jobs) = jobs[1] /\ 1 \in 1 .. Len(jobs) /\ Head(jobs) \in Part
      BY <1>2, Typed, QueueIsTyped, QueueShrinks DEF WorkerTakes
    <3> QED BY <3>1 DEF PoolInv, QueuedIsUndecided
  <2>2. \A p \in Part : bytes'[p] = IF p = Head(jobs) THEN "torn" ELSE bytes[p]
    BY <1>2, Typed DEF WorkerTakes, RRTypeOK
  <2> QED BY <1>2, <2>1, <2>2 DEF WorkerTakes, PoolInv
<1>3. ASSUME NEW w \in Worker, WorkerReads(w) PROVE BytesFollowOutcomes'
  BY <1>3, Typed DEF WorkerReads, RRTypeOK, PoolInv
<1>4. ASSUME NEW w \in Worker, WorkerFails(w) PROVE BytesFollowOutcomes'
  BY <1>4, Typed DEF WorkerFails, RRTypeOK, PoolInv
<1>5. CASE UNCHANGED <<outcome, bytes>>
  BY <1>5 DEF PoolInv
<1>6. ASSUME NEW w \in Worker, WorkerStep(w) PROVE BytesFollowOutcomes'
  BY <1>2, <1>3, <1>4, <1>5, <1>6
     DEF WorkerStep, WorkerEnters, WorkerDiesUnborn, WorkerLeaves, WorkerWedges
<1>7. CASE RunStep \/ CloseBegins \/ CloseStep \/ UNCHANGED poolVars
  BY <1>5, <1>7 DEF RunStep, RunPuts, RunAwaits, RunPolls, RunJudges, CloseBegins, CloseStep,
     CloseSends, CloseEnds, poolVars
<1> QED BY <1>1, <1>6, <1>7 DEF Next

\* A run that has seen its last part decided has seen them all.
LEMMA AllDecided ==
  ASSUME PoolInv, RunAwaits, run'.pc = "idle"
  PROVE  /\ \A p \in Part : outcome[p] # "pending"
         /\ result' = IF \E p \in Part : outcome[p] = "failed" THEN "failed" ELSE "whole"
<1>1. ~(run.at < NParts) /\ outcome[run.at] # "pending" /\ run.pc = "waiting"
  BY Typed DEF RunAwaits, Awaited, RRTypeOK
<1>2. \A p \in Part : p < run.at => outcome[p] # "pending"
  BY <1>1 DEF PoolInv, RunKnowsItsPlace
<1>3. \A p \in Part : p < run.at \/ p = run.at
  BY <1>1, Typed, PoolAssumption DEF Part
<1> QED BY <1>1, <1>2, <1>3 DEF RunAwaits

LEMMA IdleStep ==
  ASSUME PoolInv, [Next]_poolVars
  PROVE  QuietBetweenRuns' /\ NoJobLeftBehind' /\ RaisedIsTheLast'
<1> USE DEF QuietBetweenRuns, NoJobLeftBehind, RaisedIsTheLast
<1>1. CASE RunAwaits
  <2>1. CASE run'.pc = "idle"
    <3>1. \A p \in Part : outcome[p] # "pending"
      BY <1>1, <2>1, AllDecided
    <3>2. \A w \in Worker : ~Holds(w)
      BY <3>1 DEF PoolInv, HeldIsUndecided
    <3>3. \A i \in 1 .. Len(jobs) : jobs[i] = Sentinel
      BY <3>1, Typed DEF PoolInv, QueuedIsUndecided
    <3> QED BY <1>1, <2>1, <3>2, <3>3 DEF RunAwaits, Holds
  <2>2. CASE run'.pc # "idle"
    <3>1. run'.pc = "waiting" /\ UNCHANGED result
      BY <1>1, <2>2, Typed DEF RunAwaits, RRTypeOK
    <3> QED BY <1>1, <3>1 DEF RunAwaits, PoolInv
  <2> QED BY <2>1, <2>2
<1>2. CASE RunJudges
  <2>1. CASE Serving \/ WorthAnotherPoll
    <3>1. run'.pc = "waiting" /\ UNCHANGED result
      BY <1>2, <2>1, Typed DEF RunJudges, RRTypeOK
    <3> QED BY <1>2, <3>1 DEF RunJudges, PoolInv
  <2>2. CASE ~(Serving \/ WorthAnotherPoll)
    <3>1. run'.pc = "idle" /\ result' = Blame /\ UNCHANGED worker
      BY <1>2, <2>2 DEF RunJudges
    <3>2. Blame \in Raised
      BY DEF Blame, Raised
    <3>3. \A w \in Worker : ~Alive(w)
      BY <2>2 DEF Serving
    <3> QED BY <3>1, <3>2, <3>3 DEF Alive
  <2> QED BY <2>1, <2>2
<1>3. CASE RunBegins \/ RunPuts \/ RunPolls
  <2>1. run'.pc # "idle" /\ result' = result /\ result \notin Raised
    BY <1>3, Typed DEF RunBegins, RunPuts, RunPolls, PoolInv, RRTypeOK
  <2> QED BY <2>1
<1>4. ASSUME NEW w \in Worker, WorkerStep(w)
      PROVE  QuietBetweenRuns' /\ NoJobLeftBehind' /\ RaisedIsTheLast'
  <2>0. UNCHANGED <<run, result>>
    BY <1>4 DEF WorkerStep, WorkerEnters, WorkerDiesUnborn, WorkerTakes, WorkerLeaves,
       WorkerReads, WorkerFails, WorkerWedges
  <2>1. Alive(w)
    BY <1>4 DEF WorkerStep, WorkerEnters, WorkerDiesUnborn, WorkerTakes, WorkerLeaves,
       WorkerReads, WorkerFails, WorkerWedges, Alive
  <2>2. run.pc = "idle" => \A i \in 1 .. Len(jobs) : jobs[i] = Sentinel
    BY <2>1 DEF PoolInv
  <2>3. run.pc = "idle" => worker[w].pc \notin {"reading", "wedged"}
    BY DEF PoolInv, PoolIsSound
  <2>4. run.pc = "idle" => ~WorkerTakes(w)
    <3>1. jobs # <<>> => Head(jobs) = jobs[1] /\ 1 \in 1 .. Len(jobs)
      BY Typed
    <3> QED BY <2>2, <3>1 DEF WorkerTakes
  <2>5. run.pc = "idle" => WorkerEnters(w) \/ WorkerDiesUnborn(w) \/ WorkerLeaves(w)
    BY <1>4, <2>3, <2>4 DEF WorkerStep, WorkerReads, WorkerFails, WorkerWedges
  <2>6. run.pc = "idle" => /\ worker'[w].pc \notin {"reading", "wedged"}
                           /\ \A v \in Worker : v # w => worker'[v] = worker[v]
    BY <2>5, Typed, WorksAlone DEF WorkerEnters, WorkerDiesUnborn, WorkerLeaves
  <2>7. run.pc = "idle" => \A i \in 1 .. Len(jobs') : jobs'[i] = Sentinel
    <3>1. CASE UNCHANGED jobs
      BY <2>2, <3>1
    <3>2. CASE run.pc = "idle" /\ WorkerLeaves(w)
      <4>1. \A i \in 1 .. Len(jobs') : jobs'[i] = jobs[i + 1] /\ i + 1 \in 1 .. Len(jobs)
        BY <3>2, Typed, QueueShrinks DEF WorkerLeaves
      <4> QED BY <2>2, <3>2, <4>1
    <3> QED BY <2>5, <3>1, <3>2 DEF WorkerEnters, WorkerDiesUnborn
  <2> QED BY <2>0, <2>6, <2>7 DEF PoolInv, PoolIsSound
<1>5. CASE CloseBegins \/ CloseStep
  <2>1. UNCHANGED <<run, result, worker>>
    BY <1>5 DEF CloseBegins, CloseStep, CloseSends, CloseEnds
  <2>2. (\A i \in 1 .. Len(jobs) : jobs[i] = Sentinel)
          => \A i \in 1 .. Len(jobs') : jobs'[i] = Sentinel
    <3>1. CASE UNCHANGED jobs
      BY <3>1
    <3>2. CASE CloseSends
      BY <3>2, Typed, QueueGrows DEF CloseSends
    <3> QED BY <1>5, <3>1, <3>2 DEF CloseBegins, CloseStep, CloseEnds
  <2> QED BY <2>1, <2>2 DEF PoolInv, PoolIsSound, Alive
<1>6. CASE UNCHANGED poolVars
  BY <1>6 DEF poolVars, PoolInv, PoolIsSound, Alive
<1> QED BY <1>1, <1>2, <1>3, <1>4, <1>5, <1>6 DEF Next, RunStep

-----------------------------------------------------------------------------
(* The cause of an error.                                                  *)

LEMMA SentAwayStep == PoolInv /\ [Next]_poolVars => OnlyCloseSendsAway'
<1> SUFFICES ASSUME PoolInv, [Next]_poolVars, ~closed, ~closed'
             PROVE  OnlyCloseSendsAway'
  BY DEF OnlyCloseSendsAway, Next, RunStep, WorkerStep, RunBegins, RunPuts, RunAwaits, RunPolls,
     RunJudges, WorkerEnters, WorkerDiesUnborn, WorkerTakes, WorkerLeaves, WorkerReads,
     WorkerFails, WorkerWedges, CloseBegins, CloseStep, CloseSends, CloseEnds, closed, poolVars
<1>1. /\ \A i \in 1 .. Len(jobs) : jobs[i] # Sentinel
      /\ \A w \in Worker : worker[w].pc # "gone"
  BY DEF PoolInv, OnlyCloseSendsAway
<1> USE DEF OnlyCloseSendsAway
<1>2. CASE RunPuts
  <2>1. jobs' = Append(jobs, run.at) /\ run.at # Sentinel /\ UNCHANGED worker
    BY <1>2, Typed, PartNumbers DEF RunPuts
  <2>2. \A i \in 1 .. Len(jobs') : jobs'[i] # Sentinel
    BY <1>1, <2>1, Typed, QueueGrows
  <2> QED BY <1>1, <2>1, <2>2
<1>3. CASE RunPolls
  BY <1>1, <1>3 DEF RunPolls, Newborn
<1>4. ASSUME NEW w \in Worker, WorkerStep(w) PROVE OnlyCloseSendsAway'
  <2>1. ~WorkerLeaves(w)
    <3>1. jobs # <<>> => Head(jobs) = jobs[1] /\ 1 \in 1 .. Len(jobs)
      BY Typed
    <3> QED BY <1>1, <3>1 DEF WorkerLeaves
  <2>2. CASE WorkerTakes(w)
    <3>1. \A i \in 1 .. Len(jobs') : jobs'[i] # Sentinel
      <4>1. \A i \in 1 .. Len(jobs') : jobs'[i] = jobs[i + 1] /\ i + 1 \in 1 .. Len(jobs)
        BY <2>2, Typed, QueueShrinks DEF WorkerTakes
      <4> QED BY <1>1, <4>1
    <3>2. \A v \in Worker : worker'[v].pc # "gone"
      BY <1>1, <2>2, Typed, WorksAlone DEF WorkerTakes
    <3> QED BY <3>1, <3>2
  <2>3. CASE ~WorkerTakes(w)
    <3>1. UNCHANGED jobs
      BY <1>4, <2>1, <2>3 DEF WorkerStep, WorkerEnters, WorkerDiesUnborn, WorkerReads, WorkerFails,
         WorkerWedges
    <3>2. \A v \in Worker : worker'[v].pc # "gone"
      BY <1>1, <1>4, <2>1, <2>3, Typed, WorksAlone DEF WorkerStep, WorkerEnters, WorkerDiesUnborn,
         WorkerReads, WorkerFails, WorkerWedges
    <3> QED BY <1>1, <3>1, <3>2
  <2> QED BY <2>2, <2>3
<1>5. CASE RunBegins \/ RunAwaits \/ RunJudges \/ CloseBegins \/ CloseEnds \/ UNCHANGED poolVars
  BY <1>1, <1>5 DEF RunBegins, RunAwaits, RunJudges, CloseBegins, CloseEnds, poolVars
<1>6. ~CloseSends
  BY DEF CloseSends, closed
<1> QED BY <1>2, <1>3, <1>4, <1>5, <1>6 DEF Next, RunStep, CloseStep

\* What _check_workers concludes from what it sees under the lock.
LEMMA JudgedRightly ==
  ASSUME PoolInv, run.pc = "judging", ~(Serving \/ WorthAnotherPoll)
  PROVE  /\ Blame = "closed" => closed
         /\ Blame = "unstarted" =>
              \A w \in Worker : worker[w].pc = "stillborn" /\ starts[w] = MaxWorkerStarts
         /\ Blame # "vanished"
<1>1. ~closed => \A w \in Worker : worker[w].pc = "stillborn"
  BY DEF Serving, Alive, PoolInv, PoolIsSound, RRTypeOK, OnlyCloseSendsAway
<1>2. ~closed => \A w \in Worker : starts[w] = MaxWorkerStarts
  <2> SUFFICES ASSUME ~closed, NEW w \in Worker PROVE starts[w] = MaxWorkerStarts
    OBVIOUS
  <2>1. w \in NeverEntered
    BY <1>1 DEF NeverEntered, Entered
  <2>2. ~(starts[w] < MaxWorkerStarts)
    BY <2>1 DEF WorthAnotherPoll
  <2> QED BY <2>2, Typed, PoolAssumption DEF RRTypeOK
<1>3. ~closed => NeverEntered # {}
  BY <1>1, PoolAssumption DEF NeverEntered, Entered, Worker
<1> QED BY <1>1, <1>2, <1>3 DEF Blame

LEMMA BlameStep == PoolInv /\ [Next]_poolVars => BlameIsRight'
<1> SUFFICES ASSUME PoolInv, [Next]_poolVars PROVE BlameIsRight'
  OBVIOUS
<1>1. closed => closed'
  BY DEF Next, RunStep, WorkerStep, RunBegins, RunPuts, RunAwaits, RunPolls,
     RunJudges, WorkerEnters, WorkerDiesUnborn, WorkerTakes, WorkerLeaves, WorkerReads,
     WorkerFails, WorkerWedges, CloseBegins, CloseStep, CloseSends, CloseEnds, closed, poolVars
<1>2. CASE RunAwaits
  <2>1. result' \in {result, "failed", "whole"} /\ UNCHANGED <<worker, starts>>
    BY <1>2 DEF RunAwaits
  <2> QED BY <1>1, <2>1 DEF BlameIsRight, PoolInv, PoolIsSound
<1>3. CASE RunJudges
  <2>1. CASE Serving \/ WorthAnotherPoll
    BY <1>1, <1>3, <2>1 DEF RunJudges, BlameIsRight, PoolInv, PoolIsSound
  <2>2. CASE ~(Serving \/ WorthAnotherPoll)
    <3>1. run.pc = "judging" /\ result' = Blame /\ UNCHANGED <<worker, starts>>
      BY <1>3, <2>2 DEF RunJudges
    <3> QED BY <1>1, <2>2, <3>1, JudgedRightly DEF BlameIsRight
  <2> QED BY <2>1, <2>2
<1>4. CASE UNCHANGED <<result, worker, starts>>
  BY <1>1, <1>4 DEF BlameIsRight, PoolInv, PoolIsSound
<1>5. CASE RunPolls
  <2>1. result \notin Raised /\ UNCHANGED result
    BY <1>5 DEF RunPolls, PoolInv, RaisedIsTheLast
  <2> QED BY <2>1 DEF BlameIsRight, Raised
<1>6. ASSUME NEW w \in Worker, WorkerStep(w) PROVE BlameIsRight'
  <2>1. UNCHANGED <<result, starts>> /\ worker[w].pc # "stillborn"
    BY <1>6 DEF WorkerStep, WorkerEnters, WorkerDiesUnborn, WorkerTakes, WorkerLeaves,
       WorkerReads, WorkerFails, WorkerWedges
  <2> QED BY <1>1, <2>1 DEF BlameIsRight, PoolInv, PoolIsSound
<1>7. CASE RunBegins \/ RunPuts \/ CloseBegins \/ CloseStep \/ UNCHANGED poolVars
  BY <1>4, <1>7 DEF RunBegins, RunPuts, CloseBegins, CloseStep, CloseSends, CloseEnds, poolVars
<1> QED BY <1>2, <1>3, <1>5, <1>6, <1>7 DEF Next, RunStep

-----------------------------------------------------------------------------
LEMMA SoundStep == PoolInv /\ [Next]_poolVars => PoolInv'
BY TypesStep, OwnersStep, BytesStep, IdleStep, SentAwayStep, BlameStep
   DEF PoolInv, PoolIsSound, Owned

LEMMA AlwaysOwned == Spec => []PoolInv
BY InitIsSound, SoundStep, PTL DEF Spec

\* Whatever the threads, their deaths and close() do, when run() has returned or
\* raised nobody is inside a read of its layer, and the error names its cause.
THEOREM PoolAlwaysSound == Spec => []PoolIsSound
<1>1. PoolInv => PoolIsSound
  BY DEF PoolInv
<1> QED BY <1>1, AlwaysOwned, PTL

-----------------------------------------------------------------------------
(* A layer read is whole or an error.                                      *)

ReadStatus == IF run.pc # "idle" THEN "reading"
              ELSE IF result \in Raised THEN "refused" ELSE result
Arrived == {p \in Part : bytes[p] = "fresh"}

\* A part that has arrived is nobody's to write.
LEMMA ArrivedStays ==
  ASSUME PoolInv, NEW w \in Worker, WorkerStep(w)
  PROVE  /\ Arrived \subseteq Arrived'
         /\ run.pc = "idle" => Arrived' = Arrived
<1>1. CASE WorkerTakes(w)
  <2>1. Head(jobs) \in Part /\ outcome[Head(jobs)] = "pending"
    <3>1. Head(jobs) = jobs[1] /\ 1 \in 1 .. Len(jobs) /\ Head(jobs) \in Part
      BY <1>1, Typed, QueueIsTyped, QueueShrinks DEF WorkerTakes
    <3> QED BY <3>1 DEF PoolInv, QueuedIsUndecided
  <2>2. bytes[Head(jobs)] # "fresh"
    BY <2>1 DEF PoolInv, BytesFollowOutcomes
  <2>3. \A p \in Part : bytes'[p] = IF p = Head(jobs) THEN "torn" ELSE bytes[p]
    BY <1>1, Typed DEF WorkerTakes, RRTypeOK
  <2> QED BY <2>2, <2>3 DEF Arrived
<1>2. CASE WorkerReads(w)
  <2>1. run.pc # "idle"
    BY <1>2 DEF WorkerReads, PoolInv, PoolIsSound, QuietBetweenRuns
  <2>2. \A p \in Part : bytes'[p] = IF p = worker[w].part THEN "fresh" ELSE bytes[p]
    BY <1>2, Typed DEF WorkerReads, RRTypeOK
  <2> QED BY <2>1, <2>2 DEF Arrived
<1>3. CASE UNCHANGED bytes
  BY <1>3 DEF Arrived
<1> QED BY <1>1, <1>2, <1>3 DEF WorkerStep, WorkerEnters, WorkerDiesUnborn, WorkerLeaves,
        WorkerFails, WorkerWedges

LEMMA ReadRefines ==
  ASSUME PoolInv, [Next]_poolVars
  PROVE  [LR!Begin \/ LR!Arrive \/ LR!EndWhole \/ LR!EndRefused]_<<ReadStatus, Arrived>>
<1> USE DEF LR!Begin, LR!Arrive, LR!EndWhole, LR!EndRefused, ReadStatus, Arrived
<1>1. CASE RunBegins
  <2>1. result \in {"none", "whole"}
    BY <1>1, Typed DEF RunBegins, RRTypeOK
  <2>2. run'.pc = "putting" /\ \A p \in Part : bytes'[p] = "stale"
    BY <1>1 DEF RunBegins
  <2> QED BY <1>1, <2>1, <2>2 DEF RunBegins
<1>2. CASE RunAwaits /\ run'.pc = "idle"
  <2>1. run.pc = "waiting" /\ UNCHANGED bytes
    BY <1>2 DEF RunAwaits
  <2>2. CASE \E p \in Part : outcome[p] = "failed"
    BY <1>2, <2>1, <2>2, AllDecided DEF Raised
  <2>3. CASE ~(\E p \in Part : outcome[p] = "failed")
    <3>1. \A p \in Part : outcome[p] = "done"
      BY <1>2, <2>3, AllDecided, Typed DEF RRTypeOK
    <3>2. \A p \in Part : bytes[p] = "fresh"
      BY <3>1 DEF PoolInv, BytesFollowOutcomes
    <3> QED BY <1>2, <2>1, <2>3, <3>2, AllDecided DEF Raised
  <2> QED BY <2>2, <2>3
<1>3. CASE RunJudges /\ run'.pc = "idle"
  <2>1. result' \in Raised /\ run.pc = "judging" /\ UNCHANGED bytes
    <3>1. ~(Serving \/ WorthAnotherPoll) /\ result' = Blame
      BY <1>3, Typed DEF RunJudges, RRTypeOK
    <3> QED BY <1>3, <3>1 DEF RunJudges, Raised, Blame
  <2> QED BY <1>3, <2>1
<1>4. CASE run.pc # "idle" /\ run'.pc # "idle" /\ UNCHANGED bytes
  BY <1>4
<1>5. CASE RunPuts \/ RunAwaits \/ RunPolls \/ RunJudges
  <2>1. run.pc # "idle" /\ UNCHANGED bytes
    BY <1>5 DEF RunPuts, RunAwaits, RunPolls, RunJudges
  <2>2. RunPuts => run'.pc # "idle"
    <3>1. SUFFICES ASSUME RunPuts PROVE run'.pc # "idle"
      OBVIOUS
    <3>2. run.pc = "putting" /\ DOMAIN run = {"pc", "at"}
      BY <3>1 DEF RunPuts, PoolInv, PoolIsSound, RRTypeOK
    <3>3. run' = [run EXCEPT !.at = @ + 1] \/ run' = [pc |-> "waiting", at |-> 1]
      BY <3>1 DEF RunPuts
    <3> QED BY <3>2, <3>3
  <2>3. RunPolls => run'.pc # "idle"
    <3>1. SUFFICES ASSUME RunPolls PROVE run'.pc # "idle"
      OBVIOUS
    <3>2. "pc" \in DOMAIN run
      BY DEF PoolInv, PoolIsSound, RRTypeOK
    <3> QED BY <3>1, <3>2 DEF RunPolls
  <2> QED BY <1>2, <1>3, <1>4, <1>5, <2>1, <2>2, <2>3
<1>6. CASE UNCHANGED <<run, result, bytes>>
  BY <1>6
<1>7. ASSUME NEW w \in Worker, WorkerStep(w)
      PROVE  [LR!Begin \/ LR!Arrive \/ LR!EndWhole \/ LR!EndRefused]_<<ReadStatus, Arrived>>
  <2>1. UNCHANGED <<run, result>>
    BY <1>7 DEF WorkerStep, WorkerEnters, WorkerDiesUnborn, WorkerTakes, WorkerLeaves,
       WorkerReads, WorkerFails, WorkerWedges
  <2> QED BY <1>7, <2>1, ArrivedStays
<1>8. CASE CloseBegins \/ CloseStep \/ UNCHANGED poolVars
  BY <1>6, <1>8 DEF CloseBegins, CloseStep, CloseSends, CloseEnds, poolVars
<1> QED BY <1>1, <1>5, <1>7, <1>8 DEF Next, RunStep

\* A layer read ends with every byte range in the region or refuses, and a range
\* that has arrived is not written again, whatever the threads do.
THEOREM PoolReadsWholeOrRefuses == Spec => ReadsWholeOrRefuses
<1>1. Init => LR!Init
  BY DEF Init, LR!Init, Raised
<1>2. PoolInv /\ [Next]_poolVars
        => [LR!Begin \/ LR!Arrive \/ LR!EndWhole \/ LR!EndRefused]_(LR!readVars)
  BY ReadRefines DEF LR!readVars, ReadStatus, Arrived
<1> QED BY <1>1, <1>2, AlwaysOwned, PTL DEF Spec, ReadsWholeOrRefuses, LR!Spec
=============================================================================
