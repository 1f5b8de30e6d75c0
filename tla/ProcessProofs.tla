---------------------------- MODULE ProcessProofs ----------------------------
(***************************************************************************)
(* Safety of what waits for something else, for every value of the         *)
(* constants: the Lambda submission, the KL controller, the SIGINT         *)
(* handler, the web UI's streams of metrics and of log lines.  For each an *)
(* invariant that the steps preserve, and from it the properties that the  *)
(* runs check on small instances; and then all of them side by side with   *)
(* the MCP server and the loop.                                            *)
(***************************************************************************)
EXTENDS MCProcesses, LoopProofs, McpProofs, SequenceTheorems

-----------------------------------------------------------------------------
(* LambdaRun.                                                              *)

\* The controller has its instance's id from the answer to its launch on.
Launched == {"booting", "training", "copying", "terminating", "confirming"}

\* Nothing is running before the provider has been asked for it, or once it has
\* taken the request to terminate it.
InstanceFollows ==
  /\ ctrl \in {"none", "starting"} => instance = "none"
  /\ ctrl \in Launched => known
  /\ ctrl = "confirming" => instance # "active"

\* rc is 0 only past the copy, and a controller that ended with it has seen the
\* instance gone.
SuccessIsEarned ==
  rc = "success" =>
    /\ copied
    /\ ctrl \in InFinally \cup {"gone"}
    /\ ctrl = "gone" /\ ~unwinding => instance = "terminated"

ForkedOnce == parent = "spawning" => ctrl = "none"

LambdaInv ==
  /\ LambdaTypeOK
  /\ InstanceFollows /\ SuccessIsEarned /\ ForkedOnce
  /\ StatusIsTrue /\ CleanedUnlessExcused

LEMMA LambdaStarts == LambdaInit => LambdaInv
<1> SUFFICES ASSUME LambdaInit PROVE LambdaInv
  OBVIOUS
<1>1. LambdaTypeOK
  <2>1. presses \in 0 .. Presses /\ pending \subseteq {"parent", "controller"}
          /\ struck \subseteq Running /\ refused \subseteq {"launch", "terminate", "confirm"}
    BY PressesAssumption DEF LambdaInit
  <2> QED BY <2>1 DEF LambdaInit, LambdaTypeOK, Statuses
<1> QED
BY <1>1
   DEF LambdaInit, LambdaInv, LambdaTypeOK, InstanceFollows, SuccessIsEarned, ForkedOnce,
       StatusIsTrue,
       SuccessIsWhole, ReportedIsOver, CleanedUnlessExcused, Launched, Statuses

LEMMA LambdaTypesStep == LambdaTypeOK /\ [LambdaNext]_lambdaVars => LambdaTypeOK'
<1> SUFFICES ASSUME LambdaTypeOK, [LambdaNext]_lambdaVars PROVE LambdaTypeOK'
  OBVIOUS
<1> USE DEF LambdaTypeOK, Running, InTry, InFinally, parentVars, ctrlVars, lambdaHistory, Statuses
<1>1. CASE CtrlC
  <2>1. presses' \in 0 .. Presses
    BY <1>1, PressesAssumption DEF CtrlC
  <2>2. pending' \subseteq {"parent", "controller"}
    BY <1>1 DEF CtrlC
  <2> QED BY <1>1, <2>1, <2>2 DEF CtrlC
<1>2. CASE Forks
  BY <1>2 DEF Forks, ParentGoes
<1>3. CASE Assigns \/ Notifies \/ WaitsAgain
  BY <1>3 DEF Assigns, Notifies, WaitsAgain, ParentGoes
<1>4. CASE SubmitReturns
  BY <1>4 DEF SubmitReturns, ExitStatus
<1>5. CASE ParentInterrupted
  BY <1>5 DEF ParentInterrupted, AfterInterrupt
<1>6. CASE Declines \/ LaunchRequested \/ LaunchAnswered \/ Boots \/ RemoteTrains \/ Copies
  BY <1>6 DEF Declines, LaunchRequested, LaunchAnswered, Boots, RemoteTrains, Copies, At
<1>7. CASE LaunchFails
  BY <1>7 DEF LaunchFails, At
<1>8. CASE RemoteFails \/ Confirmed
  BY <1>8 DEF RemoteFails, AfterFailure, Confirmed, At
<1>9. CASE Terminates \/ TerminateFails
  BY <1>9 DEF Terminates, TerminateFails, Stopped, RcOfFailure, At
<1>10. CASE ConfirmFails
  BY <1>10 DEF ConfirmFails, RcOfFailure, At
<1>11. CASE ControllerInterrupted
  BY <1>11 DEF ControllerInterrupted, AfterFailure, Stopped
<1>12. CASE ProviderLaunches \/ ProviderStops \/ InstanceDies
  BY <1>12 DEF ProviderLaunches, ProviderStops, InstanceDies, At
<1>13. CASE UNCHANGED lambdaVars
  BY <1>13 DEF lambdaVars
<1> QED BY <1>1, <1>2, <1>3, <1>4, <1>5, <1>6, <1>7, <1>8, <1>9, <1>10, <1>11, <1>12, <1>13
        DEF LambdaNext, Parent, Controller, Provider

LEMMA LambdaStep == LambdaInv /\ [LambdaNext]_lambdaVars => LambdaInv'
<1> SUFFICES ASSUME LambdaInv, [LambdaNext]_lambdaVars PROVE LambdaInv'
  OBVIOUS
<1>0. LambdaTypeOK'
  BY LambdaTypesStep DEF LambdaInv
<1> USE DEF LambdaInv, LambdaTypeOK, InstanceFollows, SuccessIsEarned, ForkedOnce,
         StatusIsTrue, SuccessIsWhole, ReportedIsOver, CleanedUnlessExcused, Launched, Running,
         InTry, InFinally, ExitStatus, parentVars, ctrlVars, lambdaHistory
<1>1. CASE CtrlC
  BY <1>0, <1>1 DEF CtrlC
<1>2. CASE Forks
  BY <1>0, <1>2 DEF Forks, ParentGoes
<1>3. CASE Assigns \/ Notifies \/ WaitsAgain
  BY <1>0, <1>3 DEF Assigns, Notifies, WaitsAgain, ParentGoes
<1>4. CASE SubmitReturns
  BY <1>0, <1>4 DEF SubmitReturns
<1>5. CASE ParentInterrupted
  BY <1>0, <1>5 DEF ParentInterrupted, AfterInterrupt
<1>6. CASE Declines \/ LaunchRequested \/ LaunchAnswered \/ Boots \/ RemoteTrains \/ Copies
  BY <1>0, <1>6 DEF Declines, LaunchRequested, LaunchAnswered, Boots, RemoteTrains, Copies, At
<1>7. CASE LaunchFails
  BY <1>0, <1>7 DEF LaunchFails, At
<1>8. CASE RemoteFails \/ Confirmed
  BY <1>0, <1>8 DEF RemoteFails, AfterFailure, Confirmed, Confirms, At
<1>9. CASE Terminates \/ TerminateFails
  BY <1>0, <1>9 DEF Terminates, TerminateFails, Stopped, RcOfFailure, At
<1>10. CASE ConfirmFails
  BY <1>0, <1>10 DEF ConfirmFails, RcOfFailure, At
<1>11. CASE ControllerInterrupted
  BY <1>0, <1>11 DEF ControllerInterrupted, AfterFailure, Stopped
<1>12. CASE ProviderLaunches \/ ProviderStops \/ InstanceDies
  BY <1>0, <1>12 DEF ProviderLaunches, ProviderStops, InstanceDies, At
<1>13. CASE UNCHANGED lambdaVars
  BY <1>0, <1>13 DEF lambdaVars
<1> QED BY <1>1, <1>2, <1>3, <1>4, <1>5, <1>6, <1>7, <1>8, <1>9, <1>10, <1>11, <1>12, <1>13
        DEF LambdaNext, Parent, Controller, Provider

LEMMA LambdaAlways == LambdaSpec => []LambdaInv
BY LambdaStarts, LambdaStep, PTL DEF LambdaSpec

\* What soup returns of a cloud run is what became of it ...
THEOREM LambdaStatusIsTrue == LambdaSpec => []StatusIsTrue
<1>1. LambdaInv => StatusIsTrue
  BY DEF LambdaInv
<1> QED BY <1>1, LambdaAlways, PTL

\* ... and no instance is left running but for the reasons the property names.
THEOREM LambdaCleansUp == LambdaSpec => []CleanedUnlessExcused
<1>1. LambdaInv => CleanedUnlessExcused
  BY DEF LambdaInv
<1> QED BY <1>1, LambdaAlways, PTL

-----------------------------------------------------------------------------
(* KlControl.                                                              *)

\* The patience that a counter of the controller shows is one that the votes have had.
VotesAreEarned ==
  /\ dwell <= hot /\ release <= cool
  /\ dwell < Dwell /\ release < ReleasePatience
  /\ tripped => dwell = 0

\* What the controller holds is what the trainer has, and positive.
HeldIsLive ==
  /\ beta = 0 => live = configured /\ ~tripped
  /\ beta # 0 /\ live # beta => live = NoCoefficient /\ ~tripped /\ beta = Floor

KlInv ==
  /\ KTypeOK
  /\ VotesAreEarned /\ HeldIsLive
  /\ TrippedIsRaised /\ RangeIsKept

LEMMA KlConstants ==
  /\ Floor \in Nat /\ Ceil \in Nat /\ Gain \in Nat /\ Dwell \in Nat /\ ReleasePatience \in Nat
  /\ 0 < Floor /\ Floor < Ceil /\ 1 < Gain /\ 0 < Dwell /\ 0 < ReleasePatience
  /\ \A c \in Configured : c \in Nat /\ c > 0
  /\ NoCoefficient \notin Nat
BY KlAssumption

\* The one product of the module.
LEMMA GainRaises ==
  ASSUME NEW b \in Nat, b > 0
  PROVE  b * Gain \in Nat /\ b * Gain > b
<1>1. PICK g \in Nat : Gain = g + 2
  <2>1. Gain - 2 \in Nat /\ Gain = (Gain - 2) + 2
    BY KlConstants
  <2> QED BY <2>1
<1>2. b * Gain = b * g + b + b
  BY <1>1
<1>3. b * g \in Nat
  BY <1>1
<1> QED BY <1>2, <1>3

\* The one quotient.
LEMMA GainRelaxes ==
  ASSUME NEW b \in Nat
  PROVE  b \div Gain \in Nat /\ b \div Gain <= b
<1>0. Gain \in Int /\ Gain > 0
  BY KlConstants
<1>1. b \div Gain \in Int /\ b = Gain * (b \div Gain) + (b % Gain) /\ b % Gain \in 0 .. Gain - 1
  BY <1>0
<1>2. PICK q \in Int : q = b \div Gain
  BY <1>1
<1>3. PICK g \in Nat : Gain = g + 1
  <2>1. Gain - 1 \in Nat /\ Gain = (Gain - 1) + 1
    BY KlConstants
  <2> QED BY <2>1
<1>4. PICK r \in 0 .. g : b = (g + 1) * q + r
  BY <1>1, <1>2, <1>3
<1>5. q >= 0
  BY <1>3, <1>4
<1>6. g * q \in Nat /\ (g + 1) * q = g * q + q
  BY <1>3, <1>5
<1> QED BY <1>2, <1>4, <1>5, <1>6

LEMMA RaisedBounds ==
  ASSUME NEW b \in Nat, b > 0
  PROVE  /\ Raised(b) \in Nat /\ Raised(b) <= Ceil /\ Raised(b) > 0
         /\ b <= Ceil => Raised(b) > b \/ (Raised(b) = b /\ b = Ceil)
         /\ b >= Floor => Raised(b) > Floor
BY GainRaises, KlConstants DEF Raised

LEMMA RelaxedBounds ==
  ASSUME NEW b \in Nat
  PROVE  /\ Relaxed(b) \in Nat /\ Relaxed(b) >= Floor
         /\ b >= Floor => Relaxed(b) <= b
         /\ b <= Ceil => Relaxed(b) <= Ceil
BY GainRelaxes, KlConstants DEF Relaxed

LEMMA SeededBounds ==
  ASSUME KlInv
  PROVE  /\ Seeded \in Nat /\ Seeded > 0
         /\ beta # 0 => Seeded = beta
         /\ StartsIn(Floor .. Ceil) => Seeded \in Floor .. Ceil
         /\ tripped => Seeded <= Ceil
         /\ live = Seeded \/ (live = NoCoefficient /\ Seeded = Floor /\ ~tripped)
BY KlConstants DEF KlInv, KTypeOK, HeldIsLive, TrippedIsRaised, RangeIsKept, StartsIn, Seeded

LEMMA KlStarts == KlInit => KlInv
<1> SUFFICES ASSUME KlInit PROVE KlInv
  OBVIOUS
<1>1. KTypeOK
  <2>1. live \in Nat \cup {NoCoefficient} /\ configured \in Configured \cup {NoCoefficient}
    BY KlConstants DEF KlInit
  <2>2. dwell \in 0 .. Dwell - 1 /\ release \in 0 .. ReleasePatience - 1 /\ hot \in 0 .. Dwell
        /\ cool \in 0 .. ReleasePatience
    BY KlConstants DEF KlInit
  <2> QED BY <2>1, <2>2 DEF KlInit, KTypeOK, Vote
<1>2. VotesAreEarned /\ HeldIsLive /\ TrippedIsRaised /\ RangeIsKept
  BY KlConstants DEF KlInit, VotesAreEarned, HeldIsLive, TrippedIsRaised, RangeIsKept
<1> QED BY <1>1, <1>2 DEF KlInv

LEMMA TripStep ==
  ASSUME KlInv, VotesTrip, UNCHANGED configured, odd' = ~odd
  PROVE  KlInv'
<1>0. KTypeOK /\ VotesAreEarned
  BY DEF KlInv
<1>1. /\ dwell \in Nat /\ hot \in Nat /\ cool' = 0 /\ release' = 0
      /\ dwell < Dwell /\ dwell <= hot /\ hot <= Dwell
      /\ hot' = IF hot < Dwell THEN hot + 1 ELSE hot
      /\ vote' \in Vote /\ configured' \in Configured \cup {NoCoefficient} /\ odd' \in BOOLEAN
  BY <1>0, KlConstants DEF VotesTrip, KTypeOK, VotesAreEarned, Counted, Vote
<1>2. CASE ~tripped /\ ~Enough(dwell, Dwell) /\ dwell' = dwell + 1 /\ Holds /\ UNCHANGED tripped
  <2>1. dwell' < Dwell /\ dwell' <= hot' /\ hot' \in 0 .. Dwell /\ dwell' \in 0 .. Dwell - 1
    BY <1>1, <1>2, KlConstants DEF Enough
  <2>2. beta' = Seeded /\ live' = live /\ ~tripped'
    BY <1>2 DEF Holds
  <2>3. live' \in Nat \cup {NoCoefficient}
    BY <1>0, <2>2 DEF KTypeOK
  <2>4. KTypeOK'
    <3>1. beta' \in Nat /\ tripped' = FALSE /\ release' \in 0 .. ReleasePatience - 1
          /\ cool' \in 0 .. ReleasePatience
      BY <1>0, <1>1, <1>2, <2>2, SeededBounds, KlConstants DEF KTypeOK
    <3> QED BY <1>1, <2>1, <2>3, <3>1 DEF KTypeOK
  <2>5. VotesAreEarned' /\ TrippedIsRaised'
    BY <1>1, <2>1, <2>2, KlConstants DEF VotesAreEarned, TrippedIsRaised
  <2>6. HeldIsLive' /\ RangeIsKept'
    BY <2>2, SeededBounds DEF HeldIsLive, RangeIsKept, StartsIn
  <2> QED BY <2>4, <2>5, <2>6 DEF KlInv
<1>3. ASSUME dwell' = 0, hot' \in 0 .. Dwell, tripped' = TRUE, beta' = Raised(Seeded), live' = beta'
      PROVE  KlInv'
  <2>1. /\ beta' \in Nat /\ beta' > 0 /\ beta' <= Ceil
        /\ StartsIn(Floor .. Ceil) => beta' > Floor
    BY <1>3, SeededBounds, RaisedBounds, KlConstants
  <2> QED BY <1>1, <1>3, <2>1, KlConstants
          DEF KlInv, KTypeOK, VotesAreEarned, HeldIsLive, TrippedIsRaised, RangeIsKept, StartsIn
<1>4. hot' \in 0 .. Dwell
  BY <1>1, KlConstants
<1>5. CASE /\ ~tripped /\ Enough(dwell, Dwell) /\ dwell' = 0
           /\ tripped' = TRUE /\ Commits(Raised(Seeded))
  BY <1>3, <1>4, <1>5 DEF Commits
<1>6. CASE /\ tripped /\ UNCHANGED <<tripped, dwell>>
           /\ IF Raised(Seeded) = Seeded THEN Holds ELSE Commits(Raised(Seeded))
  <2>1. dwell' = 0 /\ tripped' = TRUE
    BY <1>0, <1>6 DEF VotesAreEarned
  <2>2. beta' = Raised(Seeded) /\ live' = beta'
    BY <1>6, SeededBounds DEF Holds, Commits
  <2> QED BY <1>3, <1>4, <2>1, <2>2
<1> QED BY <1>2, <1>5, <1>6 DEF VotesTrip

LEMMA ReleaseStep ==
  ASSUME KlInv, VotesRelease, UNCHANGED configured, odd' = ~odd
  PROVE  KlInv'
<1>0. KTypeOK /\ VotesAreEarned
  BY DEF KlInv
<1>1. /\ dwell' = 0 /\ hot' = 0 /\ release \in Nat /\ cool \in Nat
      /\ release < ReleasePatience /\ release <= cool /\ cool <= ReleasePatience
      /\ vote' \in Vote /\ configured' \in Configured \cup {NoCoefficient} /\ odd' \in BOOLEAN
  BY <1>0, KlConstants DEF VotesRelease, KTypeOK, VotesAreEarned, Vote
<1>2. CASE tripped /\ Enough(release, ReleasePatience)
  <2> DEFINE b == Relaxed(Seeded)
  <2>1. release' = 0 /\ cool' = 0 /\ beta' = b /\ live' = b /\ tripped' = ~(b <= Floor)
    BY <1>2, SeededBounds DEF VotesRelease, Holds, Commits, Settled
  <2>2. b \in Nat /\ b >= Floor /\ b > 0 /\ b <= Ceil
    BY <1>2, SeededBounds, RelaxedBounds, KlConstants
  <2>3. dwell' \in 0 .. Dwell - 1 /\ release' \in 0 .. ReleasePatience - 1 /\ hot' \in 0 .. Dwell
        /\ cool' \in 0 .. ReleasePatience
    BY <1>1, <2>1, KlConstants
  <2> HIDE DEF b
  <2>4. KTypeOK'
    BY <1>1, <2>1, <2>2, <2>3 DEF KTypeOK
  <2>5. VotesAreEarned'
    BY <1>1, <2>1, KlConstants DEF VotesAreEarned
  <2>6. HeldIsLive' /\ TrippedIsRaised' /\ RangeIsKept'
    <3>0. beta' # 0 /\ live' = beta' /\ beta' \in Floor .. Ceil
      BY <2>1, <2>2, KlConstants
    <3>1. tripped' => ~(beta' <= Floor)
      BY <2>1, Zenon
    <3>2. tripped' => beta' > Floor
      BY <3>0, <3>1, KlConstants
    <3> QED BY <3>0, <3>2, KlConstants DEF HeldIsLive, TrippedIsRaised, RangeIsKept
  <2> QED BY <2>4, <2>5, <2>6 DEF KlInv
<1>3. CASE ~(tripped /\ Enough(release, ReleasePatience))
  <2>1. /\ release' = IF tripped THEN release + 1 ELSE 0
        /\ cool' = IF cool < ReleasePatience THEN cool + 1 ELSE cool
        /\ beta' = Seeded /\ live' = live /\ tripped' = tripped
        /\ tripped => release + 1 < ReleasePatience
    BY <1>1, <1>3, KlConstants DEF VotesRelease, Holds, Enough, Counted
  <2>2. /\ release' \in 0 .. ReleasePatience - 1 /\ release' < ReleasePatience /\ release' <= cool'
        /\ cool' \in 0 .. ReleasePatience
    BY <1>1, <2>1, KlConstants
  <2>3. live' \in Nat \cup {NoCoefficient} /\ tripped' \in BOOLEAN
    BY <1>0, <2>1 DEF KTypeOK
  <2>4. tripped => Seeded = beta
    BY SeededBounds DEF KlInv, HeldIsLive
  <2>5. TrippedIsRaised'
    BY <2>1, <2>4 DEF KlInv, TrippedIsRaised, StartsIn
  <2> QED BY <1>1, <2>1, <2>2, <2>3, <2>5, SeededBounds, KlConstants
          DEF KlInv, KTypeOK, VotesAreEarned, HeldIsLive, RangeIsKept, StartsIn
<1> QED BY <1>2, <1>3

LEMMA DeadStep ==
  ASSUME KlInv, VotesDead, UNCHANGED configured, odd' = ~odd
  PROVE  KlInv'
<1>0. KTypeOK
  BY DEF KlInv
<1>1. /\ dwell' = 0 /\ hot' = 0 /\ release' = 0 /\ cool' = 0
      /\ vote' \in Vote /\ configured' \in Configured \cup {NoCoefficient} /\ odd' \in BOOLEAN
      /\ beta' = Seeded /\ live' = live /\ tripped' = tripped
      /\ live' \in Nat \cup {NoCoefficient} /\ tripped' \in BOOLEAN
  BY <1>0 DEF VotesDead, Decayed, Holds, KTypeOK, Vote
<1>2. tripped => Seeded = beta
  BY SeededBounds DEF KlInv, HeldIsLive
<1>3. TrippedIsRaised'
  BY <1>1, <1>2 DEF KlInv, TrippedIsRaised, StartsIn, VotesDead
<1> QED BY <1>1, <1>3, SeededBounds, KlConstants
        DEF KlInv, KTypeOK, VotesAreEarned, HeldIsLive, RangeIsKept, StartsIn

LEMMA KlStep == KlInv /\ [KlNext]_klVars => KlInv'
<1> SUFFICES ASSUME KlInv, [KlNext]_klVars PROVE KlInv'
  OBVIOUS
<1>1. CASE UNCHANGED klVars
  BY <1>1 DEF klVars, KlInv, KTypeOK, VotesAreEarned, HeldIsLive, TrippedIsRaised,
     RangeIsKept, StartsIn
<1> QED BY <1>1, TripStep, ReleaseStep, DeadStep DEF KlNext

LEMMA KlAlways == KlSpec => []KlInv
BY KlStarts, KlStep, PTL DEF KlSpec

\* The trainer trains with what the controller holds; a tripped controller is above rest,
\* and one that starts in its range keeps to it.
THEOREM KlHolds == KlSpec => [](LiveIsCommitted /\ TrippedIsRaised /\ RangeIsKept)
<1>1. KlInv => LiveIsCommitted /\ TrippedIsRaised /\ RangeIsKept
  BY DEF KlInv, HeldIsLive, LiveIsCommitted
<1> QED BY <1>1, KlAlways, PTL

\* A move of the coefficient, by the vote it comes with.
LEMMA NoFlap ==
  ASSUME KlInv, KlNext, beta # 0, beta' # beta
  PROVE  /\ ~tripped => hot + 1 >= Dwell /\ vote' = "trip"
         /\ vote' = "trip" => beta' > beta \/ (~tripped /\ beta > Ceil)
         /\ vote' # "trip" => cool + 1 >= ReleasePatience /\ vote' = "release"
<1>0. Seeded = beta /\ KTypeOK /\ VotesAreEarned /\ beta \in Nat /\ beta > 0
  BY SeededBounds DEF KlInv
<1>1. CASE VotesTrip
  <2>1. beta' = Raised(beta) /\ vote' = "trip"
    BY <1>0, <1>1 DEF VotesTrip, Holds, Commits
  <2>2. ~tripped => hot + 1 >= Dwell
    BY <1>0, <1>1, KlConstants DEF VotesTrip, Holds, Enough, VotesAreEarned, KTypeOK
  <2>3. beta' > beta \/ (~tripped /\ beta > Ceil)
    BY <1>0, <2>1, RaisedBounds, KlConstants DEF KlInv, TrippedIsRaised
  <2> QED BY <2>1, <2>2, <2>3
<1>2. CASE VotesRelease
  <2>1. tripped /\ Enough(release, ReleasePatience) /\ vote' = "release"
    BY <1>0, <1>2 DEF VotesRelease, Holds
  <2>2. cool + 1 >= ReleasePatience
    BY <1>0, <2>1, KlConstants DEF Enough, VotesAreEarned, KTypeOK
  <2> QED BY <2>1, <2>2
<1>3. CASE VotesDead
  BY <1>0, <1>3 DEF VotesDead, Holds
<1> QED BY <1>1, <1>2, <1>3 DEF KlNext

\* The coefficient moves only when the patience of its direction is over.
THEOREM KlDoesNotFlap == KlSpec => NoFlapping
<1>1. KlInv /\ [KlNext]_klVars =>
        [beta # 0 /\ beta' # beta =>
           /\ ~tripped => hot + 1 >= Dwell /\ vote' = "trip"
           /\ vote' = "trip" => beta' > beta \/ (~tripped /\ beta > Ceil)
           /\ vote' # "trip" => cool + 1 >= ReleasePatience /\ vote' = "release"]_klVars
  BY NoFlap
<1> QED BY <1>1, KlAlways, PTL DEF KlSpec, NoFlapping

-----------------------------------------------------------------------------
(* GracefulSave.                                                           *)

\* A frame as far as the proof looks at it: the counts are not bounded here.
CountedFrame == [op : Op \cup {Handler}, pc : {"acquire", "locked", "release", "act"},
                 count : Nat, attached : BOOLEAN]

\* A handler that has counted its signal acts on a count the signals have reached; and no
\* other frame acts.
ActsOnWhatItCounted(f) ==
  /\ f.pc = "act" => f.op = Handler
  /\ f.op = Handler /\ f.pc \in {"release", "act"} => f.count > 0 /\ f.count <= count

GraceInv ==
  /\ stack \in Seq(CountedFrame) /\ count \in Nat /\ attached \in BOOLEAN
  /\ \A i \in 1 .. Len(stack) : ActsOnWhatItCounted(stack[i])
  /\ OneSigintDoesNotStop

LEMMA GraceStarts == GraceInit => GraceInv
<1>1. <<>> \in Seq(CountedFrame) /\ Len(<<>>) = 0
  OBVIOUS
<1>2. ASSUME GraceInit PROVE GraceInv
  <2>1. stack \in Seq(CountedFrame) /\ 1 .. Len(stack) = {}
    BY <1>1, <1>2 DEF GraceInit
  <2>2. count \in Nat /\ attached \in BOOLEAN /\ OneSigintDoesNotStop
    BY <1>2 DEF GraceInit, OneSigintDoesNotStop
  <2> QED BY <2>1, <2>2 DEF GraceInv
<1> QED BY <1>2

\* The frames under the innermost are those that were there.
LEMMA FrontFrames ==
  ASSUME stack \in Seq(CountedFrame), stack # <<>>
  PROVE  /\ Front(stack) \in Seq(CountedFrame)
         /\ \A i \in 1 .. Len(Front(stack)) : i \in 1 .. Len(stack) /\ Front(stack)[i] = stack[i]
BY DEF Front

\* A new innermost frame.
LEMMA NewFrame ==
  ASSUME stack \in Seq(CountedFrame), NEW op \in Op \cup {Handler}
  PROVE  /\ Frames(op) \in Seq(CountedFrame)
         /\ \A i \in 1 .. Len(Frames(op)) :
              \/ i \in 1 .. Len(stack) /\ Frames(op)[i] = stack[i]
              \/ Frames(op)[i].pc = "acquire"
<1> DEFINE f == [op |-> op, pc |-> "acquire", count |-> 0, attached |-> FALSE]
<1>1. f \in CountedFrame /\ f.pc = "acquire" /\ Frames(op) = Append(stack, f)
  BY DEF CountedFrame, Frames
<1> HIDE DEF f
<1> QED BY <1>1

LEMMA GraceStep == GraceInv /\ [GraceNext]_graceVars => GraceInv'
<1> SUFFICES ASSUME GraceInv, [GraceNext]_graceVars PROVE GraceInv'
  OBVIOUS
<1>0. /\ stack \in Seq(CountedFrame) /\ count \in Nat /\ attached \in BOOLEAN
      /\ \A i \in 1 .. Len(stack) : ActsOnWhatItCounted(stack[i])
      /\ OneSigintDoesNotStop
  BY DEF GraceInv
<1>a. stack # <<>> => Inner \in 1 .. Len(stack) /\ stack[Inner] \in CountedFrame
  BY <1>0 DEF Inner
<1>1. ASSUME NEW op \in Op \cup {Handler}, stack' = Frames(op),
             UNCHANGED <<count, attached, shouldStop>>
      PROVE  GraceInv'
  BY <1>0, <1>1, NewFrame DEF GraceInv, ActsOnWhatItCounted, OneSigintDoesNotStop
<1>2. ASSUME stack' = <<>>, UNCHANGED <<count, attached, shouldStop>> PROVE GraceInv'
  BY <1>0, <1>2 DEF GraceInv, OneSigintDoesNotStop
<1>3. ASSUME stack # <<>>, stack' = Front(stack), UNCHANGED <<count, attached>>,
             OneSigintDoesNotStop'
      PROVE  GraceInv'
  BY <1>0, <1>3, FrontFrames DEF GraceInv, ActsOnWhatItCounted
<1>4. ASSUME stack # <<>>, NEW f \in CountedFrame, stack' = [stack EXCEPT ![Inner] = f],
             count' \in Nat, count' >= count, ActsOnWhatItCounted(f)', attached' \in BOOLEAN,
             UNCHANGED shouldStop
      PROVE  GraceInv'
  <2>1. stack' \in Seq(CountedFrame) /\ Len(stack') = Len(stack)
    BY <1>0, <1>a, <1>4
  <2>2. ASSUME NEW i \in 1 .. Len(stack') PROVE ActsOnWhatItCounted(stack[i])'
    <3>1. CASE i = Inner
      BY <1>0, <1>a, <1>4, <3>1 DEF ActsOnWhatItCounted
    <3>2. CASE i # Inner
      <4>1. stack'[i] = stack[i] /\ i \in 1 .. Len(stack) /\ stack[i] \in CountedFrame
        BY <1>0, <1>a, <1>4, <2>1, <3>2
      <4>2. stack[i].count \in Nat
        BY <4>1 DEF CountedFrame
      <4> QED BY <1>0, <1>4, <4>1, <4>2 DEF ActsOnWhatItCounted
    <3> QED BY <3>1, <3>2
  <2>3. OneSigintDoesNotStop'
    BY <1>0, <1>4 DEF OneSigintDoesNotStop
  <2> QED BY <1>4, <2>1, <2>2, <2>3 DEF GraceInv
<1>5. ASSUME NEW op \in Op, OpCalled(op) PROVE GraceInv'
  BY <1>1, <1>5 DEF OpCalled
<1>6. CASE Sigint
  BY <1>1, <1>2, <1>6 DEF Sigint, Interrupted
<1>7. ASSUME NEW pc \in {"locked", "release", "act"}, stack # <<>>, GoesTo(pc),
             UNCHANGED <<count, shouldStop>>, attached' \in BOOLEAN,
             pc = "act" => stack[Inner].op = Handler,
             pc # "locked" /\ stack[Inner].op = Handler => stack[Inner].pc = "release"
      PROVE  GraceInv'
  <2>0. PICK f : f = [stack[Inner] EXCEPT !.pc = pc]
    OBVIOUS
  <2>1. f \in CountedFrame /\ f.pc = pc /\ f.op = stack[Inner].op /\ f.count = stack[Inner].count
    BY <1>a, <1>7, <2>0 DEF CountedFrame
  <2>2. stack' = [stack EXCEPT ![Inner] = f]
    BY <1>7, <2>0 DEF GoesTo
  <2>3. ActsOnWhatItCounted(stack[Inner])
    BY <1>0, <1>a, <1>7
  <2>4. ActsOnWhatItCounted(f)'
    BY <1>7, <2>1, <2>3 DEF ActsOnWhatItCounted
  <2>5. count' \in Nat /\ count' >= count /\ UNCHANGED shouldStop
    BY <1>0, <1>7
  <2> QED BY <1>4, <1>7, <2>1, <2>2, <2>4, <2>5
<1>8. CASE Acquires
  BY <1>0, <1>7, <1>8 DEF Acquires, InnerAt
<1>9. CASE Sets
  BY <1>0, <1>7, <1>9 DEF Sets, InnerAt
<1>10. CASE Counts
  <2>0. /\ stack # <<>> /\ stack[Inner].op = Handler /\ count' = count + 1
        /\ UNCHANGED <<attached, shouldStop>>
    BY <1>10 DEF Counts, InnerAt, NewCount
  <2>1. PICK f : f = [stack[Inner] EXCEPT !.pc = "release", !.count = count + 1,
                                          !.attached = attached]
    OBVIOUS
  <2>2. f \in CountedFrame /\ f.pc = "release" /\ f.count = count + 1
    <3>1. count + 1 \in Nat /\ attached \in BOOLEAN
      BY <1>0
    <3>2. stack[Inner] \in CountedFrame
      BY <1>a, <2>0
    <3> QED BY <2>1, <3>1, <3>2 DEF CountedFrame
  <2>3. stack' = [stack EXCEPT ![Inner] = f]
    BY <1>10, <2>1 DEF Counts, NewCount
  <2>4. ActsOnWhatItCounted(f)'
    BY <1>0, <2>0, <2>2 DEF ActsOnWhatItCounted
  <2>5. count' \in Nat /\ count' >= count /\ attached' \in BOOLEAN
    BY <1>0, <2>0
  <2> QED BY <1>4, <2>0, <2>2, <2>3, <2>4, <2>5
<1>11. CASE Releases
  <2>1. /\ stack # <<>> /\ stack[Inner].pc = "release" /\ UNCHANGED <<count, attached, shouldStop>>
        /\ IF stack[Inner].op = Handler THEN GoesTo("act") ELSE stack' = Front(stack)
    BY <1>11 DEF Releases, InnerAt
  <2>2. OneSigintDoesNotStop'
    BY <1>0, <2>1 DEF OneSigintDoesNotStop
  <2> QED BY <1>0, <1>3, <1>7, <2>1, <2>2
<1>12. CASE Acts
  <2>1. stack # <<>> /\ stack[Inner].pc = "act" /\ UNCHANGED <<attached, count>>
    BY <1>12 DEF Acts, InnerAt
  <2>2. CASE stack[Inner].attached
    <3>1. stack' = Front(stack) /\ shouldStop' = (shouldStop \/ ~OnlySaves(stack[Inner]))
      BY <1>12, <2>2 DEF Acts
    <3>2. stack[Inner].count > 0 /\ stack[Inner].count <= count /\ stack[Inner].count \in Nat
      BY <1>0, <1>a, <2>1 DEF ActsOnWhatItCounted, CountedFrame
    <3>3. ~OnlySaves(stack[Inner]) => count >= 2
      BY <1>0, <2>2, <3>2 DEF OnlySaves
    <3>4. OneSigintDoesNotStop'
      BY <1>0, <2>1, <3>1, <3>3 DEF OneSigintDoesNotStop
    <3> QED BY <1>3, <2>1, <3>1, <3>4
  <2>3. CASE ~stack[Inner].attached
    BY <1>2, <1>12, <2>1, <2>3 DEF Acts, Interrupted
  <2> QED BY <2>2, <2>3
<1>13. CASE TrainerSteps \/ UNCHANGED graceVars
  BY <1>0, <1>13 DEF TrainerSteps, graceVars, GraceInv, ActsOnWhatItCounted, OneSigintDoesNotStop
<1> QED BY <1>5, <1>6, <1>8, <1>9, <1>10, <1>11, <1>12, <1>13 DEF GraceNext, MainThread

\* One SIGINT does not end a training, whatever frames it interrupts.
THEOREM GraceOneSigint == GraceSpec => []OneSigintDoesNotStop
<1>1. GraceInv => OneSigintDoesNotStop
  BY DEF GraceInv
<1> QED BY <1>1, GraceStarts, GraceStep, PTL DEF GraceSpec

\* The handlers that have still to count their signal.
Uncounted == {i \in 1 .. Len(stack) : /\ stack[i].op = Handler
                                      /\ stack[i].pc \in {"acquire", "locked"}}

\* Every signal is counted once: by a handler that has, or will have, counted it.
GraceBounds ==
  /\ {installed, shouldSave, shouldStop, caught} \subseteq BOOLEAN
  /\ outcome \in {"running", "stopped", "interrupted"}
  /\ signals \in 0 .. Signals /\ Len(stack) <= signals + 1
  /\ count + Cardinality(Uncounted) <= signals
  /\ \A i \in 1 .. Len(stack) : stack[i].count <= count
  /\ lock \in 0 .. Len(stack)
  /\ lock # 0 => stack[lock].pc \in {"locked", "release"}

LEMMA UncountedAreFew ==
  ASSUME stack \in Seq(CountedFrame)
  PROVE  IsFiniteSet(Uncounted) /\ Cardinality(Uncounted) \in Nat
<1>1. Uncounted \in SUBSET (1 .. Len(stack)) /\ Len(stack) \in Nat
  BY DEF Uncounted
<1>2. IsFiniteSet(1 .. Len(stack))
  BY <1>1, FS_Interval, 1 \in Int, Len(stack) \in Int
<1> QED BY <1>1, <1>2, FS_Subset, FS_CardinalityType

\* Steps of the innermost frame that do not count.
LEMMA InnerGoes ==
  ASSUME GraceInv, GraceBounds, stack # <<>>, NEW pc \in {"locked", "release", "act"}, GoesTo(pc),
         stack[Inner].op = Handler =>
           (pc = "locked" <=> stack[Inner].pc \in {"acquire", "locked"})
  PROVE  /\ Len(stack') = Len(stack) /\ Inner \in 1 .. Len(stack)
         /\ Uncounted' = Uncounted
         /\ stack'[Inner].pc = pc
         /\ \A i \in 1 .. Len(stack) : /\ stack'[i].count = stack[i].count
                                       /\ i # Inner => stack'[i] = stack[i]
<1>1. /\ stack \in Seq(CountedFrame) /\ Inner \in 1 .. Len(stack)
      /\ \A i \in 1 .. Len(stack) : stack[i] \in CountedFrame
  BY DEF GraceInv, Inner
<1>2. PICK f : f = [stack[Inner] EXCEPT !.pc = pc]
  OBVIOUS
<1>3. f \in CountedFrame /\ f.pc = pc /\ f.op = stack[Inner].op /\ f.count = stack[Inner].count
  BY <1>1, <1>2 DEF CountedFrame
<1>4. stack' = [stack EXCEPT ![Inner] = f]
  BY <1>2 DEF GoesTo
<1>5. /\ Len(stack') = Len(stack) /\ stack'[Inner] = f
      /\ \A i \in 1 .. Len(stack) : i # Inner => stack'[i] = stack[i]
  BY <1>1, <1>4
<1>6. ASSUME NEW i \in 1 .. Len(stack)
      PROVE  /\ stack'[i].count = stack[i].count
             /\ i \in Uncounted' <=> i \in Uncounted
  <2>1. CASE i = Inner
    BY <1>1, <1>3, <1>5, <2>1 DEF Uncounted
  <2>2. CASE i # Inner
    BY <1>5, <2>2 DEF Uncounted
  <2> QED BY <2>1, <2>2
<1>7. Uncounted' = Uncounted
  <2>1. Uncounted \subseteq 1 .. Len(stack) /\ Uncounted' \subseteq 1 .. Len(stack)
    BY <1>5 DEF Uncounted
  <2> QED BY <1>6, <2>1
<1> QED BY <1>1, <1>3, <1>5, <1>6, <1>7

\* The innermost frame leaves.
LEMMA InnerLeaves ==
  ASSUME GraceInv, GraceBounds, stack # <<>>, stack' = Front(stack),
         stack[Inner].pc \in {"release", "act"}
  PROVE  /\ Len(stack') = Len(stack) - 1 /\ Inner = Len(stack)
         /\ Uncounted' = Uncounted
         /\ \A i \in 1 .. Len(stack') : i \in 1 .. Len(stack) /\ stack'[i] = stack[i]
<1>1. stack \in Seq(CountedFrame) /\ Inner = Len(stack) /\ Inner \in 1 .. Len(stack)
  BY DEF GraceInv, Inner
<1>2. /\ Len(stack') = Len(stack) - 1
      /\ \A i \in 1 .. Len(stack') : i \in 1 .. Len(stack) /\ stack'[i] = stack[i]
  BY <1>1 DEF Front
<1>3. Inner \notin Uncounted
  BY DEF Uncounted
<1>4. \A i \in Uncounted : i \in 1 .. Len(stack')
  BY <1>1, <1>2, <1>3 DEF Uncounted
<1>5. Uncounted' = Uncounted
  BY <1>2, <1>4 DEF Uncounted
<1> QED BY <1>1, <1>2, <1>5

\* A new frame, of a handler that has to count or of a call.
LEMMA FrameComes ==
  ASSUME GraceInv, GraceBounds, NEW op \in Op \cup {Handler}, stack' = Frames(op)
  PROVE  /\ Len(stack') = Len(stack) + 1
         /\ stack'[Len(stack) + 1].count = 0
         /\ \A i \in 1 .. Len(stack) : stack'[i] = stack[i]
         /\ Uncounted' = IF op = Handler THEN Uncounted \cup {Len(stack) + 1} ELSE Uncounted
<1> DEFINE f == [op |-> op, pc |-> "acquire", count |-> 0, attached |-> FALSE]
<1>1. stack \in Seq(CountedFrame) /\ f \in CountedFrame /\ stack' = Append(stack, f)
  BY DEF GraceInv, CountedFrame, Frames
<1>2. f.op = op /\ f.pc = "acquire" /\ f.count = 0
  OBVIOUS
<1> HIDE DEF f
<1>3. /\ Len(stack') = Len(stack) + 1 /\ stack'[Len(stack) + 1] = f
      /\ \A i \in 1 .. Len(stack) : stack'[i] = stack[i]
      /\ Len(stack) \in Nat
  BY <1>1
<1>4. \A i \in 1 .. Len(stack') : i \in 1 .. Len(stack) \/ i = Len(stack) + 1
  BY <1>3
<1>5. \A i \in 1 .. Len(stack) : i \in Uncounted' <=> i \in Uncounted
  BY <1>3 DEF Uncounted
<1>6. Len(stack) + 1 \in Uncounted' <=> op = Handler
  BY <1>2, <1>3 DEF Uncounted
<1>7. Uncounted \subseteq 1 .. Len(stack) /\ Uncounted' \subseteq 1 .. Len(stack')
  BY DEF Uncounted
<1>8. \A i : i \in Uncounted' <=> i \in Uncounted \/ (op = Handler /\ i = Len(stack) + 1)
  <2> SUFFICES ASSUME NEW i
               PROVE  i \in Uncounted' <=> i \in Uncounted \/ (op = Handler /\ i = Len(stack) + 1)
    OBVIOUS
  <2>1. CASE i \in 1 .. Len(stack)
    <3>1. i # Len(stack) + 1
      BY <1>3, <2>1
    <3> QED BY <1>5, <2>1, <3>1
  <2>2. CASE i = Len(stack) + 1
    <3>1. i \notin 1 .. Len(stack)
      BY <1>3, <2>2
    <3>2. i \notin Uncounted
      BY <1>7, <3>1
    <3> QED BY <1>6, <2>2, <3>2
  <2>3. CASE i \notin 1 .. Len(stack) /\ i # Len(stack) + 1
    <3>1. i \notin Uncounted /\ i \notin Uncounted'
      BY <1>4, <1>7, <2>3
    <3> QED BY <2>3, <3>1
  <2> QED BY <2>1, <2>2, <2>3
<1>9. Uncounted' = IF op = Handler THEN Uncounted \cup {Len(stack) + 1} ELSE Uncounted
  BY <1>8
<1> QED BY <1>2, <1>3, <1>9

LEMMA NothingIsAFew == \A n \in Nat : 0 <= n + 1 /\ 0 \in 0 .. 0
  OBVIOUS

\* An exception leaves nothing behind.
LEMMA NoFramesLeft ==
  ASSUME GraceInv, GraceBounds, stack' = <<>>, lock' = 0, count' = count,
         signals' \in {signals, signals + 1}, signals' \in 0 .. Signals,
         {installed, shouldSave, shouldStop, caught}' \subseteq BOOLEAN,
         outcome' \in {"running", "stopped", "interrupted"}
  PROVE  GraceBounds'
<1>1. Len(stack') = 0 /\ 1 .. Len(stack') = {}
  OBVIOUS
<1>2. Uncounted' = {} /\ Cardinality(Uncounted') = 0
  BY <1>1, FS_EmptySet DEF Uncounted
<1>3. Cardinality(Uncounted) \in Nat /\ count \in Nat /\ signals \in Nat
  BY UncountedAreFew DEF GraceInv, GraceBounds
<1>4. count + 0 <= signals'
  BY <1>3 DEF GraceBounds
<1>5. Len(stack') <= signals' + 1 /\ lock' \in 0 .. Len(stack')
  <2>1. signals' \in Nat
    BY <1>3
  <2>2. lock' = 0
    OBVIOUS
  <2>3. 0 <= signals' + 1 /\ 0 \in 0 .. 0
    BY <2>1, NothingIsAFew, Zenon
  <2> QED BY <1>1, <2>2, <2>3, Zenon
<1>6. \A i \in 1 .. Len(stack') : stack'[i].count <= count'
  BY <1>1
<1>7. count' + Cardinality(Uncounted') <= signals'
  BY <1>2, <1>4
<1> QED BY <1>5, <1>6, <1>7 DEF GraceBounds

LEMMA GraceBoundsKept ==
  GraceInv /\ GraceBounds /\ [GraceNext]_graceVars => GraceBounds'
<1> SUFFICES ASSUME GraceInv, GraceBounds, [GraceNext]_graceVars PROVE GraceBounds'
  OBVIOUS
<1>0. /\ stack \in Seq(CountedFrame) /\ Len(stack) \in Nat /\ count \in Nat
      /\ attached \in BOOLEAN /\ signals \in Nat /\ Signals \in Nat /\ signals <= Signals
      /\ \A i \in 1 .. Len(stack) : stack[i] \in CountedFrame /\ stack[i].count \in Nat
      /\ IsFiniteSet(Uncounted) /\ Cardinality(Uncounted) \in Nat
      /\ stack # <<>> => Inner \in 1 .. Len(stack)
  <2>1. stack \in Seq(CountedFrame) /\ Len(stack) \in Nat /\ count \in Nat /\ attached \in BOOLEAN
    BY DEF GraceInv
  <2>2. signals \in Nat /\ Signals \in Nat /\ signals <= Signals
    BY SignalsAssumption DEF GraceBounds
  <2>3. \A i \in 1 .. Len(stack) : stack[i] \in CountedFrame
    BY <2>1
  <2>4. \A i \in 1 .. Len(stack) : stack[i].count \in Nat
    BY <2>3 DEF CountedFrame
  <2>5. stack # <<>> => Inner \in 1 .. Len(stack)
    BY <2>1 DEF Inner
  <2>6. IsFiniteSet(Uncounted) /\ Cardinality(Uncounted) \in Nat
    BY <2>1, UncountedAreFew
  <2> QED BY <2>1, <2>2, <2>3, <2>4, <2>5, <2>6
<1>1. ASSUME NEW op \in Op, OpCalled(op) PROVE GraceBounds'
  <2>1. /\ stack = <<>> /\ stack' = Frames(op) /\ op # Handler
        /\ UNCHANGED <<lock, installed, count, shouldSave, shouldStop, outcome, signals, caught>>
    BY <1>1 DEF OpCalled, Op, Handler
  <2>2. Len(stack) = 0 /\ lock = 0
    BY <2>1 DEF GraceBounds
  <2>3. /\ Len(stack') = 1 /\ stack'[1].count = 0 /\ Uncounted' = Uncounted
    BY <2>1, <2>2, FrameComes
  <2> QED BY <1>0, <2>1, <2>2, <2>3 DEF GraceBounds
<1>2. CASE Sigint
  <2>1. /\ signals' = signals + 1 /\ signals < Signals
        /\ caught' \in BOOLEAN
        /\ UNCHANGED <<installed, count, shouldSave, shouldStop>>
    BY <1>2 DEF Sigint, GraceBounds
  <2>2. signals' \in 0 .. Signals
    BY <1>0, <2>1
  <2>3. CASE installed
    <3>1. stack' = Frames(Handler) /\ UNCHANGED <<lock, outcome>>
      BY <1>2, <2>3 DEF Sigint
    <3>2. /\ Len(stack') = Len(stack) + 1 /\ stack'[Len(stack) + 1].count = 0
          /\ \A i \in 1 .. Len(stack) : stack'[i] = stack[i]
          /\ Uncounted' = Uncounted \cup {Len(stack) + 1}
      BY <3>1, FrameComes
    <3>3. Len(stack) + 1 \notin Uncounted
      BY <1>0 DEF Uncounted
    <3>4. Cardinality(Uncounted') = Cardinality(Uncounted) + 1
      BY <1>0, <3>2, <3>3, FS_AddElement
    <3>5. count' + Cardinality(Uncounted') <= signals'
      BY <1>0, <2>1, <3>4 DEF GraceBounds
    <3>6. \A i \in 1 .. Len(stack') : stack'[i].count <= count'
      <4>1. \A i \in 1 .. Len(stack) : stack'[i].count <= count'
        BY <2>1, <3>2 DEF GraceBounds
      <4>2. stack'[Len(stack) + 1].count <= count'
        BY <1>0, <2>1, <3>2
      <4>3. \A i \in 1 .. Len(stack') : i \in 1 .. Len(stack) \/ i = Len(stack) + 1
        BY <1>0, <3>2
      <4> QED BY <4>1, <4>2, <4>3
    <3>7. /\ lock' \in 0 .. Len(stack')
          /\ lock' # 0 => stack'[lock'].pc \in {"locked", "release"}
      BY <1>0, <3>1, <3>2 DEF GraceBounds
    <3> QED BY <1>0, <2>1, <2>2, <3>1, <3>2, <3>5, <3>6, <3>7 DEF GraceBounds
  <2>4. CASE ~installed
    BY <1>2, <2>1, <2>2, <2>4, NoFramesLeft DEF Sigint, Interrupted, GraceBounds
  <2> QED BY <2>3, <2>4
<1>3. ASSUME NEW pc \in {"locked", "release", "act"}, stack # <<>>, GoesTo(pc),
             stack[Inner].op = Handler =>
               (pc = "locked" <=> stack[Inner].pc \in {"acquire", "locked"}),
             UNCHANGED <<count, signals, shouldSave, shouldStop, outcome, caught>>,
             installed' \in BOOLEAN,
             \/ lock' = 0
             \/ lock' = Inner /\ pc = "locked"
             \/ lock' = lock /\ pc = "release"
      PROVE  GraceBounds'
  <2>1. /\ Len(stack') = Len(stack) /\ Inner \in 1 .. Len(stack)
        /\ Uncounted' = Uncounted
        /\ stack'[Inner].pc = pc
        /\ \A i \in 1 .. Len(stack) : /\ stack'[i].count = stack[i].count
                                      /\ i # Inner => stack'[i] = stack[i]
    BY <1>3, InnerGoes
  <2>2. /\ lock' \in 0 .. Len(stack')
        /\ lock' # 0 => stack'[lock'].pc \in {"locked", "release"}
    BY <1>0, <1>3, <2>1 DEF GraceBounds
  <2>3. count' + Cardinality(Uncounted') <= signals'
    BY <1>3, <2>1 DEF GraceBounds
  <2> QED BY <1>3, <2>1, <2>2, <2>3 DEF GraceBounds
<1>4. ASSUME stack # <<>>, stack' = Front(stack), stack[Inner].pc \in {"release", "act"},
             UNCHANGED <<count, signals, installed, outcome, caught>>,
             {shouldSave, shouldStop}' \subseteq BOOLEAN,
             lock' = 0 \/ (lock' = lock /\ stack[Inner].pc = "act")
      PROVE  GraceBounds'
  <2>1. /\ Len(stack') = Len(stack) - 1 /\ Inner = Len(stack)
        /\ Uncounted' = Uncounted
        /\ \A i \in 1 .. Len(stack') : i \in 1 .. Len(stack) /\ stack'[i] = stack[i]
    BY <1>4, InnerLeaves
  <2>2. /\ lock' \in 0 .. Len(stack')
        /\ lock' # 0 => stack'[lock'].pc \in {"locked", "release"}
    BY <1>0, <1>4, <2>1 DEF GraceBounds
  <2>3. count' + Cardinality(Uncounted') <= signals' /\ Len(stack') <= signals' + 1
    BY <1>0, <1>4, <2>1 DEF GraceBounds
  <2> QED BY <1>4, <2>1, <2>2, <2>3 DEF GraceBounds
<1>5. CASE Acquires
  <2>1. /\ stack # <<>> /\ stack[Inner].pc = "acquire" /\ lock' = Inner /\ GoesTo("locked")
        /\ UNCHANGED <<count, signals, shouldSave, shouldStop, outcome, caught, installed>>
    BY <1>5 DEF Acquires, InnerAt
  <2>2. installed' \in BOOLEAN
    BY <2>1 DEF GraceBounds
  <2> QED BY <1>3, <2>1, <2>2
<1>6. CASE Sets
  <2>1. /\ stack # <<>> /\ stack[Inner].op # Handler /\ lock' = lock /\ GoesTo("release")
        /\ UNCHANGED <<count, signals, shouldSave, shouldStop, outcome, caught>>
        /\ installed' \in BOOLEAN
    BY <1>6 DEF Sets, InnerAt, GraceBounds
  <2> QED BY <1>3, <2>1
<1>7. CASE Counts
  <2>1. /\ stack # <<>> /\ stack[Inner].op = Handler /\ stack[Inner].pc = "locked"
        /\ count' = count + 1
        /\ stack' = [stack EXCEPT ![Inner].pc = "release", ![Inner].count = count + 1,
                                  ![Inner].attached = attached]
        /\ UNCHANGED <<lock, signals, installed, shouldSave, shouldStop, outcome, caught>>
    BY <1>7 DEF Counts, InnerAt, NewCount
  <2>2. PICK f : f = [stack[Inner] EXCEPT !.pc = "release", !.count = count + 1,
                                          !.attached = attached]
    OBVIOUS
  <2>3. f.pc = "release" /\ f.count = count + 1
    BY <1>0, <2>1, <2>2 DEF CountedFrame
  <2>4. stack' = [stack EXCEPT ![Inner] = f]
    BY <2>1, <2>2
  <2>5. /\ Len(stack') = Len(stack) /\ stack'[Inner] = f
        /\ \A i \in 1 .. Len(stack) : i # Inner => stack'[i] = stack[i]
    <3>1. Inner \in 1 .. Len(stack)
      BY <1>0, <2>1
    <3>2. Inner \in DOMAIN stack /\ DOMAIN stack = 1 .. Len(stack)
      BY <1>0, <3>1
    <3>3. stack[Inner] \in CountedFrame
      BY <1>0, <3>1
    <3>4. f \in CountedFrame
      <4>1. PICK g \in CountedFrame : g = stack[Inner]
        BY <3>3
      <4>2. f = [g EXCEPT !.pc = "release", !.count = count + 1, !.attached = attached]
        BY <2>2, <4>1
      <4>3. count + 1 \in Nat /\ attached \in BOOLEAN
        BY <1>0
      <4> QED BY <4>2, <4>3 DEF CountedFrame
    <3> HIDE <2>2
    <3> QED BY <1>0, <2>4, <3>1, <3>2, <3>4
  <2>6. Inner \in Uncounted /\ Inner \notin Uncounted'
    BY <1>0, <2>1, <2>3, <2>5 DEF Uncounted
  <2>7. \A i \in 1 .. Len(stack) : i # Inner => (i \in Uncounted' <=> i \in Uncounted)
    BY <2>5 DEF Uncounted
  <2>8. Uncounted \subseteq 1 .. Len(stack) /\ Uncounted' \subseteq 1 .. Len(stack)
    BY <2>5 DEF Uncounted
  <2>9. Uncounted' = Uncounted \ {Inner}
    BY <2>6, <2>7, <2>8
  <2>10. Cardinality(Uncounted') = Cardinality(Uncounted) - 1
    BY <1>0, <2>6, <2>9, FS_RemoveElement
  <2>11. count' + Cardinality(Uncounted') <= signals'
    BY <1>0, <2>1, <2>10 DEF GraceBounds
  <2>12. \A i \in 1 .. Len(stack') : stack'[i].count <= count'
    <3>1. \A i \in 1 .. Len(stack) : stack[i].count <= count + 1
      BY <1>0 DEF GraceBounds
    <3> QED BY <1>0, <2>1, <2>3, <2>5, <3>1
  <2>13. /\ lock' \in 0 .. Len(stack')
         /\ lock' # 0 => stack'[lock'].pc \in {"locked", "release"}
    BY <1>0, <2>1, <2>3, <2>5 DEF GraceBounds
  <2> QED BY <1>0, <2>1, <2>5, <2>11, <2>12, <2>13 DEF GraceBounds
<1>8. CASE Releases
  <2>1. /\ stack # <<>> /\ stack[Inner].pc = "release" /\ lock' = 0
        /\ UNCHANGED <<count, signals, shouldSave, shouldStop, outcome, caught, installed>>
        /\ IF stack[Inner].op = Handler THEN GoesTo("act") ELSE stack' = Front(stack)
    BY <1>8 DEF Releases, InnerAt
  <2>2. installed' \in BOOLEAN /\ {shouldSave, shouldStop}' \subseteq BOOLEAN
    BY <2>1 DEF GraceBounds
  <2>3. CASE stack[Inner].op = Handler
    BY <1>3, <2>1, <2>2, <2>3
  <2>4. CASE stack[Inner].op # Handler
    BY <1>4, <2>1, <2>2, <2>4
  <2> QED BY <2>3, <2>4
<1>9. CASE Acts
  <2>1. /\ stack # <<>> /\ stack[Inner].pc = "act"
        /\ UNCHANGED <<installed, count, signals, caught>>
    BY <1>9 DEF Acts, InnerAt
  <2>2. CASE stack[Inner].attached
    <3>1. /\ stack' = Front(stack) /\ UNCHANGED <<lock, outcome>>
          /\ {shouldSave, shouldStop}' \subseteq BOOLEAN
      BY <1>9, <2>2 DEF Acts, GraceBounds
    <3> QED BY <1>4, <2>1, <3>1
  <2>3. CASE ~stack[Inner].attached
    BY <1>9, <2>1, <2>3, NoFramesLeft DEF Acts, Interrupted, GraceBounds
  <2> QED BY <2>2, <2>3
<1>10. CASE TrainerSteps \/ UNCHANGED graceVars
  BY <1>10 DEF TrainerSteps, graceVars, GraceBounds, Uncounted
<1> QED BY <1>1, <1>2, <1>5, <1>6, <1>7, <1>8, <1>9, <1>10 DEF GraceNext, MainThread

LEMMA GraceBoundsStart == GraceInit => GraceBounds
<1> SUFFICES ASSUME GraceInit PROVE GraceBounds
  OBVIOUS
<1>1. Len(stack) = 0 /\ 1 .. Len(stack) = {}
  BY DEF GraceInit
<1>2. Uncounted = {} /\ Cardinality(Uncounted) = 0
  BY <1>1, FS_EmptySet DEF Uncounted
<1>3. /\ {installed, shouldSave, shouldStop, caught} \subseteq BOOLEAN
      /\ outcome \in {"running", "stopped", "interrupted"}
  BY DEF GraceInit
<1>4. signals = 0 /\ count = 0 /\ lock = 0 /\ Signals \in Nat
  BY SignalsAssumption DEF GraceInit
<1>5. signals \in 0 .. Signals /\ Len(stack) <= signals + 1 /\ lock \in 0 .. Len(stack)
      /\ count + Cardinality(Uncounted) <= signals
  BY <1>1, <1>2, <1>4
<1> QED BY <1>1, <1>3, <1>4, <1>5 DEF GraceBounds

LEMMA GraceIsTyped == GraceInv /\ GraceBounds => GTypeOK
<1> SUFFICES ASSUME GraceInv, GraceBounds PROVE GTypeOK
  OBVIOUS
<1>1. /\ stack \in Seq(CountedFrame) /\ Len(stack) \in Nat /\ count \in Nat
      /\ signals \in Nat /\ Signals \in Nat /\ signals <= Signals
      /\ attached \in BOOLEAN
      /\ Cardinality(Uncounted) \in Nat /\ DOMAIN stack = 1 .. Len(stack)
  BY SignalsAssumption, UncountedAreFew DEF GraceInv, GraceBounds
<1>2. count <= Signals /\ Len(stack) <= Signals + 1
  BY <1>1 DEF GraceBounds
<1>3. ASSUME NEW i \in 1 .. Len(stack) PROVE stack[i] \in Frame
  <2>1. stack[i] \in CountedFrame /\ stack[i].count <= count
    BY <1>1 DEF GraceBounds
  <2>2. stack[i].count \in 0 .. Signals
    BY <1>1, <1>2, <2>1 DEF CountedFrame
  <2> QED BY <2>1, <2>2 DEF CountedFrame, Frame
<1> QED BY <1>1, <1>2, <1>3 DEF GraceBounds, GTypeOK

\* No more signals are counted than were sent, and there are no more handlers under way; the
\* lock is held by a frame that is still there (GracefulSaveHandler).
THEOREM GraceStaysTyped == GraceSpec => []GTypeOK
BY GraceStarts, GraceStep, GraceBoundsStart, GraceBoundsKept, GraceIsTyped, PTL DEF GraceSpec

-----------------------------------------------------------------------------
(* TrainMetrics.                                                           *)

Generator == [pc : {"polling", "checking", "over"}, lastStep : Int, idle : Nat]

\* Rows come in the order of their steps.
RowsInOrder ==
  /\ rows \in Seq(Nat)
  /\ \A j \in 1 .. Len(rows) : \A i \in 1 .. j : rows[i] <= rows[j]

\* lastStep is the last step of those a poll has found.
LastStepIsPolled ==
  /\ \A i \in 1 .. polled : rows[i] <= stream.lastStep
  /\ stream.lastStep # -1 => \E i \in 1 .. polled : rows[i] = stream.lastStep

MetricsInv ==
  /\ RowsInOrder
  /\ stream \in Generator /\ stream.lastStep >= -1
  /\ polled \in 0 .. Len(rows) /\ sent \subseteq 1 .. polled
  /\ LastStepIsPolled
  /\ StepsArrive

LEMMA MetricsStarts == MetricsInit => MetricsInv
<1> SUFFICES ASSUME MetricsInit PROVE MetricsInv
  OBVIOUS
<1>1. rows = <<>> /\ rows \in Seq(Nat) /\ Len(rows) = 0 /\ polled = 0 /\ sent = {}
  BY DEF MetricsInit
<1>2. stream \in Generator /\ stream.lastStep = -1
  BY DEF MetricsInit, Generator
<1> QED BY <1>1, <1>2 DEF MetricsInv, RowsInOrder, LastStepIsPolled, StepsArrive

\* The rows of the steps not sent yet are at the end, and the last one is of the last step.
LEMMA NewRowsAreLast ==
  ASSUME MetricsInv
  PROVE  /\ \A i \in NewRows : i \in 1 .. Len(rows) /\ i > polled
         /\ NewRows # {} => LastSent = rows[Len(rows)] /\ Len(rows) > 0
         /\ NewRows = {} => \A i \in 1 .. Len(rows) : rows[i] <= stream.lastStep
<1>0. /\ rows \in Seq(Nat) /\ polled \in 0 .. Len(rows) /\ stream.lastStep \in Int
      /\ \A j \in 1 .. Len(rows) : \A i \in 1 .. j : rows[i] <= rows[j]
      /\ \A i \in 1 .. polled : rows[i] <= stream.lastStep
  BY DEF MetricsInv, RowsInOrder, LastStepIsPolled, Generator
<1>1. NewRows = {i \in 1 .. Len(rows) : rows[i] > stream.lastStep}
  BY <1>0 DEF NewRows
<1>2. ASSUME NEW i \in NewRows PROVE i \in 1 .. Len(rows) /\ i > polled
  BY <1>0, <1>1, <1>2
<1>3. ASSUME NewRows # {} PROVE LastSent = rows[Len(rows)] /\ Len(rows) > 0
  <2>1. PICK i \in NewRows : TRUE
    BY <1>3
  <2>2. Len(rows) \in NewRows /\ Len(rows) > 0
    BY <1>0, <1>1, <2>1
  <2> DEFINE S == {rows[j] : j \in NewRows}
  <2>3. rows[Len(rows)] \in S /\ \A y \in S : rows[Len(rows)] >= y /\ y \in Nat
    BY <1>0, <1>1, <2>2
  <2>4. ASSUME NEW x \in S, \A y \in S : x >= y PROVE x = rows[Len(rows)]
    <3>1. x \in Nat /\ rows[Len(rows)] \in Nat
      BY <2>3
    <3>2. x >= rows[Len(rows)] /\ rows[Len(rows)] >= x
      BY <2>3, <2>4
    <3> QED BY <3>1, <3>2
  <2>5. LastSent = CHOOSE x \in S : \A y \in S : x >= y
    BY DEF LastSent, Max
  <2> QED BY <2>2, <2>3, <2>4, <2>5
<1>4. ASSUME NewRows = {} PROVE \A i \in 1 .. Len(rows) : rows[i] <= stream.lastStep
  BY <1>0, <1>1, <1>4
<1> QED BY <1>2, <1>3, <1>4

LEMMA PollsStep == MetricsInv /\ Polls => MetricsInv'
<1> SUFFICES ASSUME MetricsInv, Polls PROVE MetricsInv'
  OBVIOUS
<1>0. /\ rows \in Seq(Nat) /\ polled \in 0 .. Len(rows) /\ sent \subseteq 1 .. polled
      /\ stream \in Generator /\ stream.lastStep \in Int /\ stream.lastStep >= -1
      /\ \A j \in 1 .. Len(rows) : \A i \in 1 .. j : rows[i] <= rows[j]
      /\ \A i \in 1 .. Len(rows) : rows[i] \in Nat
  BY DEF MetricsInv, RowsInOrder, Generator
<1>1. polled' = Len(rows) /\ sent' = sent \cup NewRows /\ rows' = rows
  BY DEF Polls
<1>2. /\ stream' \in Generator
      /\ stream'.lastStep = IF NewRows = {} THEN stream.lastStep ELSE rows[Len(rows)]
  <2>1. CASE NewRows = {}
    <3>1. stream' = [stream EXCEPT !.pc = "checking", !.idle = stream.idle + 1]
      BY <2>1 DEF Polls, IdlePolls
    <3>2. stream.idle + 1 \in Nat
      BY <1>0 DEF Generator
    <3> QED BY <1>0, <2>1, <3>1, <3>2 DEF Generator
  <2>2. CASE NewRows # {}
    <3>1. stream' = [stream EXCEPT !.pc = "checking", !.lastStep = LastSent, !.idle = 0]
      BY <2>2 DEF Polls
    <3>2. LastSent = rows[Len(rows)] /\ LastSent \in Int
      BY <1>0, <2>2, NewRowsAreLast
    <3> QED BY <1>0, <2>2, <3>1, <3>2 DEF Generator
  <2> QED BY <2>1, <2>2
<1>3. LastStepIsPolled' /\ stream'.lastStep >= -1
  <2>1. CASE NewRows = {}
    <3>1. \A i \in 1 .. Len(rows) : rows[i] <= stream.lastStep
      BY <2>1, NewRowsAreLast
    <3>2. stream.lastStep # -1 => \E i \in 1 .. Len(rows) : rows[i] = stream.lastStep
      BY <1>0 DEF MetricsInv, LastStepIsPolled
    <3> QED BY <1>0, <1>1, <1>2, <2>1, <3>1, <3>2 DEF LastStepIsPolled
  <2>2. CASE NewRows # {}
    <3>1. Len(rows) > 0 /\ stream'.lastStep = rows[Len(rows)] /\ Len(rows) \in 1 .. Len(rows)
      BY <1>0, <1>2, <2>2, NewRowsAreLast
    <3> QED BY <1>0, <1>1, <3>1 DEF LastStepIsPolled
  <2> QED BY <2>1, <2>2
<1>4. StepsArrive'
  <2> SUFFICES ASSUME NEW i \in 1 .. Len(rows), \A j \in 1 .. i - 1 : rows[j] # rows[i],
                      i \notin NewRows
               PROVE  i \in sent
    BY <1>1 DEF StepsArrive
  <2>1. rows[i] <= stream.lastStep
    BY <1>0 DEF NewRows
  <2>2. PICK j \in 1 .. polled : rows[j] = stream.lastStep
    BY <1>0, <2>1 DEF MetricsInv, LastStepIsPolled
  <2>3. i <= j
    <3>1. CASE j < i
      <4>1. rows[j] <= rows[i] /\ j \in 1 .. i - 1
        BY <1>0, <3>1
      <4> QED BY <1>0, <2>1, <2>2, <4>1
    <3> QED BY <1>0, <3>1
  <2> QED BY <1>0, <2>3 DEF MetricsInv, StepsArrive
<1>5. sent' \subseteq 1 .. polled' /\ polled' \in 0 .. Len(rows')
  <2>1. NewRows \subseteq 1 .. Len(rows)
    BY NewRowsAreLast
  <2> QED BY <1>0, <1>1, <2>1
<1>6. RowsInOrder'
  BY <1>1 DEF MetricsInv, RowsInOrder
<1> QED BY <1>2, <1>3, <1>4, <1>5, <1>6 DEF MetricsInv

\* A row of the same step as the last, or of a later one.
LEMMA LogsStep ==
  ASSUME MetricsInv, NEW step \in Nat, LogsAt(step), step >= Latest
  PROVE  MetricsInv'
<1>0. /\ rows \in Seq(Nat) /\ polled \in 0 .. Len(rows)
      /\ \A j \in 1 .. Len(rows) : \A i \in 1 .. j : rows[i] <= rows[j]
      /\ \A i \in 1 .. Len(rows) : rows[i] \in Nat
  BY DEF MetricsInv, RowsInOrder
<1>1. rows' = Append(rows, step) /\ UNCHANGED <<stream, sent, polled>>
  BY DEF LogsAt
<1>2. /\ rows' \in Seq(Nat) /\ Len(rows') = Len(rows) + 1 /\ rows'[Len(rows) + 1] = step
      /\ \A i \in 1 .. Len(rows) : rows'[i] = rows[i]
  BY <1>0, <1>1
<1>3. \A i \in 1 .. Len(rows) : rows[i] <= step
  <2>1. CASE rows = <<>>
    BY <1>0, <2>1
  <2>2. CASE rows # <<>>
    <3>1. Len(rows) \in 1 .. Len(rows) /\ rows[Len(rows)] <= step
      BY <1>0, <2>2 DEF Latest
    <3> QED BY <1>0, <3>1
  <2> QED BY <2>1, <2>2
<1>4. RowsInOrder'
  <2> SUFFICES ASSUME NEW j \in 1 .. Len(rows'), NEW i \in 1 .. j PROVE rows'[i] <= rows'[j]
    BY <1>2 DEF RowsInOrder
  <2>1. CASE j = Len(rows) + 1
    <3>1. rows'[j] = step /\ (i = Len(rows) + 1 \/ i \in 1 .. Len(rows))
      BY <1>0, <1>2, <2>1
    <3> QED BY <1>0, <1>2, <1>3, <3>1
  <2>2. CASE j # Len(rows) + 1
    <3>1. j \in 1 .. Len(rows) /\ i \in 1 .. Len(rows)
      BY <1>0, <1>2, <2>2
    <3> QED BY <1>0, <1>2, <3>1
  <2> QED BY <2>1, <2>2
<1>5. \A i \in 1 .. polled : rows'[i] = rows[i]
  BY <1>0, <1>2
<1>6. LastStepIsPolled' /\ StepsArrive'
  <2>1. LastStepIsPolled'
    BY <1>1, <1>5 DEF MetricsInv, LastStepIsPolled
  <2>2. \A i \in 1 .. polled : \A j \in 1 .. i - 1 : rows'[j] = rows[j]
    BY <1>0, <1>5
  <2>3. StepsArrive'
    BY <1>1, <1>5, <2>2 DEF MetricsInv, StepsArrive
  <2> QED BY <2>1, <2>3
<1> QED BY <1>0, <1>1, <1>2, <1>4, <1>6 DEF MetricsInv

LEMMA MetricsStep == MetricsInv /\ [MetricsNext]_metricsVars => MetricsInv'
<1> SUFFICES ASSUME MetricsInv, [MetricsNext]_metricsVars PROVE MetricsInv'
  OBVIOUS
<1>0. Latest \in Nat
  BY DEF MetricsInv, RowsInOrder, Latest
<1>1. CASE Logs \/ LogsEvaluation
  BY <1>0, <1>1, LogsStep DEF Logs, LogsEvaluation
<1>2. CASE Checks
  <2>1. /\ stream' \in Generator /\ stream'.lastStep = stream.lastStep
        /\ UNCHANGED <<rows, sent, polled>>
    BY <1>2 DEF Checks, MetricsInv, Generator
  <2> QED BY <2>1 DEF MetricsInv, RowsInOrder, LastStepIsPolled, StepsArrive
<1>3. CASE UNCHANGED <<rows, stream, sent, polled>>
  BY <1>3 DEF MetricsInv, RowsInOrder, LastStepIsPolled, StepsArrive
<1> QED BY <1>1, <1>2, <1>3, PollsStep DEF MetricsNext, TrainerExits, metricsVars

LEMMA MetricsAlways == MetricsSpec => []MetricsInv
BY MetricsStarts, MetricsStep, PTL DEF MetricsSpec

\* The first row of each step a poll found has been sent, and none is sent again, whatever
\* steps evaluations log at.
THEOREM MetricsOnce == MetricsSpec => []StepsArrive /\ NoRowTwice
<1>1. MetricsInv => StepsArrive
  BY DEF MetricsInv
<1>2. MetricsInv /\ [MetricsNext]_metricsVars => [Polls => NewRows \cap sent = {}]_metricsVars
  BY NewRowsAreLast DEF MetricsInv
<1> QED BY <1>1, <1>2, MetricsAlways, PTL DEF MetricsSpec, NoRowTwice

\* No step is later than there are rows, and a generator that goes on has polls left.
MetricsBounds ==
  /\ trainer \in {"running", "exited"}
  /\ Len(rows) <= MaxRows /\ Latest <= Len(rows)
  /\ stream.idle <= MaxPolls /\ (stream.pc = "polling" => stream.idle < MaxPolls)

LEMMA MetricsBoundsKept ==
  MetricsInv /\ MetricsBounds /\ [MetricsNext]_metricsVars => MetricsBounds'
<1> SUFFICES ASSUME MetricsInv, MetricsBounds, [MetricsNext]_metricsVars PROVE MetricsBounds'
  OBVIOUS
<1>0. /\ rows \in Seq(Nat) /\ Len(rows) \in Nat /\ Latest \in Nat /\ stream \in Generator
      /\ MaxPolls \in Nat \ {0} /\ MaxRows \in Nat
  BY MetricsAssumption DEF MetricsInv, RowsInOrder, Latest
<1>1. CASE Logs \/ LogsEvaluation
  <2>1. PICK step \in Nat : LogsAt(step) /\ step <= Latest + 1
    BY <1>0, <1>1 DEF Logs, LogsEvaluation
  <2>2. rows' = Append(rows, step) /\ Len(rows) < MaxRows /\ UNCHANGED <<stream, trainer>>
    BY <2>1 DEF LogsAt
  <2>3. Len(rows') = Len(rows) + 1 /\ rows'[Len(rows) + 1] = step /\ rows' # <<>>
    BY <1>0, <2>2
  <2>4. Latest' = step
    BY <2>3 DEF Latest
  <2> QED BY <1>0, <2>1, <2>2, <2>3, <2>4 DEF MetricsBounds
<1>2. CASE Polls
  <2>1. UNCHANGED <<rows, trainer>> /\ stream.pc = "polling" /\ stream.idle \in Nat
    BY <1>0, <1>2 DEF Polls, Generator
  <2>2. stream'.pc = "checking" /\ stream'.idle \in {0, stream.idle + 1}
    BY <1>0, <1>2 DEF Polls, IdlePolls, Generator
  <2> QED BY <1>0, <2>1, <2>2 DEF MetricsBounds, Latest
<1>3. CASE Checks
  <2>1. UNCHANGED <<rows, trainer>> /\ stream.idle \in Nat /\ stream'.idle = stream.idle
    BY <1>0, <1>3 DEF Checks, Generator
  <2>2. stream'.pc = "polling" => stream.idle < MaxPolls
    BY <1>0, <1>3, <2>1 DEF Checks, Generator, Ends
  <2> QED BY <1>0, <2>1, <2>2 DEF MetricsBounds, Latest
<1>4. CASE TrainerExits \/ UNCHANGED metricsVars
  BY <1>4 DEF TrainerExits, metricsVars, MetricsBounds, Latest
<1> QED BY <1>1, <1>2, <1>3, <1>4 DEF MetricsNext

LEMMA MetricsBoundsStart == MetricsInit => MetricsBounds
<1> SUFFICES ASSUME MetricsInit PROVE MetricsBounds
  OBVIOUS
<1>1. rows = <<>> /\ Len(rows) = 0 /\ Latest = 0
  BY DEF MetricsInit, Latest
<1> QED BY <1>1, MetricsAssumption DEF MetricsInit, MetricsBounds

LEMMA MetricsIsTyped == MetricsInv /\ MetricsBounds => MetricsTypeOK
<1> SUFFICES ASSUME MetricsInv, MetricsBounds PROVE MetricsTypeOK
  OBVIOUS
<1>1. /\ rows \in Seq(Nat) /\ Len(rows) \in Nat /\ MaxRows \in Nat /\ MaxPolls \in Nat
      /\ DOMAIN rows = 1 .. Len(rows)
      /\ \A i \in 1 .. Len(rows) : rows[i] \in Nat
      /\ \A j \in 1 .. Len(rows) : \A i \in 1 .. j : rows[i] <= rows[j]
  BY MetricsAssumption DEF MetricsInv, RowsInOrder
<1>2. ASSUME NEW i \in 1 .. Len(rows) PROVE rows[i] \in 0 .. MaxRows
  <2>1. Len(rows) \in 1 .. Len(rows) /\ i \in 1 .. Len(rows) /\ rows # <<>>
    BY <1>1
  <2>2. rows[Len(rows)] <= Len(rows)
    BY <2>1 DEF MetricsBounds, Latest
  <2> QED BY <1>1, <2>1, <2>2 DEF MetricsBounds
<1>3. stream.lastStep \in -1 .. MaxRows
  <2>1. CASE stream.lastStep = -1
    BY <1>1, <2>1
  <2>2. CASE stream.lastStep # -1
    <3>1. PICK i \in 1 .. polled : rows[i] = stream.lastStep
      BY <2>2 DEF MetricsInv, LastStepIsPolled
    <3>2. i \in 1 .. Len(rows)
      BY <1>1 DEF MetricsInv
    <3> QED BY <1>1, <1>2, <3>1, <3>2
  <2> QED BY <2>1, <2>2
<1>4. stream.idle \in 0 .. MaxPolls
  BY <1>1 DEF MetricsInv, MetricsBounds, Generator
<1>5. stream \in [pc : {"polling", "checking", "over"}, lastStep : -1 .. MaxRows,
                  idle : 0 .. MaxPolls]
  BY <1>3, <1>4 DEF MetricsInv, Generator
<1> QED BY <1>1, <1>2, <1>5 DEF MetricsTypeOK, MetricsInv, MetricsBounds

\* The generator counts its idle polls up to max_polls, and the last step it has sent is of a
\* row (ui/app.py, stream_live_metrics).
THEOREM MetricsStaysTyped == MetricsSpec => []MetricsTypeOK
BY MetricsStarts, MetricsStep, MetricsBoundsStart, MetricsBoundsKept, MetricsIsTyped, PTL
   DEF MetricsSpec

-----------------------------------------------------------------------------
(* TrainLog.                                                               *)

LogBuffer == [lines : Seq(Id), emitted : Nat, done : BOOLEAN]
Page == [pc : {"away", "waiting", "sending", "draining", "finished"}, training : 0 .. Trainings,
         next : Nat, batch : Seq(Id), done : BOOLEAN, last : Id \cup {NoLine}]

LogTypes ==
  /\ current \in 0 .. Trainings
  /\ proc \in [Training -> {"none", "running", "told", "exited"}]
  /\ printed \in [Training -> 0 .. Lines]
  /\ buffer \in [Training -> LogBuffer] /\ reader \in [Reader -> Page]
  /\ got \in [Reader -> SUBSET Id] /\ stranger \subseteq Reader

\* The buffer holds the last lines that were emitted, in a row; and it is done at the end.
BufferHoldsTheEnd ==
  \A t \in Training :
    LET b == buffer[t] IN
    /\ b.emitted <= printed[t]
    /\ Len(b.lines) = IF b.emitted < MaxLen THEN b.emitted ELSE MaxLen
    /\ \A i \in 1 .. Len(b.lines) : b.lines[i] = b.emitted - Len(b.lines) + i - 1
    /\ b.done => AtEof(t)
    /\ t > current => proc[t] = "none"

Streaming(me) == me.pc \in {"waiting", "sending", "draining"}
Dropped(id, t) == id < buffer[t].emitted - MaxLen

\* What a page asks for is what follows the last line it has got.
OnCourse(me, lines) ==
  /\ me.training <= current /\ lines \subseteq 0 .. me.last
  /\ me.next = me.last + 1
  /\ Streaming(me) => me.training # 0
  /\ ~Streaming(me) => me.batch = <<>> /\ ~me.done
  /\ me.done => me.training # 0 /\ buffer[me.training].done
  /\ me.training = 0 => me.last = NoLine

\* A batch is in a row and begins there, but for what the buffer has dropped.
BatchFollows(me) ==
  me.batch # <<>> =>
    /\ \A i \in 1 .. Len(me.batch) : me.batch[i] = me.batch[1] + i - 1
    /\ me.next <= me.batch[1]
    /\ me.batch[Len(me.batch)] < buffer[me.training].emitted
    /\ \A id \in me.next .. me.batch[1] - 1 : Dropped(id, me.training)
    /\ Len(me.batch) <= MaxLen

\* The last batch holds all the rest.
LastLook(me) ==
  me.pc = "draining" =>
    /\ me.done
    /\ IF me.batch = <<>>
         THEN \A id \in me.next .. buffer[me.training].emitted - 1 : Dropped(id, me.training)
         ELSE me.batch[Len(me.batch)] = buffer[me.training].emitted - 1

\* The page has got what it is past ...
KeptUp(me, lines) ==
  me.training # 0 => \A id \in 0 .. me.last : id \in lines \/ Dropped(id, me.training)

\* ... and in the end everything.
AllSent(me, lines) ==
  me.pc = "finished" /\ me.training # 0 =>
    /\ buffer[me.training].done
    /\ \A id \in 0 .. buffer[me.training].emitted - 1 : id \in lines \/ Dropped(id, me.training)

PageInv(me, lines, strange) ==
  /\ OnCourse(me, lines) /\ BatchFollows(me) /\ LastLook(me)
  /\ ~strange => KeptUp(me, lines) /\ AllSent(me, lines)

LogInv ==
  /\ LogTypes /\ BufferHoldsTheEnd
  /\ \A r \in Reader : PageInv(reader[r], got[r], r \in stranger)

LEMMA LogConstants ==
  /\ Lines \in Nat /\ Lines > 0 /\ MaxLen \in Nat /\ MaxLen > 0
  /\ Trainings \in Nat /\ Trainings > 0 /\ PipeLines \in Nat
  /\ Id \subseteq Nat /\ NoLine = -1 /\ NoLine \notin Nat /\ Training \subseteq Nat
BY TrainLogAssumption DEF Id, NoLine, Training

LEMMA LogStarts == LogInit => LogInv
<1> SUFFICES ASSUME LogInit PROVE LogInv
  OBVIOUS
<1> USE LogConstants
<1>1. /\ NoReader \in Page /\ NoReader.pc = "away" /\ NoReader.training = 0
      /\ NoReader.batch = <<>> /\ ~NoReader.done /\ NoReader.last = NoLine /\ NoReader.next = 0
  BY DEF NoReader, Page
<1>2. PICK b : b = [lines |-> <<>>, emitted |-> 0, done |-> FALSE]
  OBVIOUS
<1>3. b \in LogBuffer /\ b.emitted = 0 /\ ~b.done /\ b.lines = <<>> /\ Len(b.lines) = 0
  BY <1>2 DEF LogBuffer
<1>4. buffer = [t \in Training |-> b]
  BY <1>2 DEF LogInit
<1>5. LogTypes
  <2>1. buffer \in [Training -> LogBuffer]
    BY <1>3, <1>4
  <2>2. reader \in [Reader -> Page]
    BY <1>1 DEF LogInit
  <2>3. /\ current \in 0 .. Trainings /\ got \in [Reader -> SUBSET Id] /\ stranger \subseteq Reader
        /\ proc \in [Training -> {"none", "running", "told", "exited"}]
        /\ printed \in [Training -> 0 .. Lines]
    BY DEF LogInit
  <2> QED BY <2>1, <2>2, <2>3 DEF LogTypes
<1>6. BufferHoldsTheEnd
  BY <1>3, <1>4 DEF LogInit, BufferHoldsTheEnd
<1>7. \A r \in Reader : reader[r] = NoReader /\ got[r] = {}
  BY DEF LogInit
<1>8. \A r \in Reader : PageInv(NoReader, {}, r \in stranger)
  BY <1>1, <1>5 DEF PageInv, OnCourse, BatchFollows, LastLook, KeptUp, AllSent, Streaming, LogTypes
<1> QED BY <1>5, <1>6, <1>7, <1>8 DEF LogInv

\* What the trainings do to the buffers.
BuffersGrow ==
  \A t \in Training : /\ buffer[t].emitted <= buffer'[t].emitted
                      /\ buffer[t].done => /\ buffer'[t].done
                                           /\ buffer'[t].emitted = buffer[t].emitted

\* What the pages wait for: more lines, and the end.
LEMMA PagesRest ==
  ASSUME LogInv, LogTypes', BufferHoldsTheEnd', UNCHANGED <<reader, got, stranger>>,
         current <= current', BuffersGrow
  PROVE  LogInv'
<1> USE LogConstants
<1> SUFFICES ASSUME NEW r \in Reader PROVE PageInv(reader[r], got[r], r \in stranger)'
  BY DEF LogInv
<1>1. PICK me \in Page : me = reader[r]
  BY DEF LogInv, LogTypes
<1>2. PICK lines \in SUBSET Id : lines = got[r]
  BY DEF LogInv, LogTypes
<1>3. OnCourse(me, lines) /\ BatchFollows(me) /\ LastLook(me)
      /\ (r \notin stranger => KeptUp(me, lines) /\ AllSent(me, lines))
  BY <1>1, <1>2 DEF LogInv, PageInv
<1>4. /\ me.training \in 0 .. Trainings /\ current \in Nat /\ current' \in Nat
      /\ me.training # 0 => me.training \in Training
      /\ me.batch \in Seq(Id)
  BY DEF Page, LogInv, LogTypes, Training
<1>5. \A t \in Training : buffer[t].emitted \in Nat /\ buffer'[t].emitted \in Nat
  BY DEF LogInv, LogTypes, LogBuffer
<1>6. \A t \in Training : \A id \in Int : Dropped(id, t) => Dropped(id, t)'
  BY <1>5 DEF Dropped, BuffersGrow
<1>7. OnCourse(me, lines)'
  BY <1>3, <1>4 DEF OnCourse, BuffersGrow, Streaming
<1>8. me.batch # <<>> => me.training \in Training
  BY <1>3, <1>4 DEF OnCourse
<1>9. BatchFollows(me)'
  <2> SUFFICES ASSUME me.batch # <<>>
               PROVE  /\ me.batch[Len(me.batch)] < buffer'[me.training].emitted
                      /\ \A id \in me.next .. me.batch[1] - 1 : Dropped(id, me.training)'
    BY <1>3 DEF BatchFollows
  <2>1. me.batch[Len(me.batch)] \in Nat
    <3>1. PICK x \in Seq(Id) : x = me.batch /\ x # <<>>
      BY <1>4
    <3>2. Len(x) \in DOMAIN x
      <4>1. Len(x) \in Nat /\ Len(x) # 0 /\ DOMAIN x = 1 .. Len(x)
        BY <3>1, EmptySeq
      <4> QED BY <4>1
    <3>3. x[Len(x)] \in Id
      BY <3>2
    <3> QED BY <3>1, <3>3
  <2>2. me.batch[Len(me.batch)] < buffer[me.training].emitted
    BY <1>3 DEF BatchFollows
  <2>3. \A id \in me.next .. me.batch[1] - 1 : Dropped(id, me.training)
    BY <1>3 DEF BatchFollows
  <2>4. me.training \in Training /\ buffer[me.training].emitted <= buffer'[me.training].emitted
    BY <1>8 DEF BuffersGrow
  <2>5. PICK x \in Nat, e \in Nat, f \in Nat :
          /\ x = me.batch[Len(me.batch)] /\ e = buffer[me.training].emitted
          /\ f = buffer'[me.training].emitted
    BY <1>5, <2>1, <2>4
  <2>6. me.batch[Len(me.batch)] < buffer'[me.training].emitted
    BY <2>2, <2>4, <2>5
  <2>7. \A id \in me.next .. me.batch[1] - 1 : Dropped(id, me.training)'
    <3>1. me.next \in Nat
      BY DEF Page
    <3>2. me.batch[1] \in Nat
      <4>1. PICK b \in Seq(Id) : b = me.batch /\ b # <<>>
        BY <1>4
      <4>2. Len(b) \in Nat /\ Len(b) # 0
        BY <4>1, EmptySeq
      <4>3. b[1] \in Id
        BY <4>2, ElementOfSeq
      <4> QED BY <4>1, <4>3
    <3>3. PICK from \in Nat, to \in Nat : from = me.next /\ to = me.batch[1]
      BY <3>1, <3>2
    <3>4. \A id \in from .. to - 1 : Dropped(id, me.training) /\ id \in Int
      BY <2>3, <3>3
    <3> QED BY <1>6, <2>4, <3>3, <3>4
  <2> QED BY <2>6, <2>7
<1>10. LastLook(me)'
  <2> SUFFICES ASSUME me.pc = "draining" PROVE LastLook(me)'
    BY DEF LastLook
  <2>1. me.training \in Training /\ buffer[me.training].done /\ me.done
    BY <1>3, <1>4 DEF LastLook, OnCourse
  <2>2. buffer'[me.training].emitted = buffer[me.training].emitted
    BY <2>1 DEF BuffersGrow
  <2> QED BY <1>3, <2>2 DEF LastLook, Dropped
<1>11. ASSUME r \notin stranger
       PROVE  KeptUp(me, lines)' /\ AllSent(me, lines)'
  <2>1. KeptUp(me, lines)'
    BY <1>3, <1>4, <1>6, <1>11 DEF KeptUp
  <2>2. AllSent(me, lines)'
    <3> SUFFICES ASSUME me.pc = "finished", me.training # 0 PROVE AllSent(me, lines)'
      BY DEF AllSent
    <3>1. me.training \in Training /\ buffer[me.training].done
      BY <1>3, <1>4, <1>11 DEF AllSent
    <3>2. buffer'[me.training].emitted = buffer[me.training].emitted /\ buffer'[me.training].done
      BY <3>1 DEF BuffersGrow
    <3> QED BY <1>3, <1>11, <3>2 DEF AllSent, Dropped
  <2> QED BY <2>1, <2>2
<1>12. PageInv(me, lines, r \in stranger)'
  BY <1>7, <1>9, <1>10, <1>11 DEF PageInv
<1> QED BY <1>1, <1>2, <1>12

\* What one page does leaves the others and the trainings alone.
LEMMA PageMoves ==
  ASSUME LogInv, NEW r \in Reader, UNCHANGED trainings, NEW me \in Page, Becomes(r, me),
         NEW lines \in SUBSET Id, got' = [got EXCEPT ![r] = lines], stranger' \subseteq Reader,
         stranger' \ {r} = stranger \ {r},
         PageInv(me, lines, r \in stranger')
  PROVE  LogInv'
<1>1. UNCHANGED <<current, proc, printed, buffer>>
  BY DEF trainings
<1>2. /\ reader' \in [Reader -> Page] /\ reader'[r] = me
      /\ got' \in [Reader -> SUBSET Id] /\ got'[r] = lines
      /\ \A q \in Reader \ {r} : /\ reader'[q] = reader[q] /\ got'[q] = got[q]
                                 /\ q \in stranger' <=> q \in stranger
  BY DEF LogInv, LogTypes, Becomes
<1>3. LogTypes' /\ BufferHoldsTheEnd'
  BY <1>1, <1>2 DEF LogInv, LogTypes, BufferHoldsTheEnd, AtEof
<1>4. ASSUME NEW q \in Reader
      PROVE  PageInv(reader[q], got[q], q \in stranger)'
  <2>1. CASE q = r
    BY <1>1, <1>2, <2>1 DEF PageInv, OnCourse, BatchFollows, LastLook, KeptUp, AllSent, Dropped
  <2>2. CASE q # r
    <3>1. PageInv(reader[q], got[q], q \in stranger)
      BY DEF LogInv
    <3> QED
      BY <1>1, <1>2, <2>2, <3>1 DEF PageInv, OnCourse, BatchFollows, LastLook, KeptUp, AllSent,
         Dropped
  <2> QED BY <2>1, <2>2
<1> QED BY <1>3, <1>4 DEF LogInv

\* What a page takes, and when.
Taken(x, t, next, e) == x = LinesFrom(t, next) /\ e = buffer[t].emitted

\* The lines from an id on: in a row up to the last emitted, but for what was dropped.
LEMMA LinesInARow ==
  ASSUME LogInv, NEW t \in Training, NEW next \in Nat, NEW x, NEW e \in Nat, Taken(x, t, next, e)
  PROVE  /\ x \in Seq(Id) /\ Len(x) <= MaxLen
         /\ x # <<>> => /\ \A i \in 1 .. Len(x) : x[i] = x[1] + i - 1
                        /\ next <= x[1] /\ x[Len(x)] = e - 1
                        /\ \A id \in next .. x[1] - 1 : Dropped(id, t)
         /\ x = <<>> => \A id \in next .. e - 1 : Dropped(id, t)
<1> USE LogConstants
<1>1. PICK ls \in Seq(Id) : ls = buffer[t].lines
  BY DEF LogInv, LogTypes, LogBuffer
<1>0. x = LinesFrom(t, next) /\ e = buffer[t].emitted
  BY DEF Taken
<1>2. PICK n \in Nat : n = Len(ls)
  BY <1>1
<1>3. /\ n = IF e < MaxLen THEN e ELSE MaxLen
      /\ \A i \in 1 .. n : ls[i] = e - n + i - 1
  BY <1>0, <1>1, <1>2 DEF LogInv, BufferHoldsTheEnd
<1>4. DOMAIN ls = 1 .. n
  BY <1>2
<1>5. PICK low \in 0 .. n :
        low = IF next <= e - n THEN 0 ELSE IF next >= e THEN n ELSE next - (e - n)
  <2> DEFINE from == IF next <= e - n THEN 0 ELSE IF next >= e THEN n ELSE next - (e - n)
  <2>1. e - n \in Nat
    BY <1>3
  <2>2. from \in 0 .. n
    BY <2>1
  <2> QED BY <2>2
<1>6. {i \in DOMAIN ls : ls[i] >= next} = low + 1 .. n
  <2>1. ASSUME NEW i \in 1 .. n
        PROVE  ls[i] >= next <=> i \in low + 1 .. n
    <3>1. ls[i] = e - n + i - 1
      BY <1>3
    <3> QED BY <1>3, <1>5, <3>1
  <2>2. low + 1 .. n \subseteq 1 .. n
    BY <1>5
  <2> QED BY <1>4, <2>1, <2>2
<1>7. Cardinality(low + 1 .. n) = n - low
  <2>1. low + 1 \in Int /\ n \in Int
    BY <1>5
  <2>2. Cardinality(low + 1 .. n) = IF low + 1 > n THEN 0 ELSE n - (low + 1) + 1
    BY <2>1, FS_Interval
  <2> QED BY <1>5, <2>2
<1>9. x = SubSeq(ls, low + 1, n)
  <2>1. n - (n - low) + 1 = low + 1
    BY <1>5
  <2> QED BY <1>0, <1>1, <1>2, <1>6, <1>7, <2>1 DEF LinesFrom
<1>10. /\ x \in Seq(Id) /\ Len(x) = n - low
       /\ \A i \in 1 .. n - low : x[i] = ls[low + i]
  <2>1. \A i \in low + 1 .. n : ls[i] \in Id
    BY <1>2, <1>5
  <2>2. low + 1 \in Int /\ n \in Int
    BY <1>5
  <2>3. /\ SubSeq(ls, low + 1, n) \in Seq(Id)
        /\ Len(SubSeq(ls, low + 1, n)) = IF low + 1 <= n THEN n - (low + 1) + 1 ELSE 0
        /\ \A i \in 1 .. n - (low + 1) + 1 : SubSeq(ls, low + 1, n)[i] = ls[low + 1 + i - 1]
    BY <2>1, <2>2, SubSeqProperties
  <2>4. \A i \in 1 .. n - low : i \in 1 .. n - (low + 1) + 1 /\ low + 1 + i - 1 = low + i
    BY <1>5
  <2>5. low + 1 <= n => n - (low + 1) + 1 = n - low
    BY <1>5
  <2>6. ~(low + 1 <= n) => n - low = 0
    BY <1>5
  <2>7. Len(x) = n - low
    BY <1>9, <2>3, <2>5, <2>6
  <2>8. x \in Seq(Id)
    BY <1>9, <2>3
  <2>9. ASSUME NEW i \in 1 .. n - low
        PROVE  x[i] = ls[low + i]
    <3>1. i \in 1 .. n - (low + 1) + 1 /\ low + 1 + i - 1 = low + i
      BY <2>4
    <3>2. SubSeq(ls, low + 1, n)[i] = ls[low + 1 + i - 1]
      BY <2>3, <3>1
    <3> QED BY <1>9, <3>1, <3>2
  <2> QED BY <2>7, <2>8, <2>9
<1>11. \A i \in 1 .. n - low : x[i] = e - n + low + i - 1
  <2> SUFFICES ASSUME NEW i \in 1 .. n - low PROVE x[i] = e - n + low + i - 1
    OBVIOUS
  <2>1. low + i \in 1 .. n
    BY <1>5
  <2>2. ls[low + i] = e - n + (low + i) - 1
    BY <1>3, <2>1
  <2> QED BY <1>5, <1>10, <2>2
<1>12. \A id \in Int : Dropped(id, t) <=> id < e - MaxLen
  BY <1>0 DEF Dropped
<1>13. ASSUME x # <<>>
       PROVE  /\ \A i \in 1 .. Len(x) : x[i] = x[1] + i - 1
              /\ next <= x[1] /\ x[Len(x)] = e - 1
              /\ \A id \in next .. x[1] - 1 : Dropped(id, t)
  <2>1. low < n
    <3>1. Len(x) > 0
      BY <1>10, <1>13
    <3> QED BY <1>5, <1>10, <3>1
  <2>2. 1 \in 1 .. n - low /\ n - low \in 1 .. n - low
    BY <1>5, <2>1
  <2>3. x[1] = e - n + low /\ x[Len(x)] = e - 1
    <3>0. n - low \in Nat
      BY <1>5
    <3>1. PICK m \in Nat : m = n - low /\ m \in 1 .. n - low
      BY <2>2, <3>0
    <3>2. x[m] = e - n + low + m - 1 /\ x[1] = e - n + low + 1 - 1
      BY <1>11, <2>2, <3>1
    <3> QED BY <1>3, <1>5, <1>10, <3>1, <3>2
  <2>4. \A i \in 1 .. Len(x) : x[i] = x[1] + i - 1
    BY <1>3, <1>5, <1>10, <1>11, <2>3
  <2>5. next <= x[1]
    BY <1>3, <1>5, <2>1, <2>3
  <2>6. ASSUME NEW id \in next .. x[1] - 1
        PROVE  Dropped(id, t)
    <3>1. id < e - n + low /\ id >= next /\ id \in Nat
      BY <1>3, <1>5, <2>3
    <3>2. low = 0 /\ n = MaxLen
      BY <1>3, <1>5, <2>1, <3>1
    <3> QED BY <1>12, <3>1, <3>2
  <2> QED BY <2>3, <2>4, <2>5, <2>6
<1>14. ASSUME x = <<>>, NEW id \in next .. e - 1
       PROVE  Dropped(id, t)
  <2>1. low = n
    <3>1. Len(x) = 0
      BY <1>14
    <3> QED BY <1>5, <1>10, <3>1
  <2> QED BY <1>3, <1>5, <1>14, <2>1
<1>15. Len(x) <= MaxLen
  BY <1>3, <1>5, <1>10
<1> QED BY <1>10, <1>13, <1>14, <1>15

-----------------------------------------------------------------------------
LEMMA TrainingSteps ==
  ASSUME LogInv, \/ Start \/ Stop \/ \E t \in Training : Prints(t) \/ Exits(t) \/ MarksDone(t)
  PROVE  LogInv'
<1> USE LogConstants
<1>1. UNCHANGED <<reader, got, stranger>>
  BY DEF Start, Stop, Prints, Exits, MarksDone
<1>2. LogTypes /\ BufferHoldsTheEnd
  BY DEF LogInv
<1>3. LogTypes' /\ BufferHoldsTheEnd' /\ current <= current' /\ BuffersGrow
  <2>1. CASE Start
    <3>1. /\ current < Trainings /\ current' = current + 1
          /\ proc' = [proc EXCEPT ![current + 1] = "running"]
          /\ UNCHANGED <<printed, buffer>>
      BY <2>1 DEF Start
    <3>2. current + 1 \in Training /\ current' \in 0 .. Trainings /\ current <= current'
      BY <1>2, <3>1 DEF LogTypes, Training
    <3>3. proc[current + 1] = "none"
      BY <1>2, <3>2 DEF BufferHoldsTheEnd, LogTypes
    <3>4. proc' \in [Training -> {"none", "running", "told", "exited"}]
      BY <1>2, <3>1 DEF LogTypes
    <3>5. \A t \in Training : t # current + 1 => proc'[t] = proc[t]
      BY <1>2, <3>1 DEF LogTypes
    <3>6. LogTypes'
      BY <1>1, <1>2, <3>1, <3>2, <3>4 DEF LogTypes
    <3>7. ASSUME NEW t \in Training
          PROVE  /\ buffer[t].done => AtEof(t)'
                 /\ t > current' => proc'[t] = "none"
      <4>1. /\ buffer[t].done => AtEof(t)
            /\ t > current => proc[t] = "none"
        BY <1>2 DEF BufferHoldsTheEnd
      <4>2. t \in Nat /\ current \in Nat
        BY <1>2 DEF LogTypes
      <4>3. CASE t = current + 1
        BY <3>1, <3>3, <4>1, <4>2, <4>3 DEF AtEof
      <4>4. CASE t # current + 1
        BY <3>1, <3>5, <4>1, <4>2, <4>4 DEF AtEof
      <4> QED BY <4>3, <4>4
    <3>8. BufferHoldsTheEnd'
      BY <1>2, <3>1, <3>7 DEF BufferHoldsTheEnd
    <3>9. \A t \in Training : buffer[t].emitted \in Nat
      BY <1>2 DEF LogTypes, LogBuffer
    <3> QED BY <3>1, <3>2, <3>6, <3>8, <3>9 DEF BuffersGrow
  <2>2. ASSUME NEW t \in Training, NEW to \in {"told", "exited"}, Runs(t), current # 0 \/ t # 0,
               proc' = [proc EXCEPT ![t] = to], UNCHANGED <<current, printed, buffer>>
        PROVE  LogTypes' /\ BufferHoldsTheEnd' /\ current <= current' /\ BuffersGrow
    <3>1. LogTypes'
      BY <1>1, <1>2, <2>2 DEF LogTypes
    <3>2. ASSUME NEW u \in Training
          PROVE  /\ buffer[u].done => AtEof(u)'
                 /\ u > current => proc'[u] = "none"
      <4>1. /\ buffer[u].done => AtEof(u)
            /\ u > current => proc[u] = "none"
        BY <1>2 DEF BufferHoldsTheEnd
      <4>2. u # t => proc'[u] = proc[u]
        BY <1>2, <2>2 DEF LogTypes
      <4> QED BY <2>2, <4>1, <4>2 DEF AtEof, Runs
    <3>3. BufferHoldsTheEnd'
      BY <1>2, <2>2, <3>2 DEF BufferHoldsTheEnd
    <3>4. current <= current' /\ \A u \in Training : buffer[u].emitted \in Nat
      BY <1>2, <2>2 DEF LogTypes, LogBuffer
    <3>5. BuffersGrow
      BY <2>2, <3>4 DEF BuffersGrow
    <3> QED BY <3>1, <3>3, <3>4, <3>5
  <2>3. CASE Stop
    <3>1. current \in Training /\ Runs(current) /\ proc' = [proc EXCEPT ![current] = "told"]
          /\ UNCHANGED <<current, printed, buffer>> /\ current # 0
      BY <1>2, <2>3 DEF Stop, LogTypes, Training
    <3> QED BY <2>2, <3>1
  <2>4. ASSUME NEW t \in Training, Exits(t)
        PROVE  LogTypes' /\ BufferHoldsTheEnd' /\ current <= current' /\ BuffersGrow
    <3>1. Runs(t) /\ proc' = [proc EXCEPT ![t] = "exited"] /\ t # 0
          /\ UNCHANGED <<current, printed, buffer>>
      BY <2>4 DEF Exits, Training
    <3> QED BY <2>2, <3>1
  <2>5. ASSUME NEW t \in Training, Prints(t)
        PROVE  LogTypes' /\ BufferHoldsTheEnd' /\ current <= current' /\ BuffersGrow
    <3>1. /\ Runs(t) /\ printed[t] < Lines /\ printed' = [printed EXCEPT ![t] = @ + 1]
          /\ UNCHANGED <<current, proc, buffer>>
      BY <2>5 DEF Prints
    <3>2. printed[t] \in Nat /\ printed[t] + 1 \in 0 .. Lines
      BY <1>2, <3>1 DEF LogTypes
    <3>3. printed' \in [Training -> 0 .. Lines]
      BY <1>2, <3>1, <3>2 DEF LogTypes
    <3>4. LogTypes'
      BY <1>1, <1>2, <3>1, <3>3 DEF LogTypes
    <3>5. ASSUME NEW u \in Training
          PROVE  buffer[u].emitted <= printed'[u] /\ (buffer[u].done => AtEof(u)')
      <4>1. buffer[u].emitted <= printed[u] /\ (buffer[u].done => AtEof(u))
        BY <1>2 DEF BufferHoldsTheEnd
      <4>2. buffer[u].emitted \in Nat /\ printed[u] \in Nat
        BY <1>2 DEF LogTypes, LogBuffer
      <4>3. CASE u = t
        <5>1. printed'[u] = printed[u] + 1
          BY <1>2, <3>1, <4>3 DEF LogTypes
        <5> QED BY <3>1, <4>1, <4>2, <4>3, <5>1 DEF AtEof, Runs
      <4>4. CASE u # t
        <5>1. printed'[u] = printed[u]
          BY <1>2, <3>1, <4>4 DEF LogTypes
        <5> QED BY <3>1, <4>1, <5>1 DEF AtEof
      <4> QED BY <4>3, <4>4
    <3>6. BufferHoldsTheEnd'
      BY <1>2, <3>1, <3>5 DEF BufferHoldsTheEnd
    <3>7. current <= current' /\ BuffersGrow
      <4>1. current \in Nat /\ \A u \in Training : buffer[u].emitted \in Nat
        BY <1>2 DEF LogTypes, LogBuffer
      <4>2. current' = current /\ buffer' = buffer
        BY <3>1
      <4>3. BuffersGrow
        <5> SUFFICES ASSUME NEW u \in Training
                     PROVE  /\ buffer[u].emitted <= buffer'[u].emitted
                            /\ buffer[u].done => /\ buffer'[u].done
                                                 /\ buffer'[u].emitted = buffer[u].emitted
          BY DEF BuffersGrow
        <5>1. buffer'[u] = buffer[u]
          BY <4>2
        <5>2. buffer[u].emitted <= buffer[u].emitted
          BY <4>1
        <5> QED BY <5>1, <5>2, Zenon
      <4> QED BY <4>1, <4>2, <4>3
    <3> QED BY <3>4, <3>6, <3>7
  <2>6. ASSUME NEW t \in Training, MarksDone(t)
        PROVE  LogTypes' /\ BufferHoldsTheEnd' /\ current <= current' /\ BuffersGrow
    <3>1. /\ ~buffer[t].done /\ AtEof(t) /\ buffer' = [buffer EXCEPT ![t].done = TRUE]
          /\ UNCHANGED <<current, proc, printed>>
      BY <2>6 DEF MarksDone
    <3>2. PICK b \in LogBuffer : b = buffer[t]
      BY <1>2 DEF LogTypes
    <3>3. PICK new : new = [b EXCEPT !.done = TRUE]
      OBVIOUS
    <3>4. new \in LogBuffer /\ new.lines = b.lines /\ new.emitted = b.emitted /\ new.done
      BY <3>2, <3>3 DEF LogBuffer
    <3>5. buffer' = [buffer EXCEPT ![t] = new]
      BY <3>1, <3>2, <3>3
    <3>6. LogTypes'
      BY <1>1, <1>2, <3>1, <3>4, <3>5 DEF LogTypes
    <3>7. buffer'[t] = new /\ \A u \in Training \ {t} : buffer'[u] = buffer[u]
      BY <1>2, <3>5 DEF LogTypes
    <3>8. ASSUME NEW u \in Training
          PROVE  /\ buffer'[u].lines = buffer[u].lines /\ buffer'[u].emitted = buffer[u].emitted
                 /\ buffer'[u].done => AtEof(u)'
                 /\ buffer[u].done => buffer'[u].done
      <4>1. buffer[u].done => AtEof(u)
        BY <1>2 DEF BufferHoldsTheEnd
      <4> QED BY <3>1, <3>2, <3>4, <3>7, <4>1 DEF AtEof
    <3>9. BufferHoldsTheEnd'
      BY <1>2, <3>1, <3>8 DEF BufferHoldsTheEnd
    <3>10. current <= current' /\ BuffersGrow
      <4>1. current \in Nat /\ \A u \in Training : buffer[u].emitted \in Nat
        BY <1>2 DEF LogTypes, LogBuffer
      <4>2. current <= current'
        BY <3>1, <4>1
      <4>3. \A u \in Training : buffer[u].emitted <= buffer'[u].emitted
        BY <3>8, <4>1
      <4>4. BuffersGrow
        BY <3>8, <4>3, Zenon DEF BuffersGrow
      <4> QED BY <4>2, <4>4
    <3> QED BY <3>6, <3>9, <3>10
  <2> QED BY <2>1, <2>3, <2>4, <2>5, <2>6
<1> QED BY <1>1, <1>2, <1>3, PagesRest
\* The last lines of k.
LastOf(x, k) ==
  /\ Len(x) = IF k < MaxLen THEN k ELSE MaxLen
  /\ \A i \in 1 .. Len(x) : x[i] = k - Len(x) + i - 1

Grown(x, t, e) == x = Appended(buffer[t]) /\ e = buffer[t].emitted

\* A line goes to the end of the buffer; when that is full the first one makes room.
LEMMA AppendedMovesOn ==
  ASSUME LogTypes, BufferHoldsTheEnd, NEW t \in Training, NEW e \in Nat, NEW x, Grown(x, t, e),
         e < Lines
  PROVE  x \in Seq(Id) /\ LastOf(x, e + 1)
<1> USE LogConstants
<1>0. x = Appended(buffer[t]) /\ e = buffer[t].emitted
  BY DEF Grown
<1>1. PICK ls \in Seq(Id) : ls = buffer[t].lines
  BY DEF LogTypes, LogBuffer
<1>2. PICK n \in Nat : n = Len(ls)
  BY <1>1
<1>3. /\ n = IF e < MaxLen THEN e ELSE MaxLen
      /\ \A i \in 1 .. n : ls[i] = e - n + i - 1
  BY <1>0, <1>1, <1>2 DEF BufferHoldsTheEnd
<1>4. e \in Id
  BY DEF Id
<1>5. PICK y : y = Append(ls, e)
  OBVIOUS
<1>6. /\ y \in Seq(Id) /\ Len(y) = n + 1
      /\ \A i \in 1 .. n : y[i] = ls[i]
      /\ y[n + 1] = e
  BY <1>2, <1>4, <1>5, AppendProperties
<1>7. \A i \in 1 .. n + 1 : y[i] = e - n + i - 1
  BY <1>2, <1>3, <1>6
<1>9. x = IF n + 1 > MaxLen THEN Tail(y) ELSE y
  BY <1>0, <1>1, <1>5, <1>6 DEF Appended
<1>10. CASE n + 1 <= MaxLen
  <2>1. x = y /\ n = e
    BY <1>3, <1>6, <1>9, <1>10
  <2>2. Len(x) = e + 1 /\ n + 1 = e + 1
    BY <1>6, <2>1
  <2>3. \A i \in 1 .. e + 1 : x[i] = i - 1
    BY <1>7, <2>1
  <2>4. \A i \in 1 .. Len(x) : x[i] = e + 1 - Len(x) + i - 1
    BY <2>2, <2>3
  <2>5. Len(x) = IF e + 1 < MaxLen THEN e + 1 ELSE MaxLen
    BY <1>10, <2>2
  <2> QED BY <1>6, <2>1, <2>4, <2>5 DEF LastOf
<1>11. CASE n + 1 > MaxLen
  <2>1. n = MaxLen /\ x = Tail(y)
    BY <1>3, <1>6, <1>9, <1>11
  <2>2. x \in Seq(Id) /\ Len(x) = n /\ \A i \in 1 .. n : x[i] = y[i + 1]
    <3>1. y # <<>>
      BY <1>6, EmptySeq
    <3>2. Tail(y) \in Seq(Id) /\ Len(Tail(y)) = n + 1 - 1
          /\ \A i \in 1 .. n : Tail(y)[i] = y[i + 1]
      BY <1>6, <3>1, HeadTailProperties
    <3> QED BY <1>2, <2>1, <3>2
  <2>3. \A i \in 1 .. n : x[i] = e + 1 - n + i - 1
    <3> SUFFICES ASSUME NEW i \in 1 .. n PROVE x[i] = e + 1 - n + i - 1
      OBVIOUS
    <3>1. i + 1 \in 1 .. n + 1
      BY <1>2
    <3>2. y[i + 1] = e - n + (i + 1) - 1
      BY <1>7, <3>1
    <3> QED BY <1>2, <2>2, <3>2
  <2>4. ~(e + 1 < MaxLen)
    BY <1>3, <1>11
  <2>5. \A i \in 1 .. Len(x) : x[i] = e + 1 - Len(x) + i - 1
    BY <2>2, <2>3
  <2>6. Len(x) = IF e + 1 < MaxLen THEN e + 1 ELSE MaxLen
    BY <2>1, <2>2, <2>4
  <2> QED BY <2>2, <2>5, <2>6 DEF LastOf
<1> QED BY <1>2, <1>10, <1>11

LEMMA DrainSteps ==
  ASSUME LogInv, NEW t \in Training, Drains(t)
  PROVE  LogInv'
<1> USE LogConstants
<1>1. LogTypes /\ BufferHoldsTheEnd
  BY DEF LogInv
<1>2. PICK b \in LogBuffer : b = buffer[t]
  BY <1>1 DEF LogTypes
<1>3. PICK new : new = [lines |-> Appended(b), emitted |-> b.emitted + 1, done |-> FALSE]
  OBVIOUS
<1>4. /\ ~b.done /\ b.emitted < printed[t] /\ buffer' = [buffer EXCEPT ![t] = new]
      /\ UNCHANGED <<current, proc, printed, reader, got, stranger>>
  BY <1>2, <1>3 DEF Drains, InPipe
<1>5. b.emitted \in Nat /\ printed[t] \in 0 .. Lines
  BY <1>1, <1>2 DEF LogTypes, LogBuffer
<1>6. b.emitted < Lines
  BY <1>4, <1>5
<1>7. /\ new.lines \in Seq(Id) /\ new.emitted = b.emitted + 1 /\ ~new.done
      /\ Len(new.lines) = IF new.emitted < MaxLen THEN new.emitted ELSE MaxLen
      /\ \A i \in 1 .. Len(new.lines) : new.lines[i] = new.emitted - Len(new.lines) + i - 1
      /\ new \in LogBuffer
  <2>1. PICK x : x = Appended(b)
    OBVIOUS
  <2>2. PICK e \in Nat, k \in Nat : e = b.emitted /\ k = e + 1
    BY <1>5
  <2>3. Grown(x, t, e) /\ e < Lines
    BY <1>2, <1>6, <2>1, <2>2 DEF Grown
  <2>4. x \in Seq(Id) /\ LastOf(x, e + 1)
    BY <1>1, <2>3, AppendedMovesOn
  <2>5. new = [lines |-> x, emitted |-> k, done |-> FALSE]
    BY <1>3, <2>1, <2>2
  <2>6. new.lines = x /\ new.emitted = k /\ ~new.done
    BY <2>5
  <2>7. new \in LogBuffer
    BY <2>4, <2>5 DEF LogBuffer
  <2>8. LastOf(x, k)
    BY <2>2, <2>4, Zenon
  <2>9. k = b.emitted + 1
    BY <2>2
  <2>10. /\ Len(new.lines) = IF new.emitted < MaxLen THEN new.emitted ELSE MaxLen
         /\ \A i \in 1 .. Len(new.lines) : new.lines[i] = new.emitted - Len(new.lines) + i - 1
    BY <2>6, <2>8, Zenon DEF LastOf
  <2> QED BY <2>4, <2>6, <2>7, <2>9, <2>10, Zenon
<1>8. buffer'[t] = new /\ \A u \in Training \ {t} : buffer'[u] = buffer[u]
  BY <1>1, <1>4 DEF LogTypes
<1>9. LogTypes'
  BY <1>1, <1>4, <1>7 DEF LogTypes
<1>10. BufferHoldsTheEnd'
  <2> SUFFICES ASSUME NEW u \in Training
               PROVE  LET c == buffer'[u] IN
                      /\ c.emitted <= printed'[u]
                      /\ Len(c.lines) = IF c.emitted < MaxLen THEN c.emitted ELSE MaxLen
                      /\ \A i \in 1 .. Len(c.lines) :
                           c.lines[i] = c.emitted - Len(c.lines) + i - 1
                      /\ c.done => AtEof(u)'
                      /\ u > current' => proc'[u] = "none"
    BY DEF BufferHoldsTheEnd
  <2>1. current' = current /\ proc' = proc /\ printed' = printed
    BY <1>4
  <2>2. u > current => proc[u] = "none"
    BY <1>1 DEF BufferHoldsTheEnd
  <2>3. CASE u = t
    <3>1. new.emitted <= printed[t]
      BY <1>4, <1>5, <1>7
    <3> QED BY <1>7, <1>8, <2>1, <2>2, <2>3, <3>1
  <2>4. CASE u # t
    BY <1>1, <1>8, <2>1, <2>4 DEF BufferHoldsTheEnd, AtEof
  <2> QED BY <2>3, <2>4
<1>11. BuffersGrow
  <2>1. \A u \in Training : buffer[u].emitted \in Nat
    BY <1>1 DEF LogTypes, LogBuffer
  <2>2. \A u \in Training : buffer[u].emitted <= buffer'[u].emitted
    BY <1>2, <1>5, <1>7, <1>8, <2>1
  <2> QED BY <1>2, <1>4, <1>8, <2>2, Zenon DEF BuffersGrow
<1>12. current <= current' /\ UNCHANGED <<reader, got, stranger>>
  BY <1>1, <1>4 DEF LogTypes
<1> QED BY <1>9, <1>10, <1>11, <1>12, PagesRest
\* What is known of a page before it moves.
PageBefore(r, me, lines) ==
  /\ me \in Page /\ me = reader[r] /\ lines \in SUBSET Id /\ lines = got[r]
  /\ OnCourse(me, lines) /\ BatchFollows(me) /\ LastLook(me)
  /\ r \notin stranger => KeptUp(me, lines) /\ AllSent(me, lines)
  /\ me.training \in 0 .. current /\ current \in 0 .. Trainings
  /\ me.training # 0 => me.training \in Training
  /\ me.next \in Nat /\ me.last \in Id \cup {NoLine} /\ me.last + 1 \in Nat /\ me.last \in Int
  /\ me.batch \in Seq(Id) /\ me.done \in BOOLEAN
  /\ stranger \subseteq Reader /\ got = [got EXCEPT ![r] = lines]

LEMMA PageKnown ==
  ASSUME LogInv, NEW r \in Reader
  PROVE  \E me, lines : PageBefore(r, me, lines)
<1> USE LogConstants
<1>1. PICK me \in Page : me = reader[r]
  BY DEF LogInv, LogTypes
<1>2. PICK lines \in SUBSET Id : lines = got[r]
  BY DEF LogInv, LogTypes
<1>3. /\ OnCourse(me, lines) /\ BatchFollows(me) /\ LastLook(me)
      /\ r \notin stranger => KeptUp(me, lines) /\ AllSent(me, lines)
  BY <1>1, <1>2 DEF LogInv, PageInv
<1>4. /\ me.training \in Nat /\ me.training <= current /\ current \in 0 .. Trainings
      /\ me.next \in Nat /\ me.last \in Id \cup {NoLine}
      /\ me.batch \in Seq(Id) /\ me.done \in BOOLEAN
  BY <1>3 DEF Page, OnCourse, LogInv, LogTypes
<1>5. me.last + 1 \in Nat /\ me.last \in Int
  <2>1. me.last \in Nat \/ me.last = -1
    BY <1>4
  <2> QED BY <2>1
<1>6. me.training \in 0 .. current /\ (me.training # 0 => me.training \in Training)
  BY <1>4 DEF Training
<1>7. stranger \subseteq Reader /\ got = [got EXCEPT ![r] = lines]
  BY <1>2 DEF LogInv, LogTypes
<1>8. PageBefore(r, me, lines)
  BY <1>1, <1>2, <1>3, <1>4, <1>5, <1>6, <1>7 DEF PageBefore
<1> QED BY <1>8

\* A page that asks for nothing has no batch and comes off no line.
LEMMA ConnectSteps ==
  ASSUME LogInv, NEW r \in Reader, Connects(r)
  PROVE  LogInv'
<1> USE LogConstants
<1>1. PICK old, lines : PageBefore(r, old, lines)
  BY PageKnown
<1>2. old.pc = "away" /\ old.batch = <<>> /\ ~old.done /\ UNCHANGED trainings
  BY <1>1 DEF PageBefore, Connects, OnCourse, Streaming
<1>3. CASE current = 0
  <2>1. PICK me : me = [old EXCEPT !.pc = "finished"]
    OBVIOUS
  <2>2. Becomes(r, me) /\ UNCHANGED <<got, stranger>>
    BY <1>1, <1>3, <2>1 DEF PageBefore, Connects
  <2>3. /\ me \in Page /\ me.pc = "finished" /\ me.training = old.training
        /\ me.batch = old.batch /\ me.done = old.done /\ me.last = old.last /\ me.next = old.next
    BY <1>1, <2>1 DEF PageBefore, Page
  <2>4. old.training = 0
    BY <1>1, <1>3 DEF PageBefore
  <2>5. PageInv(me, lines, r \in stranger)
    BY <1>1, <1>2, <2>3, <2>4
       DEF PageBefore, PageInv, OnCourse, BatchFollows, LastLook, KeptUp, AllSent, Streaming
  <2>6. lines \in SUBSET Id /\ got' = [got EXCEPT ![r] = lines] /\ stranger' = stranger
        /\ stranger \subseteq Reader
    BY <1>1, <2>2 DEF PageBefore
  <2> QED BY <1>2, <2>2, <2>3, <2>5, <2>6, PageMoves
<1>4. CASE current # 0
  <2>1. PICK me : me = [old EXCEPT !.pc = "waiting", !.training = current, !.next = old.last + 1]
    OBVIOUS
  <2>2. PICK its : its = IF old.training = current THEN lines ELSE {}
    OBVIOUS
  <2>3. /\ Becomes(r, me) /\ got' = [got EXCEPT ![r] = its]
        /\ stranger' = IF old.training # current /\ old.last # NoLine
                          THEN stranger \cup {r} ELSE stranger
    <3>1. PICK w : w = reader[r] /\ w = old
      BY <1>1 DEF PageBefore
    <3>2. /\ Becomes(r, [w EXCEPT !.pc = "waiting", !.training = current, !.next = w.last + 1])
          /\ got' = IF w.training = current THEN got ELSE [got EXCEPT ![r] = {}]
          /\ stranger' = IF w.training # current /\ w.last # NoLine
                            THEN stranger \cup {r} ELSE stranger
      BY <1>4, <3>1 DEF Connects
    <3>3. got = [got EXCEPT ![r] = lines]
      BY <1>1 DEF PageBefore
    <3>4. got' = [got EXCEPT ![r] = its]
      BY <2>2, <3>1, <3>2, <3>3
    <3> QED BY <2>1, <3>1, <3>2, <3>4
  <2>4. /\ me.pc = "waiting" /\ me.training = current /\ me.next = old.last + 1
        /\ me.batch = <<>> /\ ~me.done /\ me.last = old.last /\ me \in Page
    BY <1>1, <1>2, <2>1 DEF PageBefore, Page
  <2>5. its \in SUBSET Id /\ its \subseteq 0 .. me.last
    BY <1>1, <2>2, <2>4 DEF PageBefore, OnCourse
  <2>6. OnCourse(me, its)
    BY <1>1, <1>4, <2>4, <2>5 DEF PageBefore, OnCourse, Streaming
  <2>7. BatchFollows(me) /\ LastLook(me) /\ AllSent(me, its)
    BY <2>4 DEF BatchFollows, LastLook, AllSent
  <2>8. ASSUME r \notin stranger'
        PROVE  KeptUp(me, its)
    <3>1. CASE old.training = current
      BY <1>1, <2>2, <2>3, <2>4, <2>8, <3>1 DEF PageBefore, KeptUp
    <3>2. CASE old.training # current
      <4>1. me.last = NoLine
        BY <2>3, <2>4, <2>8, <3>2
      <4> QED BY <4>1 DEF KeptUp
    <3> QED BY <3>1, <3>2
  <2>9. PageInv(me, its, r \in stranger')
    BY <2>6, <2>7, <2>8 DEF PageInv
  <2>10. stranger' \subseteq Reader /\ stranger' \ {r} = stranger \ {r}
    BY <1>1, <2>3 DEF PageBefore
  <2> QED BY <1>2, <2>3, <2>4, <2>5, <2>9, <2>10, PageMoves
<1> QED BY <1>3, <1>4

LEMMA TakeSteps ==
  ASSUME LogInv, NEW r \in Reader, Takes(r)
  PROVE  LogInv'
<1> USE LogConstants
<1>1. PICK old, lines : PageBefore(r, old, lines)
  BY PageKnown
<1>2. PICK x : x = LinesFrom(old.training, old.next)
  OBVIOUS
<1>3. PICK me : me = [old EXCEPT !.pc = "sending", !.batch = x,
                                !.done = buffer[old.training].done]
  OBVIOUS
<1>4. /\ old.pc = "waiting" /\ Becomes(r, me) /\ UNCHANGED trainings
      /\ UNCHANGED <<got, stranger>>
  BY <1>1, <1>2, <1>3 DEF PageBefore, Takes
<1>5. old.training \in Training /\ old.next = old.last + 1 /\ old.next \in Nat
  BY <1>1, <1>4 DEF PageBefore, OnCourse, Streaming
<1>6. PICK e \in Nat : e = buffer[old.training].emitted
  BY <1>5 DEF LogInv, LogTypes, LogBuffer
<1>7. /\ x \in Seq(Id) /\ Len(x) <= MaxLen
      /\ x # <<>> => /\ \A i \in 1 .. Len(x) : x[i] = x[1] + i - 1
                     /\ old.next <= x[1] /\ x[Len(x)] = e - 1
                     /\ \A id \in old.next .. x[1] - 1 : Dropped(id, old.training)
  <2>1. PICK t \in Training, next \in Nat : t = old.training /\ next = old.next
    BY <1>5
  <2>2. Taken(x, t, next, e)
    BY <1>2, <1>6, <2>1 DEF Taken
  <2>3. /\ x \in Seq(Id) /\ Len(x) <= MaxLen
        /\ x # <<>> => /\ \A i \in 1 .. Len(x) : x[i] = x[1] + i - 1
                       /\ next <= x[1] /\ x[Len(x)] = e - 1
                       /\ \A id \in next .. x[1] - 1 : Dropped(id, t)
    BY <2>2, LinesInARow
  <2> QED BY <2>1, <2>3
<1>8. buffer[old.training].done \in BOOLEAN
  BY <1>5 DEF LogInv, LogTypes, LogBuffer
<1>9. /\ me \in Page /\ me.pc = "sending" /\ me.training = old.training /\ me.next = old.next
      /\ me.batch = x /\ me.done = buffer[old.training].done /\ me.last = old.last
  BY <1>1, <1>3, <1>7, <1>8 DEF PageBefore, Page
<1>10. OnCourse(me, lines)
  <2>1. me.training # 0 /\ (me.done => buffer[me.training].done)
    BY <1>5, <1>9 DEF Training
  <2> QED BY <1>1, <1>5, <1>9, <2>1 DEF PageBefore, OnCourse, Streaming
<1>11. BatchFollows(me)
  BY <1>6, <1>7, <1>9 DEF BatchFollows
<1>12. LastLook(me) /\ AllSent(me, lines) /\ (r \notin stranger => KeptUp(me, lines))
  BY <1>1, <1>9 DEF PageBefore, LastLook, AllSent, KeptUp
<1>13. PageInv(me, lines, r \in stranger)
  BY <1>10, <1>11, <1>12 DEF PageInv
<1>14. lines \in SUBSET Id /\ got' = [got EXCEPT ![r] = lines] /\ stranger' = stranger
       /\ stranger \subseteq Reader
  BY <1>1, <1>4 DEF PageBefore
<1> QED BY <1>4, <1>9, <1>13, <1>14, PageMoves

\* What a frame takes from the batch follows the last line the page has got.
LEMMA BatchIsNew ==
  ASSUME LogInv, NEW r \in Reader, reader[r].pc \in {"sending", "draining"},
         reader[r].batch # <<>>
  PROVE  /\ Head(reader[r].batch) \in Id /\ Head(reader[r].batch) = reader[r].batch[1]
         /\ Head(reader[r].batch) > reader[r].last /\ Head(reader[r].batch) \notin got[r]
<1> USE LogConstants
<1>1. PICK me, lines : PageBefore(r, me, lines)
  BY PageKnown
<1>2. PICK b \in Seq(Id) : b = me.batch /\ b # <<>>
  BY <1>1 DEF PageBefore
<1>3. Head(b) = b[1] /\ Head(b) \in Id
  BY <1>2, HeadTailProperties
<1>4. me.next <= b[1] /\ me.next = me.last + 1
  BY <1>1, <1>2 DEF PageBefore, OnCourse, BatchFollows, Streaming
<1>5. PICK h \in Nat, l \in Int : h = b[1] /\ l = me.last
  BY <1>1, <1>3 DEF PageBefore
<1>6. h > l
  BY <1>4, <1>5
<1>7. lines \subseteq 0 .. l
  BY <1>1, <1>5 DEF PageBefore, OnCourse
<1> QED BY <1>1, <1>2, <1>3, <1>5, <1>6, <1>7 DEF PageBefore

LEMMA SendSteps ==
  ASSUME LogInv, NEW r \in Reader, Sends(r)
  PROVE  LogInv'
<1> USE LogConstants
<1>1. PICK old, lines : PageBefore(r, old, lines)
  BY PageKnown
<1>2. PICK b \in Seq(Id) : b = old.batch
  BY <1>1 DEF PageBefore
<1>3. PICK id : id = Head(b)
  OBVIOUS
<1>4. PICK me : me = [old EXCEPT !.batch = Tail(b), !.next = id + 1, !.last = id]
  OBVIOUS
<1>5. /\ old.pc \in {"sending", "draining"} /\ b # <<>> /\ Becomes(r, me)
      /\ got' = [got EXCEPT ![r] = lines \cup {id}] /\ UNCHANGED trainings
      /\ stranger' = stranger
  BY <1>1, <1>2, <1>3, <1>4 DEF PageBefore, Sends, NextAfter
<1>6. id \in Id /\ id = b[1] /\ id > old.last
  BY <1>1, <1>2, <1>3, <1>5, BatchIsNew DEF PageBefore
<1>7. PICK n \in Nat \ {0} : n = Len(b)
  BY <1>2, <1>5, EmptySeq
<1>8. PICK y : y = Tail(b)
  OBVIOUS
<1>9. /\ y \in Seq(Id) /\ Len(y) = n - 1 /\ \A i \in 1 .. n - 1 : y[i] = b[i + 1]
  BY <1>2, <1>5, <1>7, <1>8, HeadTailProperties
<1>10. /\ old.training \in Training /\ old.next = old.last + 1 /\ old.next \in Nat
       /\ old.last \in Int
  BY <1>1, <1>5 DEF PageBefore, OnCourse, Streaming
<1>11. PICK e \in Nat : e = buffer[old.training].emitted
  BY <1>10 DEF LogInv, LogTypes, LogBuffer
<1>12. /\ \A i \in 1 .. n : b[i] = id + i - 1
       /\ b[n] < e /\ n <= MaxLen
       /\ \A k \in old.next .. id - 1 : Dropped(k, old.training)
  BY <1>1, <1>2, <1>5, <1>6, <1>7, <1>11 DEF PageBefore, BatchFollows
<1>13. /\ me \in Page /\ me.pc = old.pc /\ me.training = old.training /\ me.next = id + 1
       /\ me.batch = y /\ me.done = old.done /\ me.last = id
  <2>1. id \in Nat /\ id + 1 \in Nat
    BY <1>6
  <2> QED BY <1>1, <1>4, <1>6, <1>8, <1>9, <2>1 DEF PageBefore, Page
<1>14. OnCourse(me, lines \cup {id})
  <2>1. lines \cup {id} \subseteq 0 .. id
    <3>1. lines \subseteq 0 .. old.last
      BY <1>1 DEF PageBefore, OnCourse
    <3>2. PICK k \in Nat, l \in Int : k = id /\ l = old.last
      BY <1>6, <1>10
    <3>3. \A x \in 0 .. l : x \in 0 .. k
      BY <1>6, <3>2
    <3> QED BY <3>1, <3>2, <3>3
  <2> QED BY <1>1, <1>5, <1>10, <1>13, <2>1 DEF PageBefore, OnCourse, Streaming, Training
<1>15. n > 1 => /\ y[1] = id + 1 /\ y[n - 1] = b[n]
                /\ \A i \in 1 .. n - 1 : y[i] = y[1] + i - 1
  <2> SUFFICES ASSUME n > 1
               PROVE  /\ y[1] = id + 1 /\ y[n - 1] = b[n]
                      /\ \A i \in 1 .. n - 1 : y[i] = id + 1 + i - 1
    OBVIOUS
  <2>1. \A i \in 1 .. n - 1 : i + 1 \in 1 .. n /\ y[i] = b[i + 1]
    BY <1>9
  <2>2. \A i \in 1 .. n - 1 : y[i] = id + (i + 1) - 1
    BY <1>12, <2>1
  <2>3. 1 \in 1 .. n - 1 /\ n - 1 \in 1 .. n - 1 /\ (n - 1) + 1 = n
    OBVIOUS
  <2>4. y[n - 1] = b[(n - 1) + 1]
    BY <2>1, <2>3
  <2> QED BY <1>6, <2>2, <2>3, <2>4
<1>16. y # <<>> => n > 1
  BY <1>9, EmptySeq
<1>17. BatchFollows(me)
  <2> SUFFICES ASSUME y # <<>> PROVE BatchFollows(me)
    BY <1>13 DEF BatchFollows
  <2>1. n > 1 /\ Len(y) = n - 1
    BY <1>9, <1>16
  <2>2. y[1] = id + 1 /\ y[n - 1] < e /\ n - 1 <= MaxLen
    BY <1>12, <1>15, <2>1
  <2>3. \A k \in id + 1 .. y[1] - 1 : Dropped(k, old.training)
    BY <1>6, <2>2
  <2>4. id + 1 <= y[1]
    BY <1>6, <2>2
  <2> QED BY <1>11, <1>13, <1>15, <2>1, <2>2, <2>3, <2>4 DEF BatchFollows
<1>18. LastLook(me)
  <2> SUFFICES ASSUME old.pc = "draining" PROVE LastLook(me)
    BY <1>13 DEF LastLook
  <2>1. old.done /\ b[n] = e - 1
    BY <1>1, <1>2, <1>5, <1>7, <1>11 DEF PageBefore, LastLook
  <2>2. CASE y = <<>>
    <3>1. n = 1
      <4>1. Len(<<>>) = 0
        OBVIOUS
      <4>2. Len(y) = 0
        BY <2>2, <4>1
      <4> QED BY <1>9, <4>2
    <3>2. id = e - 1
      BY <1>6, <2>1, <3>1
    <3>3. \A k \in id + 1 .. e - 1 : Dropped(k, old.training)
      BY <1>6, <3>2
    <3> QED BY <1>11, <1>13, <2>1, <2>2, <3>3 DEF LastLook
  <2>3. CASE y # <<>>
    BY <1>9, <1>11, <1>13, <1>15, <1>16, <2>1, <2>3 DEF LastLook
  <2> QED BY <2>2, <2>3
<1>19. AllSent(me, lines \cup {id})
  BY <1>5, <1>13 DEF AllSent
<1>20. r \notin stranger => KeptUp(me, lines \cup {id})
  <2> SUFFICES ASSUME r \notin stranger, NEW k \in 0 .. id
               PROVE  k \in lines \cup {id} \/ Dropped(k, old.training)
    BY <1>13 DEF KeptUp
  <2>1. \A j \in 0 .. old.last : j \in lines \/ Dropped(j, old.training)
    BY <1>1, <1>10, LogConstants DEF PageBefore, KeptUp, Training
  <2>2. k \in 0 .. old.last \/ k \in old.next .. id - 1 \/ k = id
    BY <1>6, <1>10
  <2> QED BY <1>12, <2>1, <2>2
<1>21. PageInv(me, lines \cup {id}, r \in stranger)
  BY <1>14, <1>17, <1>18, <1>19, <1>20 DEF PageInv
<1>22. lines \cup {id} \in SUBSET Id /\ stranger \subseteq Reader
  BY <1>1, <1>6 DEF PageBefore
<1> QED BY <1>5, <1>13, <1>21, <1>22, PageMoves

LEMMA LookSteps ==
  ASSUME LogInv, NEW r \in Reader, LooksAgain(r)
  PROVE  LogInv'
<1> USE LogConstants
<1>1. PICK old, lines : PageBefore(r, old, lines)
  BY PageKnown
<1>2. /\ old.pc = "sending" /\ old.batch = <<>> /\ UNCHANGED trainings
      /\ UNCHANGED <<got, stranger>>
  BY <1>1 DEF PageBefore, LooksAgain
<1>3. old.training \in Training /\ old.next = old.last + 1 /\ old.next \in Nat
  BY <1>1, <1>2 DEF PageBefore, OnCourse, Streaming
<1>4. PICK e \in Nat : e = buffer[old.training].emitted
  BY <1>3 DEF LogInv, LogTypes, LogBuffer
<1>5. lines \in SUBSET Id /\ got' = [got EXCEPT ![r] = lines] /\ stranger' = stranger
      /\ stranger \subseteq Reader
  BY <1>1, <1>2 DEF PageBefore
<1>6. CASE old.done
  <2>1. PICK x : x = LinesFrom(old.training, old.next)
    OBVIOUS
  <2>2. PICK me : me = [old EXCEPT !.pc = "draining", !.batch = x]
    OBVIOUS
  <2>3. Becomes(r, me)
    BY <1>1, <1>6, <2>1, <2>2 DEF PageBefore, LooksAgain
  <2>4. /\ x \in Seq(Id) /\ Len(x) <= MaxLen
        /\ x # <<>> => /\ \A i \in 1 .. Len(x) : x[i] = x[1] + i - 1
                       /\ old.next <= x[1] /\ x[Len(x)] = e - 1
                       /\ \A id \in old.next .. x[1] - 1 : Dropped(id, old.training)
        /\ x = <<>> => \A id \in old.next .. e - 1 : Dropped(id, old.training)
    <3>1. PICK t \in Training, next \in Nat : t = old.training /\ next = old.next
      BY <1>3
    <3>2. Taken(x, t, next, e)
      BY <1>4, <2>1, <3>1 DEF Taken
    <3>3. /\ x \in Seq(Id) /\ Len(x) <= MaxLen
          /\ x # <<>> => /\ \A i \in 1 .. Len(x) : x[i] = x[1] + i - 1
                         /\ next <= x[1] /\ x[Len(x)] = e - 1
                         /\ \A id \in next .. x[1] - 1 : Dropped(id, t)
          /\ x = <<>> => \A id \in next .. e - 1 : Dropped(id, t)
      BY <3>2, LinesInARow
    <3> QED BY <3>1, <3>3
  <2>5. /\ me \in Page /\ me.pc = "draining" /\ me.training = old.training
        /\ me.next = old.next /\ me.batch = x /\ me.done = old.done /\ me.last = old.last
    BY <1>1, <2>2, <2>4 DEF PageBefore, Page
  <2>6. OnCourse(me, lines)
    BY <1>1, <1>2, <1>3, <2>5 DEF PageBefore, OnCourse, Streaming
  <2>7. BatchFollows(me)
    BY <1>4, <2>4, <2>5 DEF BatchFollows
  <2>8. LastLook(me)
    BY <1>4, <1>6, <2>4, <2>5 DEF LastLook
  <2>9. AllSent(me, lines) /\ (r \notin stranger => KeptUp(me, lines))
    BY <1>1, <2>5 DEF PageBefore, AllSent, KeptUp
  <2>10. PageInv(me, lines, r \in stranger)
    BY <2>6, <2>7, <2>8, <2>9 DEF PageInv
  <2> QED BY <1>2, <1>5, <2>3, <2>5, <2>10, PageMoves
<1>7. CASE ~old.done
  <2>1. PICK me : me = [old EXCEPT !.pc = "waiting"]
    OBVIOUS
  <2>2. Becomes(r, me)
    BY <1>1, <1>7, <2>1 DEF PageBefore, LooksAgain
  <2>3. /\ me \in Page /\ me.pc = "waiting" /\ me.training = old.training
        /\ me.next = old.next /\ me.batch = <<>> /\ me.done = old.done /\ me.last = old.last
    BY <1>1, <1>2, <2>1 DEF PageBefore, Page
  <2>4. OnCourse(me, lines)
    BY <1>1, <1>2, <1>3, <2>3 DEF PageBefore, OnCourse, Streaming
  <2>5. BatchFollows(me) /\ LastLook(me) /\ AllSent(me, lines)
        /\ (r \notin stranger => KeptUp(me, lines))
    BY <1>1, <2>3 DEF PageBefore, BatchFollows, LastLook, AllSent, KeptUp
  <2>6. PageInv(me, lines, r \in stranger)
    BY <2>4, <2>5 DEF PageInv
  <2> QED BY <1>2, <1>5, <2>2, <2>3, <2>6, PageMoves
<1> QED BY <1>6, <1>7

LEMMA FinishSteps ==
  ASSUME LogInv, NEW r \in Reader, Finishes(r)
  PROVE  LogInv'
<1> USE LogConstants
<1>1. PICK old, lines : PageBefore(r, old, lines)
  BY PageKnown
<1>2. PICK me : me = [old EXCEPT !.pc = "finished", !.done = FALSE]
  OBVIOUS
<1>3. /\ old.pc = "draining" /\ old.batch = <<>> /\ Becomes(r, me) /\ UNCHANGED trainings
      /\ UNCHANGED <<got, stranger>>
  BY <1>1, <1>2 DEF PageBefore, Finishes
<1>4. /\ old.training \in Training /\ old.next = old.last + 1 /\ old.last \in Int
      /\ old.done /\ buffer[old.training].done
  BY <1>1, <1>3 DEF PageBefore, OnCourse, LastLook, Streaming
<1>5. PICK e \in Nat : e = buffer[old.training].emitted
  BY <1>4 DEF LogInv, LogTypes, LogBuffer
<1>6. /\ me \in Page /\ me.pc = "finished" /\ me.training = old.training
      /\ me.batch = <<>> /\ ~me.done /\ me.last = old.last /\ me.next = old.next
  BY <1>1, <1>2, <1>3 DEF PageBefore, Page
<1>7. OnCourse(me, lines) /\ BatchFollows(me) /\ LastLook(me)
  BY <1>1, <1>6 DEF PageBefore, OnCourse, BatchFollows, LastLook, Streaming
<1>8. ASSUME r \notin stranger
      PROVE  KeptUp(me, lines) /\ AllSent(me, lines)
  <2>1. KeptUp(old, lines)
    BY <1>1, <1>8 DEF PageBefore
  <2>2. \A id \in old.next .. e - 1 : Dropped(id, old.training)
    BY <1>1, <1>3, <1>5 DEF PageBefore, LastLook
  <2>3. \A id \in 0 .. old.last : id \in lines \/ Dropped(id, old.training)
    BY <1>4, <2>1 DEF KeptUp, Training
  <2>4. \A id \in 0 .. e - 1 : id \in 0 .. old.last \/ id \in old.next .. e - 1
    BY <1>4
  <2>5. \A id \in 0 .. e - 1 : id \in lines \/ Dropped(id, old.training)
    BY <2>2, <2>3, <2>4
  <2> QED BY <1>4, <1>5, <1>6, <2>3, <2>5 DEF KeptUp, AllSent
<1>9. PageInv(me, lines, r \in stranger)
  BY <1>7, <1>8 DEF PageInv
<1>10. lines \in SUBSET Id /\ got' = [got EXCEPT ![r] = lines] /\ stranger' = stranger
       /\ stranger \subseteq Reader
  BY <1>1, <1>3 DEF PageBefore
<1> QED BY <1>3, <1>6, <1>9, <1>10, PageMoves

LEMMA LeaveSteps ==
  ASSUME LogInv, NEW r \in Reader, Breaks(r) \/ Reloads(r)
  PROVE  LogInv'
<1> USE LogConstants
<1>1. PICK old, lines : PageBefore(r, old, lines)
  BY PageKnown
<1>2. CASE Breaks(r)
  <2>1. PICK me : me = [old EXCEPT !.pc = "away", !.batch = <<>>, !.done = FALSE]
    OBVIOUS
  <2>2. Becomes(r, me) /\ UNCHANGED trainings /\ UNCHANGED <<got, stranger>>
    BY <1>1, <1>2, <2>1 DEF PageBefore, Breaks
  <2>3. /\ me \in Page /\ me.pc = "away" /\ me.training = old.training
        /\ me.batch = <<>> /\ ~me.done /\ me.last = old.last /\ me.next = old.next
    <3>1. <<>> \in Seq(Id)
      BY EmptySeq
    <3> QED BY <1>1, <2>1, <3>1 DEF PageBefore, Page
  <2>4. OnCourse(me, lines) /\ BatchFollows(me) /\ LastLook(me) /\ AllSent(me, lines)
    BY <1>1, <2>3 DEF PageBefore, OnCourse, BatchFollows, LastLook, AllSent, Streaming
  <2>5. r \notin stranger => KeptUp(me, lines)
    BY <1>1, <2>3 DEF PageBefore, KeptUp
  <2>6. PageInv(me, lines, r \in stranger)
    BY <2>4, <2>5 DEF PageInv
  <2>7. lines \in SUBSET Id /\ got' = [got EXCEPT ![r] = lines] /\ stranger' = stranger
        /\ stranger \subseteq Reader
    BY <1>1, <2>2 DEF PageBefore
  <2> QED BY <2>2, <2>3, <2>6, <2>7, PageMoves
<1>3. CASE Reloads(r)
  <2>1. /\ Becomes(r, NoReader) /\ UNCHANGED trainings /\ got' = [got EXCEPT ![r] = {}]
        /\ stranger' = stranger \ {r}
    BY <1>3 DEF Reloads
  <2>2. /\ NoReader \in Page /\ NoReader.pc = "away" /\ NoReader.training = 0
        /\ NoReader.batch = <<>> /\ ~NoReader.done /\ NoReader.last = NoLine /\ NoReader.next = 0
    BY DEF NoReader, Page
  <2>3. OnCourse(NoReader, {})
    BY <1>1, <2>2 DEF PageBefore, OnCourse, Streaming
  <2>4. PageInv(NoReader, {}, r \in stranger')
    BY <2>2, <2>3 DEF PageInv, BatchFollows, LastLook, AllSent, KeptUp
  <2>5. {} \in SUBSET Id /\ stranger' \subseteq Reader /\ stranger' \ {r} = stranger \ {r}
    BY <1>1, <2>1 DEF PageBefore
  <2> QED BY <2>1, <2>2, <2>4, <2>5, PageMoves
<1> QED BY <1>2, <1>3

LEMMA LogInvNext == LogInv /\ [LogNext]_trainLogVars => LogInv'
<1> SUFFICES ASSUME LogInv, [LogNext]_trainLogVars PROVE LogInv'
  OBVIOUS
<1>1. CASE UNCHANGED trainLogVars
  <2>1. UNCHANGED <<current, proc, printed, buffer, reader, got, stranger>>
    BY <1>1 DEF trainLogVars
  <2>2. LogTypes' /\ BufferHoldsTheEnd'
    BY <2>1 DEF LogInv, LogTypes, BufferHoldsTheEnd, AtEof
  <2>3. \A r \in Reader : PageInv(reader[r], got[r], r \in stranger)'
    BY <2>1 DEF LogInv, PageInv, OnCourse, BatchFollows, LastLook, KeptUp, AllSent, Dropped
  <2> QED BY <2>2, <2>3 DEF LogInv
<1>2. CASE Start \/ Stop
  BY <1>2, TrainingSteps
<1>3. ASSUME NEW t \in Training, Prints(t) \/ Exits(t) \/ Worker(t)
      PROVE  LogInv'
  BY <1>3, TrainingSteps, DrainSteps DEF Worker
<1>4. ASSUME NEW r \in Reader, Connects(r) \/ Serves(r) \/ Breaks(r) \/ Reloads(r)
      PROVE  LogInv'
  BY <1>4, ConnectSteps, TakeSteps, SendSteps, LookSteps, FinishSteps, LeaveSteps DEF Serves
<1> QED BY <1>1, <1>2, <1>3, <1>4 DEF LogNext

LEMMA LogInvHolds == LogSpec => []LogInv
BY LogStarts, LogInvNext, PTL DEF LogSpec

LEMMA NothingIsSkipped == LogInv => NothingSkipped
<1> SUFFICES ASSUME LogInv, NEW r \in Reader \ stranger, Connected(r),
                    NEW id \in 0 .. reader[r].next - 1
             PROVE  id \in got[r] \/ id < buffer[reader[r].training].emitted - MaxLen
  BY DEF NothingSkipped
<1>1. PICK me, lines : PageBefore(r, me, lines)
  BY PageKnown
<1>2. /\ KeptUp(me, lines) /\ me.training # 0 /\ me.next = me.last + 1 /\ me.last + 1 \in Nat
      /\ me = reader[r] /\ lines = got[r] /\ (me.last \in Id \/ me.last = -1)
  BY <1>1, LogConstants DEF PageBefore, OnCourse, Streaming, Connected
<1>3. id \in 0 .. me.last
  <2>1. PICK l \in Int : l = me.last
    BY <1>1 DEF PageBefore
  <2>2. reader[r].next - 1 = l
    BY <1>2, <2>1
  <2> QED BY <2>1, <2>2
<1> QED BY <1>2, <1>3 DEF KeptUp, Dropped

LEMMA DoneIsAll == LogInv => DoneMeansAll
<1> SUFFICES ASSUME LogInv, NEW r \in Reader \ stranger, reader[r].pc = "finished",
                    reader[r].training # 0
             PROVE  LET t == reader[r].training IN
                    /\ buffer[t].done
                    /\ \A id \in 0 .. printed[t] - 1 : id \in got[r] \/ id < printed[t] - MaxLen
  BY DEF DoneMeansAll
<1>1. PICK me, lines : PageBefore(r, me, lines)
  BY PageKnown
<1>2. /\ AllSent(me, lines) /\ me.training \in Training /\ me = reader[r] /\ lines = got[r]
      /\ me.pc = "finished" /\ me.training # 0
  BY <1>1 DEF PageBefore
<1>3. buffer[me.training].done
  BY <1>2 DEF AllSent
<1>4. buffer[me.training].emitted = printed[me.training]
  BY <1>2, <1>3 DEF LogInv, BufferHoldsTheEnd, AtEof
<1> QED BY <1>2, <1>3, <1>4 DEF AllSent, Dropped

LEMMA NoLineComesTwice ==
  LogInv => [\A r \in Reader : Sends(r) => Head(reader[r].batch) \notin got[r]]_trainLogVars
BY BatchIsNew DEF Sends

LEMMA LogIsTyped == LogInv => LogTypeOK
<1> SUFFICES ASSUME LogInv PROVE LogTypeOK
  OBVIOUS
<1> USE LogConstants
<1>1. ASSUME NEW x \in Seq(Id), Len(x) <= MaxLen
      PROVE  x \in BoundedSeq(Id, MaxLen)
  <2>1. PICK n \in Nat : n = Len(x) /\ n \in 0 .. MaxLen
    BY <1>1, LenProperties
  <2>2. x \in [1 .. n -> Id]
    BY <2>1, LenProperties
  <2> QED BY <2>1, <2>2 DEF BoundedSeq, SeqOf
<1>2. ASSUME NEW t \in Training
      PROVE  /\ buffer[t].lines \in BoundedSeq(Id, MaxLen)
             /\ buffer[t].emitted \in 0 .. printed[t]
             /\ buffer[t].done \in BOOLEAN
  <2>1. PICK b \in LogBuffer : b = buffer[t]
    BY DEF LogInv, LogTypes
  <2>2. b.lines \in Seq(Id) /\ b.emitted \in Nat /\ b.done \in BOOLEAN
    BY DEF LogBuffer
  <2>3. /\ b.emitted <= printed[t]
        /\ Len(b.lines) = IF b.emitted < MaxLen THEN b.emitted ELSE MaxLen
    BY <2>1 DEF LogInv, BufferHoldsTheEnd
  <2>4. printed[t] \in Nat
    BY DEF LogInv, LogTypes
  <2>5. b.lines \in BoundedSeq(Id, MaxLen)
    BY <1>1, <2>2, <2>3
  <2> QED BY <2>1, <2>2, <2>3, <2>4, <2>5
<1>3. ASSUME NEW r \in Reader
      PROVE  /\ reader[r].pc \in {"away", "waiting", "sending", "draining", "finished"}
             /\ reader[r].training \in 0 .. current
             /\ {reader[r].next, reader[r].last + 1} \subseteq 0 .. Lines
             /\ reader[r].batch \in BoundedSeq(Id, MaxLen) /\ reader[r].done \in BOOLEAN
             /\ got[r] \subseteq Id
  <2>1. PICK me, lines : PageBefore(r, me, lines)
    BY PageKnown
  <2>2. me.next = me.last + 1 /\ me.last + 1 \in 0 .. Lines
    <3>1. me.next = me.last + 1 /\ (me.last \in Id \/ me.last = -1)
      BY <2>1 DEF PageBefore, OnCourse
    <3> QED BY <3>1 DEF Id
  <2>3. me.batch \in BoundedSeq(Id, MaxLen)
    <3>1. me.batch \in Seq(Id) /\ (me.batch # <<>> => Len(me.batch) <= MaxLen)
      BY <2>1 DEF PageBefore, BatchFollows
    <3>2. Len(me.batch) <= MaxLen
      BY <3>1, EmptySeq
    <3> QED BY <1>1, <3>1, <3>2
  <2> QED BY <2>1, <2>2, <2>3 DEF PageBefore, Page
<1> QED BY <1>2, <1>3 DEF LogInv, LogTypes, LogTypeOK

\* The stream of log lines stays typed: no buffer and no batch grows past the buffer's bound
\* and no page is ahead of the training (TrainLogBuffer).
THEOREM LogStaysTyped == LogSpec => []LogTypeOK
BY LogInvHolds, LogIsTyped, PTL

\* Every page that is not a stranger to the training gets each line it prints, but for those
\* that had to make room before the page came to them, in order and once; and event: done
\* says that it has (get_lines_from, the generator of /api/train/logs, TrainLogBuffer).
THEOREM LogLinesArriveOnce == LogSpec => LinesArriveOnce
<1>1. LogSpec => []LogInv
  BY LogInvHolds
<1>2. LogSpec => []NothingSkipped
  BY <1>1, NothingIsSkipped, PTL
<1>3. LogSpec => []DoneMeansAll
  BY <1>1, DoneIsAll, PTL
<1>4. LogSpec => NoLineTwice
  BY <1>1, NoLineComesTwice, PTL DEF NoLineTwice
<1> QED BY <1>2, <1>3, <1>4 DEF LinesArriveOnce

-----------------------------------------------------------------------------
(* Side by side, as MCProcesses has them.                                  *)

ProcessesInv ==
  /\ KlInv
  /\ GraceInv /\ GraceBounds
  /\ LogInv
  /\ MetricsInv /\ MetricsBounds
  /\ McpInv
  /\ LambdaInv
  /\ LoopInv

\* What the others do is nothing to a component.
LEMMA EachStepsAlone ==
  [Next]_vars =>
    /\ [KlNext]_klVars
    /\ [GraceNext]_graceVars
    /\ [LogNext]_trainLogVars
    /\ [MetricsNext]_metricsVars
    /\ [McpNext]_mcpVars
    /\ [LambdaNext]_lambdaVars
    /\ [LoopNext]_loopVars
<1> SUFFICES ASSUME [Next]_vars
             PROVE  /\ [KlNext]_klVars
                    /\ [GraceNext]_graceVars
                    /\ [LogNext]_trainLogVars
                    /\ [MetricsNext]_metricsVars
                    /\ [McpNext]_mcpVars
                    /\ [LambdaNext]_lambdaVars
                    /\ [LoopNext]_loopVars
  OBVIOUS
<1>1. CASE KlActs
  BY <1>1, Zenon DEF KlActs, Only
<1>2. CASE GraceActs
  BY <1>2, Zenon DEF GraceActs, Only
<1>3. CASE LogActs
  BY <1>3, Zenon DEF LogActs, Only
<1>4. CASE MetricsActs
  BY <1>4, Zenon DEF MetricsActs, Only
<1>5. CASE McpActs
  BY <1>5, Zenon DEF McpActs, Only
<1>6. CASE LambdaActs
  BY <1>6, Zenon DEF LambdaActs, Only
<1>7. CASE LoopActs
  BY <1>7, Zenon DEF LoopActs, Only
<1>8. CASE UNCHANGED vars
  BY <1>8, Zenon DEF vars
<1> QED BY <1>1, <1>2, <1>3, <1>4, <1>5, <1>6, <1>7, <1>8, Zenon DEF Next

\* Each keeps its types: no counter passes its bound, no program counter, row or buffer is in
\* a state the code does not know.
THEOREM ProcessesStayTyped == Spec => []ProcessesTyped
<1>1. Init => ProcessesInv
  BY KlStarts, GraceStarts, GraceBoundsStart, LogStarts, MetricsStarts, MetricsBoundsStart,
     McpStarts, LambdaStarts, LoopInvInit DEF Init, ProcessesInv
<1>2. ProcessesInv /\ [Next]_vars => ProcessesInv'
  BY EachStepsAlone, KlStep, GraceStep, GraceBoundsKept, LogInvNext, MetricsStep,
     MetricsBoundsKept, McpStep, LambdaStep, LoopInvNext DEF ProcessesInv
<1>3. ProcessesInv => ProcessesTyped
  BY GraceIsTyped, LogIsTyped, MetricsIsTyped
     DEF ProcessesInv, ProcessesTyped, KlInv, McpInv, LambdaInv, LoopInv
<1> QED BY <1>1, <1>2, <1>3, PTL DEF Spec
=============================================================================
