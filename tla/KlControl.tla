------------------------------ MODULE KlControl ------------------------------
(***************************************************************************)
(* The bang-bang controller of the KL coefficient, mode kl_control         *)
(* (bang_bang_step and _run_bang_bang of utils/reward_hack_control.py).    *)
(* One action is one optimizer step: a vote comes in, the controller moves *)
(* and the trainer's coefficient follows, unless the controller holds.     *)
(*                                                                         *)
(* Coefficients are integers, a vote is the band it falls into.  Constants *)
(* are to be chosen so that the divisions are exact.  The schema bounds    *)
(* floor and ceiling by each other; of the coefficient that a training is  *)
(* configured with it asks only that it is positive.                       *)
(***************************************************************************)
EXTENDS Integers

CONSTANTS
  Floor, Ceil, Gain,      \* beta_floor, beta_ceil, kl_gain
  Dwell, ReleasePatience,
  Configured,             \* the trainer's coefficients, as configured
  NoCoefficient           \* there is none to read

ASSUME KlAssumption ==
  /\ {Floor, Ceil, Gain, Dwell, ReleasePatience} \subseteq Nat \ {0}
  /\ Floor < Ceil /\ Gain > 1
  /\ Configured \subseteq Nat \ {0} /\ NoCoefficient \notin Nat

VARIABLES
  live,       \* trainer.beta and trainer.args.beta, or args.kl_coef
  beta, tripped, dwell, release,  \* ControllerState; beta 0 is not seeded yet
  \* history:
  configured, \* the trainer's coefficient before the controller's first write
  vote,       \* the last vote
  hot, cool,  \* votes of its kind in a row; cool since the last relaxation
  odd         \* the parity of the step: every step is a change

klVars == <<live, beta, tripped, dwell, release, configured, vote, hot, cool, odd>>

Vote == {"trip", "dead", "release"}

KTypeOK ==
  /\ live \in Nat \cup {NoCoefficient} /\ beta \in Nat
  /\ tripped \in BOOLEAN /\ dwell \in 0 .. Dwell - 1 /\ release \in 0 .. ReleasePatience - 1
  /\ tripped => dwell = 0
  /\ configured \in Configured \cup {NoCoefficient}
  /\ vote \in Vote /\ hot \in 0 .. Dwell /\ cool \in 0 .. ReleasePatience
  /\ odd \in BOOLEAN

KlInit ==
  /\ live \in Configured \cup {NoCoefficient} /\ configured = live
  /\ beta = 0 /\ tripped = FALSE /\ dwell = 0 /\ release = 0
  /\ vote = "dead" /\ hot = 0 /\ cool = 0 /\ odd = FALSE

\* _seed_coefficient
Seeded == IF beta > 0 THEN beta ELSE IF live # NoCoefficient THEN live ELSE Floor

Raised(b) == IF b * Gain > Ceil THEN Ceil ELSE b * Gain
Relaxed(b) == IF b \div Gain < Floor THEN Floor ELSE b \div Gain

\* _apply_coefficient, skipped when the controller holds.
Commits(b) == beta' = b /\ live' = b
Holds == beta' = Seeded /\ UNCHANGED live

\* History: how many votes of this kind in a row, as far as it matters.
Counted(n, limit) == IF n < limit THEN n + 1 ELSE n

\* Mutant of Enough: one vote more.
EnoughMore(count, needed) == count >= needed

\* With this vote the patience is over.
Enough(count, needed) == count + 1 >= needed

\* At or above the trip band.
VotesTrip ==
  /\ vote' = "trip" /\ hot' = Counted(hot, Dwell) /\ cool' = 0
  /\ release' = 0
  /\ \/ /\ ~tripped /\ ~Enough(dwell, Dwell)
        /\ dwell' = dwell + 1
        /\ Holds /\ UNCHANGED tripped
     \/ /\ ~tripped /\ Enough(dwell, Dwell)
        /\ dwell' = 0 /\ tripped' = TRUE
        /\ Commits(Raised(Seeded))
     \/ /\ tripped
        /\ IF Raised(Seeded) = Seeded THEN Holds ELSE Commits(Raised(Seeded))
        /\ UNCHANGED <<tripped, dwell>>

\* Back at the floor, the next raise has to be dwelt for again.
Settled(b) == b <= Floor

\* At or below the release band.
VotesRelease ==
  /\ vote' = "release" /\ hot' = 0
  /\ dwell' = 0
  /\ IF tripped /\ Enough(release, ReleasePatience)
       THEN LET b == Relaxed(Seeded) IN
            /\ release' = 0 /\ cool' = 0
            /\ IF b = Seeded THEN Holds ELSE Commits(b)
            /\ tripped' = ~Settled(b)
       ELSE /\ release' = IF tripped THEN release + 1 ELSE 0
            /\ cool' = Counted(cool, ReleasePatience)
            /\ Holds /\ UNCHANGED tripped

\* Mutant of Decayed: a vote between the bands leaves the counters.
DecayedNot(count) == count

Decayed(count) == 0

\* Between the bands.
VotesDead ==
  /\ vote' = "dead" /\ hot' = 0 /\ cool' = 0
  /\ dwell' = Decayed(dwell) /\ release' = Decayed(release)
  /\ Holds /\ UNCHANGED tripped

KlNext ==
  /\ VotesTrip \/ VotesRelease \/ VotesDead
  /\ odd' = ~odd /\ UNCHANGED configured

\* A step follows the other.
KlFairness == WF_klVars(KlNext)

KlSpec == KlInit /\ [][KlNext]_klVars /\ KlFairness

-----------------------------------------------------------------------------
(* Properties.                                                             *)

\* A signal that flaps across the bands does not move the coefficient.  Out of rest it
\* is moved only by Dwell votes to trip in a row; a vote to trip raises it, unless it was
\* configured above the ceiling; and any other vote moves it only as the last of
\* ReleasePatience to release in a row since it was last relaxed (BangBangPolicy).
NoFlapping ==
  [][beta # 0 /\ beta' # beta =>
       /\ ~tripped => hot + 1 >= Dwell /\ vote' = "trip"
       /\ vote' = "trip" => beta' > beta \/ (~tripped /\ beta > Ceil)
       /\ vote' # "trip" => cool + 1 >= ReleasePatience /\ vote' = "release"]_klVars

\* The trainer trains with what the controller holds, or has never been given any.
LiveIsCommitted == beta # 0 => live = beta \/ (live = NoCoefficient /\ ~tripped)

StartsIn(range) == configured = NoCoefficient \/ configured \in range

\* Raised exactly as long as it is above rest: tripped is never a dead end, and a
\* controller at rest has its dwell before it again.  Only one that starts below the
\* floor can be tripped there.
TrippedIsRaised ==
  tripped => beta <= Ceil /\ (beta > Floor \/ ~StartsIn(Floor .. Ceil))

\* A controller that starts in the range never leaves it.
RangeIsKept == beta # 0 /\ StartsIn(Floor .. Ceil) => beta \in Floor .. Ceil

\* When the vote stays high, beta is multiplied by the gain, `clamped to
\* [reward_hack_beta_floor > 0, reward_hack_beta_ceil]` (docs/training.md).
RaisedIsClamped == tripped => beta \in Floor .. Ceil

\* A signal that stays high ends with the coefficient at the ceiling, one that stays
\* low ends with a controller at rest.
EscalatesToTheCeiling == <>[](vote = "trip") => <>[](beta = Ceil /\ live = Ceil)
ComesToRest == <>[](vote = "release") => <>[]~tripped

\* All that holds of the coefficient, at any step and in the long run.
FollowsTheSignal ==
  /\ []LiveIsCommitted /\ []TrippedIsRaised /\ []RangeIsKept /\ NoFlapping
  /\ EscalatesToTheCeiling /\ ComesToRest
=============================================================================
