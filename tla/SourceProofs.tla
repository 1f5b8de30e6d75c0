---------------------------- MODULE SourceProofs ----------------------------
(***************************************************************************)
(* Theorems about AsyncDiskSource, for every number of layers, shapes,     *)
(* slots and copies in flight, wherever the reader, the consumer and       *)
(* close() are: the choices _claim_slot and _plan_queue make are always    *)
(* defined, a plan is a sequence of layers, and every state is well typed; *)
(* the staging buffers are never overwritten under a reference or a copy,  *)
(* and the reader never waits for a loan; so the source implements         *)
(* LayerLoan: whatever the reader, the queue and the slots do, its         *)
(* consumer sees loans of whole layers and nothing else.                   *)
(***************************************************************************)
EXTENDS AsyncDiskSource, TLAPS, FiniteSetTheorems, WellFoundedInduction

-----------------------------------------------------------------------------
(* Choices, plans and types.                                               *)

Less == {ss \in Nat \X Nat : ss[1] < ss[2]}

\* Every nonempty set of naturals has a least element.
LEMMA LeastExists ==
  ASSUME NEW T \in SUBSET Nat, T # {}
  PROVE  \E x \in T : \A y \in T : x <= y
<1>1. IsWellFoundedOn(Less, Nat)
  BY NatLessThanWellFounded DEF OpToRel, Less
<1>2. \E x \in T : \A y \in T : ~(<<y, x>> \in Less)
  BY <1>1, WFMin, Zenon
<1> QED
  <2>1. PICK x \in T : \A y \in T : ~(<<y, x>> \in Less)
    BY <1>2
  <2>2. \A y \in T : ~(y < x)
    BY <2>1 DEF Less
  <2>3. \A y \in T : x \in Nat /\ y \in Nat
    OBVIOUS
  <2> QED BY <2>2, <2>3

-----------------------------------------------------------------------------
\* Every shape has at least one slot.
LEMMA SpanIsPositive ==
  ASSUME NEW g \in Group
  PROVE  Span(g) \in Nat \ {0}
<1>1. NLayers \in Nat /\ ReadAhead \in Nat \ {0}
  BY SourceAssumption
<1>2. IsFiniteSet(Layer)
  BY <1>1, FS_Interval DEF Layer
<1>3. IsFiniteSet(Members(g))
  BY <1>2, FS_Subset DEF Members
<1>4. Members(g) # {}
  BY SourceAssumption DEF Members
<1>5. Cardinality(Members(g)) \in Nat \ {0}
  BY <1>3, <1>4, FS_EmptySet, FS_CardinalityType
<1> QED BY <1>1, <1>5 DEF Span

\* Rotation stays inside the group's slots.
LEMMA RotationInRange ==
  ASSUME NEW g \in Group, NEW n \in Nat
  PROVE  n % Span(g) \in 0 .. Span(g) - 1
BY SpanIsPositive

LEMMA SlotAtIsSlot ==
  ASSUME NEW g \in Group, nextSlot \in [Group -> Nat], NEW o \in Nat
  PROVE  SlotAt(g, o) \in Slot
<1>1. (nextSlot[g] + o) % Span(g) \in 0 .. Span(g) - 1
  BY RotationInRange
<1> QED BY <1>1 DEF SlotAt, Slot

\* _claim_slot picks a slot that is not on loan, whenever there is one.
LEMMA ClaimTakesATakeableSlot ==
  ASSUME NEW g \in Group, Takeable(g) # {}
  PROVE  /\ ClaimOffset(g) \in Takeable(g)
         /\ ClaimOffset(g) \in Nat
<1> DEFINE candidates == IF DoneWith(g) # {} THEN DoneWith(g) ELSE Takeable(g)
<1>1. candidates \subseteq Takeable(g) /\ candidates # {}
  BY DEF DoneWith
<1>2. Takeable(g) \subseteq Nat
  BY SpanIsPositive DEF Takeable
<1>3. \E o \in candidates : \A p \in candidates : o <= p
  BY <1>1, <1>2, LeastExists
<1>4. ClaimOffset(g) \in candidates
  BY <1>3 DEF ClaimOffset
<1> QED BY <1>1, <1>2, <1>4

-----------------------------------------------------------------------------
\* MetBefore orders the layers of a set strictly: the number of layers met
\* before one tells the layers apart, and runs through every rank.
LEMMA RankIsOntoRanks ==
  ASSUME NEW T \in SUBSET Int, IsFiniteSet(T), NEW d \in {-1, 1},
         NEW n \in 1 .. Cardinality(T)
  PROVE  \E l \in T : Cardinality({m \in T : MetBefore(d, m, l)}) = n - 1
<1> DEFINE before(l) == {m \in T : MetBefore(d, m, l)}
           rank == [l \in T |-> Cardinality(before(l))]
           ranks == 0 .. Cardinality(T) - 1
<1>1. Cardinality(T) \in Nat
  BY FS_CardinalityType
<1>2. IsFiniteSet(ranks) /\ Cardinality(ranks) = Cardinality(T)
  BY <1>1, FS_Interval, 0 \in Int, Cardinality(T) - 1 \in Int
<1>3. ASSUME NEW l \in T
      PROVE  IsFiniteSet(before(l)) /\ Cardinality(before(l)) \in Nat
  BY FS_Subset, FS_CardinalityType
<1>4. ASSUME NEW l \in T
      PROVE  Cardinality(before(l)) \in ranks
  <2>1. before(l) \in SUBSET T /\ l \notin before(l)
    BY DEF MetBefore
  <2>2. Cardinality(before(l)) <= Cardinality(T) /\ Cardinality(before(l)) # Cardinality(T)
    BY <2>1, FS_Subset
  <2> QED BY <1>1, <1>3, <2>2
<1>5. ASSUME NEW l \in T, NEW k \in T, MetBefore(d, l, k)
      PROVE  Cardinality(before(l)) # Cardinality(before(k))
  <2>1. \A m \in T : MetBefore(d, m, l) => MetBefore(d, m, k)
    BY <1>5 DEF MetBefore
  <2>2. before(l) \in SUBSET before(k)
    BY <2>1
  <2>3. l \in before(k) /\ l \notin before(l)
    BY <1>5 DEF MetBefore
  <2> QED BY <1>3, <2>2, <2>3, FS_Subset
<1>6. rank \in [T -> ranks]
  BY <1>4
<1>7. ASSUME NEW l \in T, NEW k \in T, rank[l] = rank[k]
      PROVE  l = k
  <2>1. l = k \/ MetBefore(d, l, k) \/ MetBefore(d, k, l)
    BY DEF MetBefore
  <2>2. ~MetBefore(d, l, k) /\ ~MetBefore(d, k, l)
    BY <1>5, <1>7
  <2> QED BY <2>1, <2>2
<1>8. rank \in Injection(T, ranks)
  BY <1>6, <1>7 DEF Injection, IsInjective
<1>9. rank \in Surjection(T, ranks)
  BY <1>2, <1>8, FS_Injection
<1>10. n - 1 \in ranks
  BY <1>1
<1>11. \E l \in T : rank[l] = n - 1
  BY <1>9, <1>10 DEF Surjection
<1> QED BY <1>11

\* A plan is a sequence of layers.
LEMMA PlanIsLayers ==
  ASSUME NEW idx \in Layer, NEW d \in {-1, 1}
  PROVE  PlanQueue(idx, d) \in Seq(Layer)
<1> DEFINE T == Targets(idx, d)
<1>1. T \in SUBSET Layer /\ Layer \in SUBSET Int /\ IsFiniteSet(Layer)
  BY SourceAssumption, FS_Interval DEF Targets, Layer
<1>2. T \in SUBSET Int /\ IsFiniteSet(T) /\ Cardinality(T) \in Nat
  BY <1>1, FS_Subset, FS_CardinalityType
<1> HIDE DEF T
<1>3. ASSUME NEW n \in 1 .. Cardinality(T)
      PROVE  (CHOOSE l \in T : Cardinality({m \in T : MetBefore(d, m, l)}) = n - 1)
               \in Layer
  BY <1>1, <1>2, RankIsOntoRanks
<1> DEFINE plan == [n \in 1 .. Cardinality(T) |->
                     CHOOSE l \in T : Cardinality({m \in T : MetBefore(d, m, l)}) = n - 1]
<1>4. plan \in [1 .. Cardinality(T) -> Layer]
  BY <1>3
<1>5. PlanQueue(idx, d) = plan
  BY DEF PlanQueue, T
<1> HIDE DEF plan
<1> QED BY <1>2, <1>4, <1>5

\* The direction of a walk is up or down.
LEMMA DirectionIsEither ==
  ASSUME NEW idx \in Layer, direction \in [Group -> {-1, 1}]
  PROVE  NotedDirection(idx) \in {-1, 1}
<1>1. GroupOf[idx] \in Group
  BY SourceAssumption
<1> DEFINE g == GroupOf[idx]
           walked == IF lastGet[g] \in {NoLayer, idx} THEN direction[g]
                     ELSE IF idx > lastGet[g] THEN 1 ELSE -1
<1>2. walked \in {-1, 1}
  BY <1>1
<1>3. NotedDirection(idx) \in {walked, -walked}
  BY DEF NotedDirection
<1> HIDE DEF walked
<1> QED BY <1>2, <1>3

-----------------------------------------------------------------------------
(* Types.                                                                  *)

\* The consumer has asked for a layer exactly while it is inside get.
AskedForALayer ==
  /\ getter # "idle" => want \in Layer
  /\ getter = "idle" => want = NoLayer

TypeInv == TypeOK /\ AskedForALayer

LEMMA InitTypes == Init => TypeInv
<1> SUFFICES ASSUME Init PROVE TypeInv
  OBVIOUS
<1>1. 0 \in Layer
  BY SourceAssumption DEF Layer
<1>2. <<0>> \in Seq(Layer) /\ <<>> \in Seq(Loan)
  BY <1>1
<1>3. 1 \in 1 .. MaxReaderStarts
  BY SourceAssumption
<1> QED BY <1>2, <1>3 DEF Init, NoRead, ReaderPc, ReaderState, TypeInv, TypeOK, AskedForALayer

\* A reader woken, or at another point of its code, is still a reader.
LEMMA ReaderMoves ==
  ASSUME NEW r \in ReaderState, NEW pc \in ReaderPc
  PROVE  [r EXCEPT !.pc = pc] \in ReaderState
BY DEF ReaderState

LEMMA AwakeIsTyped ==
  ASSUME NEW r \in ReaderState
  PROVE  Awake(r) \in ReaderState
BY DEF Awake, ReaderState, ReaderPc

LEMMA NoReadIsTyped == NoRead \in ReaderState /\ [NoRead EXCEPT !.pc = "top"] \in ReaderState
                         /\ [NoRead EXCEPT !.pc = "gone"] \in ReaderState
BY DEF NoRead, ReaderState, ReaderPc

LEMMA ReaderTypes == TypeInv /\ (ReaderStep \/ DriveStep) => TypeInv'
<1> SUFFICES ASSUME TypeInv, ReaderStep \/ DriveStep PROVE TypeInv'
  OBVIOUS
<1> USE DEF TypeInv, TypeOK, AskedForALayer
<1>1. CASE ReaderEnter
  <2>1. reader' \in ReaderState
    BY <1>1, ReaderMoves DEF ReaderEnter, ReaderPc
  <2> QED BY <1>1, <2>1 DEF ReaderEnter, sourceVars, consumerVars
<1>2. CASE ReaderDiesUnborn
  <2>1. reader' \in ReaderState
    BY <1>2, ReaderMoves DEF ReaderDiesUnborn, ReaderPc
  <2> QED BY <1>2, <2>1 DEF ReaderDiesUnborn, sourceVars, consumerVars
<1>3. CASE ReaderSleep
  <2>1. reader' \in ReaderState
    BY <1>3, ReaderMoves DEF ReaderSleep, ReaderPc
  <2> QED BY <1>3, <2>1 DEF ReaderSleep, sourceVars, consumerVars
<1>4. CASE ReaderExit
  <2>1. reader' \in ReaderState
    BY <1>4, ReaderMoves DEF ReaderExit, ReaderPc
  <2> QED BY <1>4, <2>1 DEF ReaderExit, sourceVars, consumerVars
<1>5. CASE ReaderSkip
  BY <1>5 DEF ReaderSkip, consumerVars
<1>6. CASE ReaderClaim
  <2> DEFINE idx == Head(queue)
             g == GroupOf[idx]
             slot == SlotAt(g, ClaimOffset(g))
  <2>1. idx \in Layer /\ Tail(queue) \in Seq(Layer)
    BY <1>6 DEF ReaderClaim
  <2>2. g \in Group
    BY <2>1, SourceAssumption
  <2>3. ClaimOffset(g) \in Nat
    BY <1>6, <2>2, ClaimTakesATakeableSlot DEF ReaderClaim
  <2>4. slot \in Slot
    BY <2>2, <2>3, SlotAtIsSlot
  <2>5. (nextSlot[g] + ClaimOffset(g) + 1) % Span(g) \in Nat
    <3>1. nextSlot[g] + ClaimOffset(g) + 1 \in Nat
      BY <2>2, <2>3
    <3> DEFINE n == nextSlot[g] + ClaimOffset(g) + 1
    <3> HIDE DEF n, g
    <3>2. n % Span(g) \in 0 .. Span(g) - 1
      BY <2>2, <3>1, RotationInRange DEF n
    <3> QED BY <3>2 DEF n
  <2>6. nextSlot' \in [Group -> Nat]
    BY <1>6, <2>5 DEF ReaderClaim
  <2>7. slotOf' \in [Layer -> Slot \cup {NoSlot}]
    BY <1>6 DEF ReaderClaim, Evicting
  <2>8. reader' \in ReaderState
    BY <1>6, <2>1, <2>4 DEF ReaderClaim, ReaderPc, ReaderState, DrainBefore
  <2> QED BY <1>6, <2>1, <2>4, <2>6, <2>7, <2>8 DEF ReaderClaim, consumerVars
<1>7. CASE ReaderBeginRead
  <2>1. region' \in [Slot -> Layer \cup {NoLayer, Torn}]
    BY <1>7 DEF ReaderBeginRead
  <2>2. reader' \in ReaderState
    BY <1>7, ReaderMoves DEF ReaderBeginRead, ReaderPc
  <2> QED BY <1>7, <2>1, <2>2 DEF ReaderBeginRead, sourceVars, consumerVars
<1>8. CASE ReaderEndRead
  <2>1. region' \in [Slot -> Layer \cup {NoLayer, Torn}]
    BY <1>8 DEF ReaderEndRead, ReaderState
  <2>2. reader' \in ReaderState
    BY <1>8, ReaderMoves DEF ReaderEndRead, ReaderPc
  <2> QED BY <1>8, <2>1, <2>2 DEF ReaderEndRead, sourceVars, consumerVars
<1>9. CASE ReaderReadFails
  <2>1. reader' \in ReaderState
    BY <1>9, ReaderMoves DEF ReaderReadFails, ReaderPc
  <2> QED BY <1>9, <2>1 DEF ReaderReadFails, sourceVars, consumerVars
<1>10. CASE ReaderPublish
  <2>1. slotOf' \in [Layer -> Slot \cup {NoSlot}]
    BY <1>10 DEF ReaderPublish, Publishing, ReaderState
  <2>2. reader' \in ReaderState
    BY <1>10, NoReadIsTyped DEF ReaderPublish
  <2> QED BY <1>10, <2>1, <2>2 DEF ReaderPublish, consumerVars
<1>11. CASE ReaderFail
  <2>1. reader' \in ReaderState
    BY <1>11, NoReadIsTyped DEF ReaderFail
  <2> QED BY <1>11, <2>1 DEF ReaderFail, consumerVars
<1> QED BY <1>1, <1>2, <1>3, <1>4, <1>5, <1>6, <1>7, <1>8, <1>9, <1>10,
           <1>11 DEF ReaderStep, DriveStep

LEMMA GetTypes == TypeInv /\ GetStep => TypeInv'
<1> SUFFICES ASSUME TypeInv, GetStep PROVE TypeInv'
  OBVIOUS
<1> USE DEF TypeInv, TypeOK, AskedForALayer
<1>1. CASE GetServe
  <2> DEFINE g == GroupOf[want]
             d == NotedDirection(want)
  <2>1. want \in Layer
    BY <1>1 DEF GetServe, InLoop
  <2>2. g \in Group
    BY <2>1, SourceAssumption
  <2>3. d \in {-1, 1}
    BY <2>1, DirectionIsEither
  <2>4. queue' \in Seq(Layer)
    BY <1>1, <2>1, <2>3, PlanIsLayers DEF GetServe
  <2>5. direction' \in [Group -> {-1, 1}] /\ lastGet' \in [Group -> Layer \cup {NoLayer}]
    <3> HIDE DEF d
    <3>1. direction' = [direction EXCEPT ![g] = d] /\ lastGet' = [lastGet EXCEPT ![g] = want]
      BY <1>1 DEF GetServe, d
    <3> QED BY <2>1, <2>3, <3>1
  <2>6. loan' \in Loan
    BY <1>1, <2>1 DEF GetServe, Resident, Loan
  <2>7. live' \in [Slot -> BOOLEAN]
    BY <1>1 DEF GetServe, Held
  <2>8. reader' \in ReaderState
    BY <1>1, AwakeIsTyped DEF GetServe
  <2> QED BY <1>1, <2>4, <2>5, <2>6, <2>7, <2>8 DEF GetServe, GetEnds
<1>2. CASE GetMiss
  <2>1. want \in Layer
    BY <1>2 DEF GetMiss, InLoop
  <2>2. queue' \in Seq(Layer)
    BY <1>2, <2>1 DEF GetMiss
  <2>3. reader' \in ReaderState
    BY <1>2, AwakeIsTyped DEF GetMiss
  <2> QED BY <1>2, <2>1, <2>2, <2>3 DEF GetMiss, Held
<1>3. CASE GetOnLoan
  BY <1>3 DEF GetOnLoan, GetEnds, Refusals, sourceVars
<1>4. CASE GetRaisesError
  BY <1>4 DEF GetRaisesError, GetEnds, Refusals, sourceVars
<1>5. CASE GetRaisesClosed
  BY <1>5 DEF GetRaisesClosed, GetEnds, Refusals, sourceVars
<1>6. CASE GetRestartsReader
  <2>1. want \in Layer
    BY <1>6 DEF GetRestartsReader
  <2>2. queue' \in Seq(Layer)
    BY <1>6, <2>1 DEF GetRestartsReader
  <2>3. starts' \in 1 .. MaxReaderStarts
    BY <1>6, SourceAssumption DEF GetRestartsReader
  <2> QED BY <1>6, <2>1, <2>2, <2>3, NoReadIsTyped DEF GetRestartsReader, consumerVars
<1>7. CASE GetReaderGivenUp
  BY <1>7 DEF GetReaderGivenUp, GetEnds, Refusals, sourceVars
<1>8. CASE GetReadWedged
  BY <1>8 DEF GetReadWedged, GetEnds, Refusals, sourceVars
<1> QED BY <1>1, <1>2, <1>3, <1>4, <1>5, <1>6, <1>7, <1>8 DEF GetStep

LEMMA OtherTypes ==
  TypeInv /\ (ReadGoesOverdue \/ ClientStep \/ CopyExecutes \/ CloseBegins \/ CloseEnds)
    => TypeInv'
<1> SUFFICES ASSUME TypeInv,
                    ReadGoesOverdue \/ ClientStep \/ CopyExecutes \/ CloseBegins \/ CloseEnds
             PROVE  TypeInv'
  OBVIOUS
<1> USE DEF TypeInv, TypeOK, AskedForALayer
<1>1. CASE ReadGoesOverdue
  BY <1>1 DEF ReadGoesOverdue, consumerVars
<1>2. ASSUME NEW idx \in Layer, Ask(idx) PROVE TypeInv'
  BY <1>2 DEF Ask, sourceVars
<1>3. CASE EnqueueCopy
  <2>1. stream' \in Seq(Loan)
    BY <1>3 DEF EnqueueCopy
  <2> QED BY <1>3, <2>1 DEF EnqueueCopy, sourceVars, consumerVars
<1>4. CASE Release
  <2>1. drain' \in [Slot -> Nat]
    <3>1. Len(stream) \in Nat
      OBVIOUS
    <3>2. CASE slotOf[loan.layer] = NoSlot
      BY <1>4, <3>2 DEF Release
    <3>3. CASE slotOf[loan.layer] # NoSlot
      BY <1>4, <3>1, <3>3 DEF Release
    <3> QED BY <3>2, <3>3
  <2>2. live' \in [Slot -> BOOLEAN]
    BY <1>4 DEF Release, GivenBack
  <2>3. reader' \in ReaderState
    BY <1>4, AwakeIsTyped DEF Release
  <2> QED BY <1>4, <2>1, <2>2, <2>3 DEF Release
<1>5. CASE CopyExecutes
  <2>1. \A n \in Nat : Nearer(n) \in Nat
    BY DEF Nearer
  <2>2. drain' \in [Slot -> Nat]
    BY <1>5, <2>1 DEF CopyExecutes
  <2>3. reader' \in ReaderState
    BY <1>5, <2>1 DEF CopyExecutes, ReaderState
  <2>4. stream' \in Seq(Loan)
    BY <1>5 DEF CopyExecutes
  <2> QED BY <1>5, <2>2, <2>3, <2>4 DEF CopyExecutes, consumerVars
<1>6. CASE CloseBegins
  BY <1>6, AwakeIsTyped DEF CloseBegins, consumerVars
<1>7. CASE CloseEnds
  BY <1>7 DEF CloseEnds, consumerVars
<1> QED BY <1>1, <1>2, <1>3, <1>4, <1>5, <1>6, <1>7 DEF ClientStep

LEMMA TypesKept == TypeInv /\ [Next]_vars => TypeInv'
<1> SUFFICES ASSUME TypeInv, [Next]_vars PROVE TypeInv'
  OBVIOUS
<1>1. CASE UNCHANGED vars
  BY <1>1 DEF vars, TypeInv, TypeOK, AskedForALayer
<1> QED BY <1>1, ReaderTypes, GetTypes, OtherTypes DEF Next

\* Every state of the source is well typed; in particular a plan only ever
\* names layers of the source.
THEOREM TypeCorrect == Spec => []TypeOK
<1>1. TypeInv => TypeOK
  BY DEF TypeInv
<1> QED BY <1>1, InitTypes, TypesKept, PTL DEF Spec

-----------------------------------------------------------------------------
(* Staging buffers in use.                                                 *)

\* The reader owns a slot, from its claim to its publication.
Busy == reader.pc \in {"draining", "reading", "loaded"}

\* The reader will never claim a slot again.
Spent == closed \/ reader.pc \in {"failing", "gone"}

ClosingInStep == closed <=> closer # "open"

\* The slot the reader owns is listed for no layer, and its layer has no slot.
ReaderHasItsSlot ==
  Busy => /\ reader.layer \in Layer
          /\ reader.slot \in Slot
          /\ slotOf[reader.layer] = NoSlot
          /\ \A l \in Layer : slotOf[l] # reader.slot
          /\ reader.pc = "loaded" => region[reader.slot] = reader.layer

LoanIsWhole ==
  loan # NoLoan =>
    /\ region[loan.slot] = loan.layer
    /\ Busy => reader.slot # loan.slot

\* Why slot s will not be overwritten before the i-th copy in flight is done.
OutOfReach(s, i) ==
  \/ Spent
  \/ live[s]
  \/ drain[s] >= i
  \/ reader.pc = "draining" /\ reader.slot = s

CopyIsGuarded(i) ==
  LET s == stream[i].slot
  IN  /\ region[s] = stream[i].layer
      /\ Busy /\ reader.slot = s => reader.pc = "draining" /\ reader.drain >= i
      /\ OutOfReach(s, i)

CopiesAreGuarded == \A i \in 1 .. Len(stream) : CopyIsGuarded(i)

CopiesArePinned == ~Pinned => stream = <<>>

\* Out of pageable memory, asking for another layer ended the loan.
MissedLoanIsOver ==
  ~Pinned /\ getter # "idle" /\ loan # NoLoan => loan.layer = want

StagingInv ==
  /\ ClosingInStep
  /\ ResidentIsStaged
  /\ ReaderHasItsSlot
  /\ LoanIsWhole
  /\ ReleaseFindsItsLayer
  /\ CopiesAreGuarded
  /\ CopiesArePinned
  /\ NoResurrection

LEMMA NoSlotIsNoSlot == NoSlot \notin Slot
<1>1. ASSUME NEW g \in Group, NEW k \in 0 .. Span(g) - 1
      PROVE  <<g, k>> # NoSlot
  BY <1>1 DEF NoSlot, Group
<1> QED BY <1>1 DEF Slot

LEMMA CopiesAreLoans ==
  ASSUME TypeOK, NEW i \in 1 .. Len(stream)
  PROVE  stream[i].slot \in Slot /\ stream[i].layer \in Layer
<1>1. stream[i] \in Loan
  BY DEF TypeOK
<1> QED BY <1>1 DEF Loan

LEMMA InitStaging == Init => StagingInv
<1> SUFFICES ASSUME Init PROVE StagingInv
  OBVIOUS
<1>1. /\ ~Busy
      /\ stream = <<>>
      /\ \A l \in Layer : ~Resident(l)
  BY DEF Init, NoRead, Busy, Resident
<1> QED BY <1>1
  DEF Init, StagingInv, ClosingInStep, ResidentIsStaged, ReaderHasItsSlot, LoanIsWhole,
      ReleaseFindsItsLayer, CopiesAreGuarded, CopiesArePinned, NoResurrection

-----------------------------------------------------------------------------
\* Steps that touch neither slots nor loans nor copies, and leave the reader as
\* it is or let it go on without a slot.
LEMMA QuietStep ==
  ASSUME StagingInv,
         UNCHANGED <<slotOf, live, drain, closed, region, loan, stream, closer>>,
         reader' = reader \/ (~Busy' /\ (Busy \/ Spent => Spent'))
  PROVE  StagingInv'
<1> USE DEF StagingInv
<1>1. ClosingInStep' /\ ResidentIsStaged' /\ ReleaseFindsItsLayer' /\ CopiesArePinned'
        /\ NoResurrection'
  BY DEF ClosingInStep, ResidentIsStaged, Resident, ReleaseFindsItsLayer, CopiesArePinned,
         NoResurrection
<1>2. ReaderHasItsSlot' /\ LoanIsWhole'
  BY DEF ReaderHasItsSlot, LoanIsWhole, Busy
<1>3. CopiesAreGuarded'
  <2> SUFFICES ASSUME NEW i \in 1 .. Len(stream) PROVE CopyIsGuarded(i)'
    BY DEF CopiesAreGuarded
  <2>1. CopyIsGuarded(i)
    BY DEF CopiesAreGuarded
  <2> QED BY <2>1 DEF CopyIsGuarded, OutOfReach, Busy, Spent
<1> QED BY <1>1, <1>2, <1>3

\* What waking the reader changes.
LEMMA AwakeKeepsItsSlot ==
  ASSUME TypeOK, reader' \in {reader, Awake(reader)}
  PROVE  /\ Busy' = Busy
         /\ Busy => reader' = reader
         /\ closed' = closed => Spent' = Spent
         /\ reader'.pc = "draining" <=> reader.pc = "draining"
         /\ reader'.slot = reader.slot
BY DEF TypeOK, ReaderState, Awake, Busy, Spent, ReaderPc

LEMMA QuietReaderSteps ==
  ASSUME TypeInv, StagingInv,
         \/ ReaderEnter \/ ReaderDiesUnborn \/ ReaderSleep \/ ReaderExit \/ ReaderSkip
         \/ ReaderReadFails \/ ReaderFail
  PROVE  StagingInv'
<1>1. UNCHANGED <<slotOf, live, drain, closed, region, loan, stream, closer>>
  BY DEF ReaderEnter, ReaderDiesUnborn, ReaderSleep, ReaderExit, ReaderSkip,
         ReaderReadFails, ReaderFail, sourceVars, consumerVars
<1>2. reader' = reader \/ (~Busy' /\ (Busy \/ Spent => Spent'))
  BY DEF ReaderEnter, ReaderDiesUnborn, ReaderSleep, ReaderExit, ReaderSkip,
         ReaderReadFails, ReaderFail, sourceVars, consumerVars,
         TypeInv, TypeOK, ReaderState, NoRead, Busy, Spent
<1> QED BY <1>1, <1>2, QuietStep

-----------------------------------------------------------------------------
(* The reader's steps with a slot.                                         *)

\* A claim takes a slot that is not on loan and remembers every copy still
\* draining out of it.
LEMMA ClaimKeepsStaging ==
  ASSUME TypeInv, StagingInv, ReaderClaim
  PROVE  StagingInv'
<1> DEFINE idx == Head(queue)
           g == GroupOf[idx]
           slot == SlotAt(g, ClaimOffset(g))
<1> USE DEF TypeInv, TypeOK, ReaderState, StagingInv
<1>1. /\ reader.pc = "top" /\ ~closed
      /\ slotOf' = Evicting(slot)
      /\ reader' = [pc |-> "draining", layer |-> idx, slot |-> slot, drain |-> drain[slot]]
      /\ drain' = [drain EXCEPT ![slot] = 0]
      /\ UNCHANGED <<live, closed, region, loan, stream, closer>>
  BY DEF ReaderClaim, DrainBefore, consumerVars
<1>2. idx \in Layer /\ slotOf[idx] = NoSlot
  BY DEF ReaderClaim, Resident
<1>3. g \in Group
  BY <1>2, SourceAssumption
<1>4. ClaimOffset(g) \in Takeable(g) /\ ClaimOffset(g) \in Nat
  BY <1>3, ClaimTakesATakeableSlot DEF ReaderClaim
<1>5. slot \in Slot /\ ~live[slot]
  BY <1>3, <1>4, SlotAtIsSlot DEF Takeable
<1> HIDE DEF idx, g, slot
<1>6. closer # "closed" /\ ~Spent /\ ~Busy
  BY <1>1 DEF ClosingInStep, Spent, Busy
<1>7. loan # NoLoan => loan.slot # slot
  BY <1>5, <1>6 DEF ReleaseFindsItsLayer
<1>8. ClosingInStep' /\ CopiesArePinned' /\ NoResurrection'
  BY <1>1, <1>6 DEF ClosingInStep, CopiesArePinned, NoResurrection
<1>9. /\ \A l \in Layer : slotOf'[l] \in {slotOf[l], NoSlot} /\ slotOf'[l] # slot
      /\ \A l \in Layer : slotOf[l] # slot => slotOf'[l] = slotOf[l]
  BY <1>1, <1>5, NoSlotIsNoSlot DEF Evicting
<1>10. ResidentIsStaged'
  BY <1>1, <1>9 DEF ResidentIsStaged, Resident
<1>11. ReaderHasItsSlot'
  BY <1>1, <1>2, <1>5, <1>9 DEF ReaderHasItsSlot
<1>12. LoanIsWhole' /\ ReleaseFindsItsLayer'
  BY <1>1, <1>6, <1>7, <1>9 DEF LoanIsWhole, ReleaseFindsItsLayer, Loan
<1>13. CopiesAreGuarded'
  <2> SUFFICES ASSUME NEW i \in 1 .. Len(stream) PROVE CopyIsGuarded(i)'
    BY <1>1 DEF CopiesAreGuarded
  <2>1. CopyIsGuarded(i) /\ stream[i].slot \in Slot
    BY CopiesAreLoans DEF CopiesAreGuarded
  <2>2. CASE stream[i].slot = slot
    <3>1. drain[slot] >= i
      BY <1>1, <1>5, <1>6, <2>1, <2>2 DEF CopyIsGuarded, OutOfReach
    <3> QED BY <1>1, <2>1, <2>2, <3>1 DEF CopyIsGuarded, OutOfReach
  <2>3. CASE stream[i].slot # slot
    BY <1>1, <1>6, <2>1, <2>3 DEF CopyIsGuarded, OutOfReach
  <2> QED BY <2>2, <2>3
<1> QED BY <1>8, <1>10, <1>11, <1>12, <1>13

\* By the time the drain event has fired, no copy in flight reads the slot.
LEMMA BeginReadKeepsStaging ==
  ASSUME TypeInv, StagingInv, ReaderBeginRead
  PROVE  StagingInv'
<1> USE DEF TypeInv, TypeOK, ReaderState, StagingInv
<1>1. /\ reader.pc = "draining" /\ reader.drain = 0
      /\ reader' = [reader EXCEPT !.pc = "reading"]
      /\ region' = [region EXCEPT ![reader.slot] = Torn]
      /\ UNCHANGED <<slotOf, live, drain, closed, loan, stream, closer>>
  BY DEF ReaderBeginRead, sourceVars, consumerVars
<1>2. reader.slot \in Slot /\ \A l \in Layer : slotOf[l] # reader.slot
  BY <1>1 DEF ReaderHasItsSlot, Busy
<1>3. ClosingInStep' /\ CopiesArePinned' /\ NoResurrection' /\ ReleaseFindsItsLayer'
  BY <1>1 DEF ClosingInStep, CopiesArePinned, NoResurrection, Resident, ReleaseFindsItsLayer
<1>4. ResidentIsStaged'
  BY <1>1, <1>2 DEF ResidentIsStaged, Resident
<1>5. ReaderHasItsSlot' /\ LoanIsWhole'
  BY <1>1, <1>2 DEF ReaderHasItsSlot, LoanIsWhole, Busy, Loan
<1>6. CopiesAreGuarded'
  <2> SUFFICES ASSUME NEW i \in 1 .. Len(stream) PROVE CopyIsGuarded(i)'
    BY <1>1 DEF CopiesAreGuarded
  <2>1. CopyIsGuarded(i) /\ stream[i].slot \in Slot
    BY CopiesAreLoans DEF CopiesAreGuarded
  <2>2. stream[i].slot # reader.slot
    BY <1>1, <2>1 DEF CopyIsGuarded, Busy
  <2> QED BY <1>1, <2>1, <2>2 DEF CopyIsGuarded, OutOfReach, Spent, Busy
<1> QED BY <1>3, <1>4, <1>5, <1>6

LEMMA EndReadKeepsStaging ==
  ASSUME TypeInv, StagingInv, ReaderEndRead
  PROVE  StagingInv'
<1> USE DEF TypeInv, TypeOK, ReaderState, StagingInv
<1>1. /\ reader.pc = "reading"
      /\ reader' = [reader EXCEPT !.pc = "loaded"]
      /\ region' = [region EXCEPT ![reader.slot] = reader.layer]
      /\ UNCHANGED <<slotOf, live, drain, closed, loan, stream, closer>>
  BY DEF ReaderEndRead, sourceVars, consumerVars
<1>2. reader.slot \in Slot /\ \A l \in Layer : slotOf[l] # reader.slot
  BY <1>1 DEF ReaderHasItsSlot, Busy
<1>3. ClosingInStep' /\ CopiesArePinned' /\ NoResurrection' /\ ReleaseFindsItsLayer'
  BY <1>1 DEF ClosingInStep, CopiesArePinned, NoResurrection, Resident, ReleaseFindsItsLayer
<1>4. ResidentIsStaged'
  BY <1>1, <1>2 DEF ResidentIsStaged, Resident
<1>5. ReaderHasItsSlot' /\ LoanIsWhole'
  BY <1>1, <1>2 DEF ReaderHasItsSlot, LoanIsWhole, Busy, Loan
<1>6. CopiesAreGuarded'
  <2> SUFFICES ASSUME NEW i \in 1 .. Len(stream) PROVE CopyIsGuarded(i)'
    BY <1>1 DEF CopiesAreGuarded
  <2>1. CopyIsGuarded(i) /\ stream[i].slot \in Slot
    BY CopiesAreLoans DEF CopiesAreGuarded
  <2>2. stream[i].slot # reader.slot
    BY <1>1, <2>1 DEF CopyIsGuarded, Busy
  <2> QED BY <1>1, <2>1, <2>2 DEF CopyIsGuarded, OutOfReach, Spent, Busy
<1> QED BY <1>3, <1>4, <1>5, <1>6

\* The slot published holds its layer whole, and no other layer is listed in it.
LEMMA PublishKeepsStaging ==
  ASSUME TypeInv, StagingInv, ReaderPublish
  PROVE  StagingInv'
<1> USE DEF TypeInv, TypeOK, ReaderState, StagingInv
<1>1. /\ reader.pc = "loaded"
      /\ slotOf' = Publishing(reader.layer, reader.slot)
      /\ reader' = [NoRead EXCEPT !.pc = "top"]
      /\ UNCHANGED <<live, drain, closed, region, loan, stream, closer>>
  BY DEF ReaderPublish, consumerVars
<1>2. /\ reader.slot \in Slot /\ reader.layer \in Layer
      /\ slotOf[reader.layer] = NoSlot
      /\ \A l \in Layer : slotOf[l] # reader.slot
      /\ region[reader.slot] = reader.layer
  BY <1>1 DEF ReaderHasItsSlot, Busy
<1>3. ~Busy'
  BY <1>1 DEF Busy, NoRead
<1>4. ClosingInStep' /\ CopiesArePinned' /\ ReaderHasItsSlot' /\ LoanIsWhole'
  BY <1>1, <1>3 DEF ClosingInStep, CopiesArePinned, ReaderHasItsSlot, LoanIsWhole
<1>5. NoResurrection'
  BY <1>1 DEF NoResurrection, Resident, Publishing, ClosingInStep
<1>6. ResidentIsStaged'
  BY <1>1, <1>2 DEF ResidentIsStaged, Resident, Publishing
<1>7. ReleaseFindsItsLayer'
  <2>1. loan # NoLoan => loan.layer \in Layer /\ loan.slot \in Slot
    BY DEF Loan
  <2>2. loan # NoLoan /\ closer # "closed" => loan.layer # reader.layer
    BY <1>2, <2>1, NoSlotIsNoSlot DEF ReleaseFindsItsLayer
  <2> QED BY <1>1, <2>1, <2>2 DEF ReleaseFindsItsLayer, Publishing
<1>8. CopiesAreGuarded'
  <2> SUFFICES ASSUME NEW i \in 1 .. Len(stream) PROVE CopyIsGuarded(i)'
    BY <1>1 DEF CopiesAreGuarded
  <2>1. CopyIsGuarded(i)
    BY DEF CopiesAreGuarded
  <2> QED BY <1>1, <1>3, <2>1 DEF CopyIsGuarded, OutOfReach, Spent
<1> QED BY <1>4, <1>5, <1>6, <1>7, <1>8

-----------------------------------------------------------------------------
(* The consumer, the device and close().                                   *)

\* With copies in flight the staging is pinned, and then a get that goes on
\* finds no slot on loan but its own layer's.
LEMMA HoldKeepsTheLoans ==
  ASSUME TypeInv, StagingInv, MayHold(want), NEW i \in 1 .. Len(stream)
  PROVE  live[stream[i].slot] => Held(want)[stream[i].slot]
<1> USE DEF TypeInv, TypeOK, ReaderState, StagingInv
<1>1. Pinned
  BY DEF CopiesArePinned
<1> QED BY <1>1, CopiesAreLoans DEF MayHold, Borrowed, Held

LEMMA ServeKeepsStaging ==
  ASSUME TypeInv, StagingInv, GetServe
  PROVE  StagingInv'
<1> USE DEF TypeInv, TypeOK, ReaderState, StagingInv
<1>1. /\ ~closed
      /\ Resident(want) /\ MayHold(want)
      /\ live' = Held(want)
      /\ reader' \in {reader, Awake(reader)}
      /\ loan' = [layer |-> want, slot |-> slotOf[want]]
      /\ UNCHANGED <<slotOf, drain, closed, region, stream, closer>>
  BY DEF GetServe
<1>2. want \in Layer /\ slotOf[want] \in Slot /\ region[slotOf[want]] = want
  BY <1>1 DEF AskedForALayer, GetServe, InLoop, Resident, ResidentIsStaged
<1>3. /\ Busy' = Busy /\ (Busy => reader' = reader) /\ Spent' = Spent
      /\ reader'.pc = "draining" <=> reader.pc = "draining"
      /\ reader'.slot = reader.slot
  BY <1>1, AwakeKeepsItsSlot
<1>4. ClosingInStep' /\ CopiesArePinned' /\ ResidentIsStaged' /\ NoResurrection'
  BY <1>1 DEF ClosingInStep, CopiesArePinned, ResidentIsStaged, Resident, NoResurrection
<1>5. ReaderHasItsSlot'
  BY <1>1, <1>3 DEF ReaderHasItsSlot, Busy
<1>6. LoanIsWhole'
  BY <1>1, <1>2, <1>3 DEF LoanIsWhole, ReaderHasItsSlot
<1>7. ReleaseFindsItsLayer'
  BY <1>1, <1>2 DEF ReleaseFindsItsLayer, Held
<1>8. CopiesAreGuarded'
  <2> SUFFICES ASSUME NEW i \in 1 .. Len(stream) PROVE CopyIsGuarded(i)'
    BY <1>1 DEF CopiesAreGuarded
  <2>1. CopyIsGuarded(i)
    BY DEF CopiesAreGuarded
  <2>2. live[stream[i].slot] => live'[stream[i].slot]
    BY <1>1, HoldKeepsTheLoans
  <2> QED BY <1>1, <1>3, <2>1, <2>2 DEF CopyIsGuarded, OutOfReach
<1> QED BY <1>4, <1>5, <1>6, <1>7, <1>8

\* A get that misses holds nothing: whatever was on loan was its own layer, or
\* its reference ended when it asked.
LEMMA MissKeepsStaging ==
  ASSUME TypeInv, StagingInv, MissedLoanIsOver, GetMiss
  PROVE  StagingInv'
<1> USE DEF TypeInv, TypeOK, ReaderState, StagingInv
<1>1. /\ ~closed
      /\ ~Resident(want) /\ MayHold(want)
      /\ live' = Held(want)
      /\ reader' \in {reader, Awake(reader)}
      /\ UNCHANGED <<slotOf, drain, closed, region, loan, stream, closer>>
  BY DEF GetMiss
<1>2. want \in Layer
  BY DEF AskedForALayer, GetMiss, InLoop
<1>3. /\ Busy' = Busy /\ (Busy => reader' = reader) /\ Spent' = Spent
      /\ reader'.pc = "draining" <=> reader.pc = "draining"
      /\ reader'.slot = reader.slot
  BY <1>1, AwakeKeepsItsSlot
<1>4. ClosingInStep' /\ CopiesArePinned' /\ ResidentIsStaged' /\ NoResurrection'
  BY <1>1 DEF ClosingInStep, CopiesArePinned, ResidentIsStaged, Resident, NoResurrection
<1>5. ReaderHasItsSlot' /\ LoanIsWhole'
  BY <1>1, <1>3 DEF ReaderHasItsSlot, LoanIsWhole, Busy
<1>6. ReleaseFindsItsLayer'
  <2>1. loan = NoLoan
    <3> SUFFICES ASSUME loan # NoLoan PROVE FALSE
      OBVIOUS
    <3>1. slotOf[loan.layer] = loan.slot /\ live[loan.slot] /\ loan.slot \in Slot
      BY <1>1 DEF ReleaseFindsItsLayer, ClosingInStep, Loan
    <3>2. loan.layer # want
      BY <1>1, <3>1, NoSlotIsNoSlot DEF Resident
    <3>3. Pinned
      BY <3>2 DEF MissedLoanIsOver, GetMiss, InLoop
    <3> QED BY <1>1, <3>1, <3>3, NoSlotIsNoSlot DEF MayHold, Borrowed, Resident
  <2> QED BY <1>1, <2>1 DEF ReleaseFindsItsLayer
<1>7. CopiesAreGuarded'
  <2> SUFFICES ASSUME NEW i \in 1 .. Len(stream) PROVE CopyIsGuarded(i)'
    BY <1>1 DEF CopiesAreGuarded
  <2>1. CopyIsGuarded(i)
    BY DEF CopiesAreGuarded
  <2>2. live[stream[i].slot] => live'[stream[i].slot]
    BY <1>1, HoldKeepsTheLoans
  <2> QED BY <1>1, <1>3, <2>1, <2>2 DEF CopyIsGuarded, OutOfReach
<1> QED BY <1>4, <1>5, <1>6, <1>7

LEMMA AskKeepsStaging ==
  ASSUME TypeInv, StagingInv, NEW idx \in Layer, Ask(idx)
  PROVE  StagingInv'
<1> USE DEF TypeInv, TypeOK, ReaderState, StagingInv
<1>1. /\ loan' \in {loan, NoLoan}
      /\ UNCHANGED <<slotOf, live, drain, closed, region, reader, stream, closer>>
  BY DEF Ask, sourceVars
<1>2. ClosingInStep' /\ CopiesArePinned' /\ ResidentIsStaged' /\ NoResurrection'
        /\ ReaderHasItsSlot' /\ LoanIsWhole' /\ ReleaseFindsItsLayer'
  BY <1>1 DEF ClosingInStep, CopiesArePinned, ResidentIsStaged, Resident, NoResurrection,
              ReaderHasItsSlot, LoanIsWhole, ReleaseFindsItsLayer, Busy
<1>3. CopiesAreGuarded'
  BY <1>1 DEF CopiesAreGuarded, CopyIsGuarded, OutOfReach, Busy, Spent
<1> QED BY <1>2, <1>3

\* The new copy reads the slot on loan: it is live, or the source is closed.
LEMMA EnqueueKeepsStaging ==
  ASSUME TypeInv, StagingInv, EnqueueCopy
  PROVE  StagingInv'
<1> USE DEF TypeInv, TypeOK, ReaderState, StagingInv
<1>1. /\ Pinned /\ loan # NoLoan /\ loan \in Loan
      /\ stream' = Append(stream, loan)
      /\ UNCHANGED <<slotOf, live, drain, closed, region, reader, loan, closer>>
  BY DEF EnqueueCopy, sourceVars, consumerVars
<1>2. ClosingInStep' /\ CopiesArePinned' /\ ResidentIsStaged' /\ NoResurrection'
        /\ ReaderHasItsSlot' /\ LoanIsWhole' /\ ReleaseFindsItsLayer'
  BY <1>1 DEF ClosingInStep, CopiesArePinned, ResidentIsStaged, Resident, NoResurrection,
              ReaderHasItsSlot, LoanIsWhole, ReleaseFindsItsLayer, Busy
<1>3. CopiesAreGuarded'
  <2> SUFFICES ASSUME NEW i \in 1 .. Len(stream) + 1 PROVE CopyIsGuarded(i)'
    BY <1>1 DEF CopiesAreGuarded
  <2>1. CASE i = Len(stream) + 1
    <3>1. stream'[i] = loan
      BY <1>1, <2>1
    <3>2. Spent \/ live[loan.slot]
      BY <1>1 DEF ReleaseFindsItsLayer, ClosingInStep, Spent
    <3> QED BY <1>1, <3>1, <3>2 DEF CopyIsGuarded, OutOfReach, LoanIsWhole, Busy, Spent
  <2>2. CASE i # Len(stream) + 1
    <3>1. i \in 1 .. Len(stream) /\ stream'[i] = stream[i]
      BY <1>1, <2>2
    <3>2. CopyIsGuarded(i)
      BY <3>1 DEF CopiesAreGuarded
    <3> QED BY <1>1, <3>1, <3>2 DEF CopyIsGuarded, OutOfReach, Busy, Spent
  <2> QED BY <2>1, <2>2
<1> QED BY <1>2, <1>3

\* The drain event is recorded behind every copy enqueued so far.
LEMMA ReleaseKeepsStaging ==
  ASSUME TypeInv, StagingInv, Release
  PROVE  StagingInv'
<1> USE DEF TypeInv, TypeOK, ReaderState, StagingInv
<1> DEFINE slot == slotOf[loan.layer]
<1>1. /\ loan # NoLoan /\ loan' = NoLoan /\ loan.layer \in Layer
      /\ reader' \in {reader, Awake(reader)}
      /\ UNCHANGED <<slotOf, closed, region, stream, closer>>
  BY DEF Release, Loan
<1>2. /\ slot = NoSlot => UNCHANGED <<live, drain>>
      /\ slot # NoSlot => /\ drain' = [drain EXCEPT ![slot] = Len(stream)]
                          /\ live' = [live EXCEPT ![slot] = FALSE]
  BY DEF Release, GivenBack
<1>3. /\ Busy' = Busy /\ (Busy => reader' = reader) /\ Spent' = Spent
      /\ reader'.pc = "draining" <=> reader.pc = "draining"
      /\ reader'.slot = reader.slot
  BY <1>1, AwakeKeepsItsSlot
<1>4. ClosingInStep' /\ CopiesArePinned' /\ ResidentIsStaged' /\ NoResurrection'
        /\ LoanIsWhole' /\ ReleaseFindsItsLayer'
  BY <1>1 DEF ClosingInStep, CopiesArePinned, ResidentIsStaged, Resident, NoResurrection,
              LoanIsWhole, ReleaseFindsItsLayer
<1>5. ReaderHasItsSlot'
  BY <1>1, <1>3 DEF ReaderHasItsSlot, Busy
<1>6. CopiesAreGuarded'
  <2> SUFFICES ASSUME NEW i \in 1 .. Len(stream) PROVE CopyIsGuarded(i)'
    BY <1>1 DEF CopiesAreGuarded
  <2>1. CopyIsGuarded(i) /\ stream[i].slot \in Slot
    BY CopiesAreLoans DEF CopiesAreGuarded
  <2> DEFINE s == stream[i].slot
  <2>2. \/ live'[s] = live[s] /\ drain'[s] = drain[s]
        \/ drain'[s] >= i
    <3>1. CASE slot = NoSlot
      BY <1>2, <3>1
    <3>2. CASE slot # NoSlot /\ s = slot
      BY <1>2, <2>1, <3>2
    <3>3. CASE slot # NoSlot /\ s # slot
      BY <1>2, <2>1, <3>3
    <3> QED BY <3>1, <3>2, <3>3
  <2> QED BY <1>1, <1>3, <2>1, <2>2 DEF CopyIsGuarded, OutOfReach
<1> QED BY <1>4, <1>5, <1>6

LEMMA CopyKeepsStaging ==
  ASSUME TypeInv, StagingInv, CopyExecutes
  PROVE  StagingInv'
<1> USE DEF TypeInv, TypeOK, ReaderState, StagingInv
<1>1. /\ stream # <<>> /\ stream' = Tail(stream)
      /\ drain' = [s \in Slot |-> Nearer(drain[s])]
      /\ reader' = [reader EXCEPT !.drain = Nearer(@)]
      /\ UNCHANGED <<slotOf, live, closed, region, loan, closer>>
  BY DEF CopyExecutes, consumerVars
<1>2. Busy' = Busy /\ Spent' = Spent
  BY <1>1 DEF Busy, Spent
<1>3. ClosingInStep' /\ CopiesArePinned' /\ ResidentIsStaged' /\ NoResurrection'
        /\ ReaderHasItsSlot' /\ LoanIsWhole' /\ ReleaseFindsItsLayer'
  BY <1>1, <1>2 DEF ClosingInStep, CopiesArePinned, ResidentIsStaged, Resident,
       NoResurrection, ReaderHasItsSlot, LoanIsWhole, ReleaseFindsItsLayer
<1>4. CopiesAreGuarded'
  <2> SUFFICES ASSUME NEW i \in 1 .. Len(stream) - 1 PROVE CopyIsGuarded(i)'
    BY <1>1 DEF CopiesAreGuarded
  <2>1. i + 1 \in 1 .. Len(stream) /\ stream'[i] = stream[i + 1]
    BY <1>1
  <2>2. CopyIsGuarded(i + 1) /\ stream[i + 1].slot \in Slot
    BY <2>1, CopiesAreLoans DEF CopiesAreGuarded
  <2>3. \A n \in Nat : n >= i + 1 => Nearer(n) >= i
    BY DEF Nearer
  <2> QED BY <1>1, <1>2, <2>1, <2>2, <2>3 DEF CopyIsGuarded, OutOfReach
<1> QED BY <1>3, <1>4

LEMMA ClosingKeepsStaging ==
  ASSUME TypeInv, StagingInv, CloseBegins \/ CloseEnds
  PROVE  StagingInv'
<1> USE DEF TypeInv, TypeOK, ReaderState, StagingInv
<1>1. CASE CloseBegins
  <2>1. /\ closer = "open" /\ closer' = "joining" /\ closed' = TRUE
        /\ reader' \in {reader, Awake(reader)}
        /\ UNCHANGED <<slotOf, live, drain, region, loan, stream>>
    BY <1>1 DEF CloseBegins, consumerVars
  <2>2. /\ Busy' = Busy /\ (Busy => reader' = reader) /\ Spent'
        /\ reader'.slot = reader.slot
    BY <2>1, AwakeKeepsItsSlot DEF Spent
  <2>3. ClosingInStep' /\ CopiesArePinned' /\ ResidentIsStaged' /\ NoResurrection'
          /\ LoanIsWhole' /\ ReleaseFindsItsLayer'
    BY <2>1, <2>2 DEF ClosingInStep, CopiesArePinned, ResidentIsStaged, Resident,
         NoResurrection, LoanIsWhole, ReleaseFindsItsLayer
  <2>4. ReaderHasItsSlot' /\ CopiesAreGuarded'
    BY <2>1, <2>2 DEF ReaderHasItsSlot, CopiesAreGuarded, CopyIsGuarded, OutOfReach, Busy
  <2> QED BY <2>3, <2>4
<1>2. CASE CloseEnds
  <2>1. /\ closer = "joining" /\ closer' = "closed" /\ closed
        /\ slotOf' = [l \in Layer |-> NoSlot]
        /\ UNCHANGED <<closed, region, reader, loan, stream>>
    BY <1>2 DEF CloseEnds, ClosingInStep, consumerVars
  <2>2. ClosingInStep' /\ CopiesArePinned' /\ ResidentIsStaged' /\ NoResurrection'
          /\ LoanIsWhole' /\ ReleaseFindsItsLayer'
    BY <2>1 DEF ClosingInStep, CopiesArePinned, ResidentIsStaged, Resident,
         NoResurrection, LoanIsWhole, ReleaseFindsItsLayer, Busy
  <2>3. ReaderHasItsSlot'
    BY <2>1, NoSlotIsNoSlot DEF ReaderHasItsSlot, Busy
  <2>4. CopiesAreGuarded'
    BY <2>1 DEF CopiesAreGuarded, CopyIsGuarded, OutOfReach, Busy, Spent
  <2> QED BY <2>2, <2>3, <2>4
<1> QED BY <1>1, <1>2

-----------------------------------------------------------------------------
(* Every step keeps the staging invariant.                                 *)

LEMMA LoanEndsAtAsk == MissedLoanIsOver /\ [Next]_vars => MissedLoanIsOver'
<1> SUFFICES ASSUME MissedLoanIsOver, [Next]_vars PROVE MissedLoanIsOver'
  OBVIOUS
<1> USE DEF MissedLoanIsOver
<1>1. CASE UNCHANGED vars
  BY <1>1 DEF vars
<1>2. CASE ReaderStep \/ DriveStep
  BY <1>2 DEF ReaderStep, DriveStep, ReaderEnter, ReaderDiesUnborn, ReaderSleep, ReaderExit,
       ReaderSkip, ReaderClaim, ReaderBeginRead, ReaderEndRead,
       ReaderReadFails, ReaderPublish, ReaderFail, consumerVars
<1>3. CASE GetStep
  BY <1>3 DEF GetStep, GetServe, GetMiss, GetOnLoan, GetRaisesError, GetRaisesClosed,
       GetRestartsReader, GetReaderGivenUp, GetReadWedged, GetEnds, InLoop, consumerVars
<1>4. CASE ClientStep
  BY <1>4 DEF ClientStep, Ask, EnqueueCopy, Release, consumerVars
<1>5. CASE ReadGoesOverdue \/ CopyExecutes \/ CloseBegins \/ CloseEnds
  BY <1>5 DEF ReadGoesOverdue, CopyExecutes, CloseBegins, CloseEnds, consumerVars
<1> QED BY <1>1, <1>2, <1>3, <1>4, <1>5 DEF Next

SafetyInv == TypeInv /\ MissedLoanIsOver /\ StagingInv

LEMMA InitSafe == Init => SafetyInv
<1>1. Init => MissedLoanIsOver
  BY DEF Init, MissedLoanIsOver
<1> QED BY <1>1, InitTypes, InitStaging DEF SafetyInv

LEMMA GetKeepsStaging ==
  ASSUME TypeInv, StagingInv, MissedLoanIsOver, GetStep
  PROVE  StagingInv'
<1>1. CASE GetServe
  BY <1>1, ServeKeepsStaging
<1>2. CASE GetMiss
  BY <1>2, MissKeepsStaging
<1>3. CASE GetRestartsReader
  <2>1. UNCHANGED <<slotOf, live, drain, closed, region, loan, stream, closer>>
    BY <1>3 DEF GetRestartsReader, consumerVars
  <2>2. ~Busy' /\ (Busy \/ Spent => Spent')
    BY <1>3, <2>1 DEF GetRestartsReader, NoRead, Busy, Spent
  <2> QED BY <2>1, <2>2, QuietStep
<1>4. CASE GetOnLoan \/ GetRaisesError \/ GetRaisesClosed \/ GetReaderGivenUp \/ GetReadWedged
  <2>1. UNCHANGED <<slotOf, live, drain, closed, region, reader, loan, stream, closer>>
    BY <1>4 DEF GetOnLoan, GetRaisesError, GetRaisesClosed, GetReaderGivenUp, GetReadWedged,
                sourceVars
  <2> QED BY <2>1, QuietStep
<1> QED BY <1>1, <1>2, <1>3, <1>4 DEF GetStep

LEMMA StepIsSafe == SafetyInv /\ [Next]_vars => SafetyInv'
<1> SUFFICES ASSUME SafetyInv, [Next]_vars PROVE SafetyInv'
  OBVIOUS
<1> USE DEF SafetyInv
<1>1. TypeInv'
  BY TypesKept
<1>2. MissedLoanIsOver'
  BY LoanEndsAtAsk
<1>3. StagingInv'
  <2>1. CASE UNCHANGED vars
    <3>1. UNCHANGED <<slotOf, live, drain, closed, region, reader, loan, stream, closer>>
      BY <2>1 DEF vars
    <3> QED BY <3>1, QuietStep
  <2>2. CASE ReaderStep \/ DriveStep
    BY <2>2, QuietReaderSteps, ClaimKeepsStaging, BeginReadKeepsStaging, EndReadKeepsStaging,
       PublishKeepsStaging DEF ReaderStep, DriveStep
  <2>3. CASE ReadGoesOverdue
    <3>1. UNCHANGED <<slotOf, live, drain, closed, region, reader, loan, stream, closer>>
      BY <2>3 DEF ReadGoesOverdue, consumerVars
    <3> QED BY <3>1, QuietStep
  <2>4. CASE GetStep
    BY <2>4, GetKeepsStaging
  <2>5. CASE ClientStep
    BY <2>5, AskKeepsStaging, EnqueueKeepsStaging, ReleaseKeepsStaging DEF ClientStep
  <2>6. CASE CopyExecutes \/ CloseBegins \/ CloseEnds
    BY <2>6, CopyKeepsStaging, ClosingKeepsStaging
  <2> QED BY <2>1, <2>2, <2>3, <2>4, <2>5, <2>6 DEF Next
<1> QED BY <1>1, <1>2, <1>3

LEMMA AlwaysSafe == Spec => []SafetyInv
BY InitSafe, StepIsSafe, PTL DEF Spec

-----------------------------------------------------------------------------
\* The reader never overwrites a slot that is on loan or that a copy in flight
\* still reads: release() and its drain event do what they were added for.
THEOREM NeverOverwrittenInUse == Spec => []NoOverwriteInUse
<1>1. SafetyInv => NoOverwriteInUse
  <2> SUFFICES ASSUME SafetyInv, reader.pc = "reading"
               PROVE  /\ loan.slot # reader.slot
                      /\ \A i \in 1 .. Len(stream) : stream[i].slot # reader.slot
    BY DEF NoOverwriteInUse
  <2>1. Busy /\ reader.slot \in Slot
    BY DEF SafetyInv, StagingInv, ReaderHasItsSlot, Busy
  <2>2. loan.slot # reader.slot
    BY <2>1, NoSlotIsNoSlot DEF SafetyInv, StagingInv, LoanIsWhole, NoLoan
  <2>3. \A i \in 1 .. Len(stream) : stream[i].slot # reader.slot
    BY <2>1 DEF SafetyInv, StagingInv, CopiesAreGuarded, CopyIsGuarded
  <2> QED BY <2>2, <2>3
<1> QED BY <1>1, AlwaysSafe, PTL

\* What get lent, and what every copy enqueued out of it reads, are the bytes of
\* the layer asked for.
THEOREM BytesStayIntact == Spec => []BytesIntact
<1>1. SafetyInv => BytesIntact
  BY DEF SafetyInv, StagingInv, LoanIsWhole, CopiesAreGuarded, CopyIsGuarded, BytesIntact
<1> QED BY <1>1, AlwaysSafe, PTL

\* release() finds the layer it is given, until close() empties the source.
THEOREM ReleaseIsNeverLost == Spec => []ReleaseFindsItsLayer
<1>1. SafetyInv => ReleaseFindsItsLayer
  BY DEF SafetyInv, StagingInv
<1> QED BY <1>1, AlwaysSafe, PTL

\* A layer called resident is staged whole in a slot of its own, and none is
\* once close() is done, even if a read outlived the join.
THEOREM ResidencyIsSound == Spec => []TableIsSound
<1>1. SafetyInv => TableIsSound
  BY DEF SafetyInv, StagingInv, TableIsSound
<1> QED BY <1>1, AlwaysSafe, PTL

-----------------------------------------------------------------------------
(* The reader's sleeps and exits.                                          *)

GoneIsExplained == reader.pc = "gone" => error \/ closed

WakeInv == NoLostWakeup /\ BackstopNeverFires /\ GoneIsExplained

LEMMA StepWakes == TypeInv /\ WakeInv /\ [Next]_vars => WakeInv'
<1> SUFFICES ASSUME TypeInv, WakeInv, [Next]_vars PROVE WakeInv'
  OBVIOUS
<1> USE DEF WakeInv, NoLostWakeup, BackstopNeverFires, GoneIsExplained
<1>1. CASE UNCHANGED vars
  BY <1>1 DEF vars
<1>2. CASE ReaderStep \/ DriveStep
  BY <1>2 DEF ReaderStep, DriveStep, ReaderEnter, ReaderDiesUnborn, ReaderSleep, ReaderExit,
       ReaderSkip, ReaderClaim, ReaderBeginRead, ReaderEndRead,
       ReaderReadFails, ReaderPublish, ReaderFail, NoRead, sourceVars, consumerVars,
       TypeInv, TypeOK, ReaderState
<1>3. CASE GetServe \/ GetMiss
  <2>1. /\ queue' = queue \/ queue' = <<>> \/ reader' = Awake(reader)
        /\ reader' \in {reader, Awake(reader)}
        /\ UNCHANGED <<error, closed>>
        /\ answer' \in {answer, "tensor"}
    BY <1>3 DEF GetServe, GetMiss, GetEnds
  <2> QED BY <2>1 DEF Awake, TypeInv, TypeOK, ReaderState
<1>4. CASE GetOnLoan \/ GetRaisesError \/ GetRaisesClosed \/ GetReadWedged
  BY <1>4 DEF GetOnLoan, GetRaisesError, GetRaisesClosed, GetReadWedged, GetEnds, sourceVars
<1>5. CASE GetRestartsReader
  BY <1>5 DEF GetRestartsReader, NoRead, consumerVars
<1>6. CASE GetReaderGivenUp
  <2>1. reader.pc = "stillborn"
    BY <1>6 DEF GetReaderGivenUp, ReaderLost, ReaderDead
  <2> QED BY <1>6, <2>1 DEF GetReaderGivenUp, GetEnds, sourceVars
<1>7. CASE ClientStep
  BY <1>7 DEF ClientStep, Ask, EnqueueCopy, Release, Awake, sourceVars, consumerVars,
       TypeInv, TypeOK, ReaderState
<1>8. CASE ReadGoesOverdue \/ CopyExecutes \/ CloseBegins \/ CloseEnds
  BY <1>8 DEF ReadGoesOverdue, CopyExecutes, CloseBegins, CloseEnds, Awake, consumerVars,
       TypeInv, TypeOK, ReaderState
<1> QED BY <1>1, <1>2, <1>3, <1>4, <1>5, <1>6, <1>7, <1>8 DEF Next, GetStep

\* No notify is missing: the reader never sleeps with work queued or the source
\* closed; and it never leaves without a reason a get can report.
THEOREM ReaderIsNeverForgotten == Spec => []ReaderIsAccountedFor
<1>1. Init => TypeInv /\ WakeInv
  BY InitTypes DEF Init, NoRead, WakeInv, NoLostWakeup, BackstopNeverFires, GoneIsExplained
<1>2. TypeInv /\ WakeInv /\ [Next]_vars => (TypeInv /\ WakeInv)'
  BY StepWakes, TypesKept
<1>3. TypeInv /\ WakeInv => ReaderIsAccountedFor
  BY DEF WakeInv, ReaderIsAccountedFor
<1> QED BY <1>1, <1>2, <1>3, PTL DEF Spec

-----------------------------------------------------------------------------
(* A slot for every target.                                                *)

\* A layer only ever lands in a slot of its own shape.
SlotsFit ==
  /\ \A l \in Layer : Resident(l) => slotOf[l][1] = GroupOf[l]
  /\ Busy => reader.slot[1] = GroupOf[reader.layer]

\* There is one loan at a time, and none while a get waits.
LoansAreFew ==
  /\ \A s, t \in Slot : live[s] /\ live[t] => s = t
  /\ getter = "waiting" => \A s \in Slot : ~live[s]

\* Layer l is staged, or its shape has a slot besides the one on loan.
HasRoom(l) ==
  \A s \in Slot : live[s] /\ s[1] = GroupOf[l] => Resident(l) \/ Span(s[1]) >= 2

QueueHasRoom == \A i \in 1 .. Len(queue) : HasRoom(queue[i])

RoomInv == SlotsFit /\ LoansAreFew /\ QueueHasRoom

\* A walk that has room for a layer of the shape it starts from has two slots of it.
LEMMA RoomForTwo ==
  ASSUME NEW idx \in Layer, NEW d \in {-1, 1}, NEW l \in Targets(idx, d),
         GroupOf[l] = GroupOf[idx]
  PROVE  Span(GroupOf[idx]) >= 2
<1> DEFINE g == GroupOf[idx]
<1>1. ReadAhead \in Nat /\ Layer \subseteq Int /\ g \in Group
  BY SourceAssumption DEF Layer
<1>2. PICK k \in 1 .. ReadAhead : l = idx + d * k /\ RoomyStep(idx, d, k)
  BY <1>1 DEF Targets
<1> DEFINE taken == {m \in 0 .. k : GroupOf[idx + d * m] = g}
<1>3. Cardinality(taken) <= Span(g)
  BY <1>2 DEF RoomyStep
<1>4. 0 \in taken /\ k \in taken /\ k # 0
  BY <1>1, <1>2
<1>5. IsFiniteSet(taken)
  <2>1. IsFiniteSet(0 .. k)
    BY <1>1, FS_Interval
  <2>2. taken \in SUBSET (0 .. k)
    OBVIOUS
  <2> QED BY <2>1, <2>2, FS_Subset
<1> HIDE DEF taken
<1>6. IsFiniteSet({0, k}) /\ Cardinality({0, k}) = 2
  <2>1. IsFiniteSet({0}) /\ Cardinality({0}) = 1
    BY FS_Singleton, Zenon
  <2>2. k \notin {0}
    BY <1>4
  <2>3. IsFiniteSet({0} \cup {k}) /\ Cardinality({0} \cup {k}) = Cardinality({0}) + 1
    BY <2>1, <2>2, FS_AddElement, Zenon
  <2>4. {0, k} = {0} \cup {k}
    OBVIOUS
  <2> QED BY <2>1, <2>3, <2>4
<1>7. Cardinality({0, k}) <= Cardinality(taken)
  BY <1>4, <1>5, FS_Subset, {0, k} \in SUBSET taken
<1>8. Cardinality(taken) \in Nat /\ Span(g) \in Nat
  BY <1>1, <1>5, FS_CardinalityType, SpanIsPositive
<1> QED BY <1>3, <1>6, <1>7, <1>8

\* _plan_queue plans targets of the walk only.
LEMMA PlanIsTargets ==
  ASSUME NEW idx \in Layer, NEW d \in {-1, 1}, NEW i \in 1 .. Len(PlanQueue(idx, d))
  PROVE  PlanQueue(idx, d)[i] \in Targets(idx, d)
<1> DEFINE T == Targets(idx, d)
<1>1. T \in SUBSET Layer /\ Layer \in SUBSET Int /\ IsFiniteSet(Layer)
  BY SourceAssumption, FS_Interval DEF Targets, Layer
<1>2. T \in SUBSET Int /\ IsFiniteSet(T) /\ Cardinality(T) \in Nat
  BY <1>1, FS_Subset, FS_CardinalityType
<1> HIDE DEF T
<1> DEFINE plan == [n \in 1 .. Cardinality(T) |->
                     CHOOSE l \in T : Cardinality({m \in T : MetBefore(d, m, l)}) = n - 1]
<1>3. PlanQueue(idx, d) = plan
  BY DEF PlanQueue, T
<1>4. Len(plan) = Cardinality(T)
  BY <1>2
<1>5. i \in 1 .. Cardinality(T)
  BY <1>3, <1>4
<1>6. plan[i] = CHOOSE l \in T : Cardinality({m \in T : MetBefore(d, m, l)}) = i - 1
  BY <1>5
<1>7. \E l \in T : Cardinality({m \in T : MetBefore(d, m, l)}) = i - 1
  BY <1>2, <1>5, RankIsOntoRanks
<1> HIDE DEF plan
<1>8. plan[i] \in T
  BY <1>6, <1>7
<1> QED BY <1>3, <1>8 DEF T

-----------------------------------------------------------------------------
\* Fewer than m places on, a rotation over m slots has not come round.
LEMMA PlacesDiffer ==
  ASSUME NEW n \in Nat, NEW m \in Nat \ {0}, NEW o \in 0 .. m - 1, NEW p \in 0 .. m - 1, o < p
  PROVE  (n + o) % m # (n + p) % m
<1> SUFFICES ASSUME (n + o) % m = (n + p) % m PROVE FALSE
  OBVIOUS
<1>1. PICK q \in Int, r \in 0 .. m - 1 : n + o = m * q + r /\ r = (n + o) % m
  <2>1. (n + o) \div m \in Int /\ (n + o) % m \in 0 .. m - 1
    OBVIOUS
  <2>2. n + o = m * ((n + o) \div m) + ((n + o) % m)
    OBVIOUS
  <2> QED BY <2>1, <2>2
<1>2. PICK x \in Int, s \in 0 .. m - 1 : n + p = m * x + s /\ s = (n + p) % m
  <2>1. (n + p) \div m \in Int /\ (n + p) % m \in 0 .. m - 1
    OBVIOUS
  <2>2. n + p = m * ((n + p) \div m) + ((n + p) % m)
    OBVIOUS
  <2> QED BY <2>1, <2>2
<1>3. m * (x - q) = p - o
  <2>1. m * x \in Int /\ m * q \in Int /\ m * (x - q) = m * x - m * q
    OBVIOUS
  <2>2. r = s /\ r \in Int /\ n + o = m * q + r /\ n + p = m * x + r
    BY <1>1, <1>2
  <2> HIDE <1>1, <1>2
  <2> QED BY <2>1, <2>2
<1>4. PICK y \in Int : y = x - q /\ m * y = p - o
  BY <1>3
<1>5. CASE y <= 0
  <2>1. m * y <= 0
    BY <1>5
  <2> QED BY <1>4, <2>1
<1>6. CASE y >= 1
  <2>1. m * y >= m
    BY <1>6
  <2> QED BY <1>4, <2>1
<1> QED BY <1>5, <1>6

\* Two successive places of a rotation over at least two slots differ.
LEMMA NeighboursDiffer ==
  ASSUME NEW n \in Nat, NEW m \in Nat, m >= 2
  PROVE  n % m # (n + 1) % m
<1>1. m \in Nat \ {0} /\ 0 \in 0 .. m - 1 /\ 1 \in 0 .. m - 1 /\ 0 < 1
  OBVIOUS
<1>2. (n + 0) % m # (n + 1) % m
  BY <1>1, PlacesDiffer
<1>3. n + 0 = n
  OBVIOUS
<1> QED BY <1>2, <1>3, Zenon

\* Two slots of a shape: the shape has a span of two or more.
LEMMA SameShapeTwoSlots ==
  ASSUME NEW s \in Slot, NEW t \in Slot, s # t, s[1] = t[1]
  PROVE  Span(s[1]) >= 2
<1>1. PICK g \in Group : \E k \in 0 .. Span(g) - 1 : s = <<g, k>>
  BY DEF Slot
<1>2. PICK k \in 0 .. Span(g) - 1 : s = <<g, k>>
  BY <1>1
<1>3. PICK h \in Group : \E j \in 0 .. Span(h) - 1 : t = <<h, j>>
  BY DEF Slot
<1>4. PICK j \in 0 .. Span(h) - 1 : t = <<h, j>>
  BY <1>3
<1>5. h = g /\ j # k
  BY <1>2, <1>4
<1>6. Span(g) \in Nat
  BY SpanIsPositive
<1> QED BY <1>2, <1>4, <1>5, <1>6

\* The reader takes the head of the queue; what it evicts has room to come back.
LEMMA QueueShrinks ==
  ASSUME TypeInv, QueueHasRoom, queue # <<>>, queue' = Tail(queue), live' = live,
         \A l \in Layer : Resident(l) /\ ~Resident(l)' =>
            \A s \in Slot : live[s] /\ s[1] = GroupOf[l] => Span(s[1]) >= 2
  PROVE  QueueHasRoom'
<1>1. queue \in Seq(Layer)
  BY DEF TypeInv, TypeOK
<1>2. ASSUME NEW i \in 1 .. Len(queue'), NEW s \in Slot, live[s], s[1] = GroupOf[queue'[i]]
      PROVE  slotOf'[queue'[i]] # NoSlot \/ Span(s[1]) >= 2
  <2>1. i + 1 \in 1 .. Len(queue) /\ queue'[i] = queue[i + 1] /\ queue[i + 1] \in Layer
    BY <1>1
  <2>2. PICK l \in Layer : l = queue[i + 1]
    BY <2>1
  <2>3. Resident(l) \/ Span(s[1]) >= 2
    BY <1>2, <2>1, <2>2 DEF QueueHasRoom, HasRoom
  <2>4. Resident(l)' \/ Span(s[1]) >= 2
    BY <1>2, <2>1, <2>2, <2>3
  <2>5. queue'[i] = l
    BY <2>1, <2>2
  <2> QED BY <2>4, <2>5 DEF Resident
<1> QED BY <1>2 DEF QueueHasRoom, HasRoom, Resident

\* Steps that leave slots, loans and queue alone.
LEMMA RoomIsLeft ==
  ASSUME RoomInv, UNCHANGED <<queue, slotOf, live>>,
         getter' = "waiting" => getter = "waiting",
         Busy' => Busy /\ reader'.slot = reader.slot /\ reader'.layer = reader.layer
  PROVE  RoomInv'
BY DEF RoomInv, SlotsFit, LoansAreFew, QueueHasRoom, HasRoom, Resident

\* A claim evicts a layer only where the shape has a slot besides the one on loan.
LEMMA ClaimLeavesRoom ==
  ASSUME TypeInv, StagingInv, RoomInv, ReaderClaim
  PROVE  RoomInv'
<1> DEFINE idx == Head(queue)
           g == GroupOf[idx]
           slot == SlotAt(g, ClaimOffset(g))
<1> USE DEF RoomInv
<1>1. /\ queue # <<>> /\ queue' = Tail(queue)
      /\ slotOf' = Evicting(slot)
      /\ reader' = [pc |-> "draining", layer |-> idx, slot |-> slot, drain |-> drain[slot]]
      /\ UNCHANGED <<live, getter>>
  BY DEF ReaderClaim, DrainBefore, consumerVars
<1>2. idx \in Layer /\ g \in Group
  BY <1>1, SourceAssumption DEF TypeInv, TypeOK
<1>3. ClaimOffset(g) \in Takeable(g) /\ ClaimOffset(g) \in Nat
  BY <1>2, ClaimTakesATakeableSlot DEF ReaderClaim
<1>4. slot \in Slot /\ ~live[slot] /\ slot[1] = g
  BY <1>2, <1>3, SlotAtIsSlot DEF Takeable, SlotAt, TypeInv, TypeOK
<1> HIDE DEF idx, g, slot
<1>5. \A l \in Layer : slotOf'[l] = IF slotOf[l] = slot THEN NoSlot ELSE slotOf[l]
  BY <1>1 DEF Evicting
<1>6. SlotsFit'
  BY <1>1, <1>4, <1>5 DEF SlotsFit, Resident, g
<1>7. LoansAreFew'
  BY <1>1 DEF LoansAreFew
<1>8. ASSUME NEW l \in Layer, Resident(l), ~Resident(l)', NEW s \in Slot,
             live[s], s[1] = GroupOf[l]
      PROVE  Span(s[1]) >= 2
  <2>1. slotOf[l] = slot
    BY <1>5, <1>8 DEF Resident
  <2>2. s[1] = slot[1] /\ s # slot
    BY <1>4, <1>8, <2>1 DEF SlotsFit
  <2> QED BY <1>4, <1>8, <2>2, SameShapeTwoSlots
<1>9. QueueHasRoom'
  BY <1>1, <1>8, QueueShrinks
<1> QED BY <1>6, <1>7, <1>9

\* A get that is served plans only what has room beside the slot it lends.
LEMMA ServeLeavesRoom ==
  ASSUME TypeInv, StagingInv, RoomInv, GetServe
  PROVE  RoomInv'
<1> DEFINE d == NotedDirection(want)
<1> USE DEF RoomInv
<1>1. want \in Layer
  BY DEF GetServe, InLoop, TypeInv, AskedForALayer
<1>2. d \in {-1, 1}
  BY <1>1, DirectionIsEither DEF TypeInv, TypeOK
<1>3. /\ queue' = PlanQueue(want, d)
      /\ live' = [s \in Slot |-> s = slotOf[want]]
      /\ reader' \in {reader, Awake(reader)}
      /\ getter' = "idle" /\ slotOf' = slotOf
      /\ Resident(want)
  BY DEF GetServe, GetEnds, Held
<1> HIDE DEF d
<1>4. /\ Busy' = Busy
      /\ Busy => reader' = reader
  BY <1>3, AwakeKeepsItsSlot DEF TypeInv
<1>5. SlotsFit'
  BY <1>3, <1>4 DEF SlotsFit, Resident
<1>6. LoansAreFew'
  BY <1>3 DEF LoansAreFew
<1>7. ASSUME NEW i \in 1 .. Len(queue'), NEW s \in Slot, live'[s], s[1] = GroupOf[queue'[i]]
      PROVE  Span(s[1]) >= 2
  <2>1. s[1] = GroupOf[want]
    BY <1>1, <1>3, <1>7 DEF SlotsFit
  <2>2. PICK l \in Targets(want, d) : l = queue'[i]
    BY <1>1, <1>2, <1>3, <1>7, PlanIsTargets
  <2> QED BY <1>1, <1>2, <1>7, <2>1, <2>2, RoomForTwo
<1>8. QueueHasRoom'
  BY <1>7 DEF QueueHasRoom, HasRoom
<1> QED BY <1>5, <1>6, <1>8

\* Steps after which nothing is on loan have room for anything.
LEMMA RoomWithoutLoans ==
  ASSUME RoomInv, \A s \in Slot : ~live'[s],
         \A l \in Layer : slotOf'[l] \in {slotOf[l], NoSlot},
         Busy' => Busy /\ reader'.slot = reader.slot /\ reader'.layer = reader.layer
  PROVE  RoomInv'
BY DEF RoomInv, SlotsFit, LoansAreFew, QueueHasRoom, HasRoom, Resident

LEMMA GetLeavesRoom ==
  ASSUME TypeInv, StagingInv, RoomInv, GetStep
  PROVE  RoomInv'
<1>1. CASE GetServe
  BY <1>1, ServeLeavesRoom
<1>2. CASE GetMiss
  <2>1. want \in Layer /\ slotOf[want] = NoSlot
    BY <1>2 DEF GetMiss, InLoop, Resident, TypeInv, AskedForALayer
  <2>2. \A s \in Slot : ~live'[s]
    BY <1>2, <2>1, NoSlotIsNoSlot DEF GetMiss, Held
  <2>3. slotOf' = slotOf /\ reader' \in {reader, Awake(reader)}
    BY <1>2 DEF GetMiss
  <2>4. /\ Busy' = Busy
        /\ Busy => reader' = reader
    BY <2>3, AwakeKeepsItsSlot DEF TypeInv
  <2> QED BY <2>2, <2>3, <2>4, RoomWithoutLoans
<1>3. CASE GetRestartsReader
  <2>1. live' = live /\ slotOf' = slotOf /\ ~Busy'
    BY <1>3 DEF GetRestartsReader, NoRead, Busy
  <2>2. \A s \in Slot : ~live'[s]
    BY <1>3, <2>1 DEF GetRestartsReader, RoomInv, LoansAreFew
  <2> QED BY <2>1, <2>2, RoomWithoutLoans
<1>4. CASE GetOnLoan \/ GetRaisesError \/ GetRaisesClosed \/ GetReaderGivenUp \/ GetReadWedged
  <2>1. /\ UNCHANGED <<queue, slotOf, live, reader>>
        /\ getter' = "idle"
    BY <1>4 DEF GetOnLoan, GetRaisesError, GetRaisesClosed, GetReaderGivenUp, GetReadWedged,
                GetEnds, sourceVars
  <2> QED BY <2>1, RoomIsLeft DEF Busy
<1> QED BY <1>1, <1>2, <1>3, <1>4 DEF GetStep

LEMMA ReaderLeavesRoom ==
  ASSUME TypeInv, StagingInv, RoomInv, ReaderStep \/ DriveStep
  PROVE  RoomInv'
<1>1. CASE ReaderSkip
  <2>1. /\ queue # <<>> /\ queue' = Tail(queue)
        /\ UNCHANGED <<slotOf, live, reader, getter>>
    BY <1>1 DEF ReaderSkip, consumerVars
  <2>2. SlotsFit' /\ LoansAreFew'
    BY <2>1 DEF RoomInv, SlotsFit, LoansAreFew, Resident, Busy
  <2>3. QueueHasRoom'
    BY <2>1, QueueShrinks DEF RoomInv, Resident
  <2> QED BY <2>2, <2>3 DEF RoomInv
<1>2. CASE ReaderClaim
  BY <1>2, ClaimLeavesRoom
<1>3. CASE ReaderPublish
  <2>1. /\ reader.pc = "loaded" /\ ~Busy'
        /\ slotOf' \in {slotOf, [slotOf EXCEPT ![reader.layer] = reader.slot]}
        /\ UNCHANGED <<queue, live, getter>>
    BY <1>3 DEF ReaderPublish, Publishing, NoRead, Busy, consumerVars
  <2>2. reader.layer \in Layer /\ reader.slot \in Slot /\ slotOf[reader.layer] = NoSlot
    BY <2>1 DEF StagingInv, ReaderHasItsSlot, Busy
  <2>3. reader.slot[1] = GroupOf[reader.layer] /\ reader.slot # NoSlot
    BY <2>1, <2>2, NoSlotIsNoSlot DEF RoomInv, SlotsFit, Busy
  <2>4. \A l \in Layer : \/ slotOf'[l] = slotOf[l]
                         \/ l = reader.layer /\ slotOf'[l] = reader.slot
    BY <2>1, <2>2 DEF TypeInv, TypeOK
  <2>5. SlotsFit'
    BY <2>1, <2>3, <2>4 DEF RoomInv, SlotsFit, Resident
  <2>6. LoansAreFew'
    BY <2>1 DEF RoomInv, LoansAreFew
  <2>7. \A i \in 1 .. Len(queue) : queue[i] \in Layer
    BY DEF TypeInv, TypeOK
  <2>8. \A l \in Layer : Resident(l) => Resident(l)'
    BY <2>3, <2>4 DEF Resident
  <2>9. QueueHasRoom'
    BY <2>1, <2>7, <2>8 DEF RoomInv, QueueHasRoom, HasRoom
  <2> QED BY <2>5, <2>6, <2>9 DEF RoomInv
<1>4. CASE \/ ReaderEnter \/ ReaderDiesUnborn \/ ReaderSleep \/ ReaderExit
           \/ ReaderBeginRead \/ ReaderFail \/ DriveStep
  <2>1. UNCHANGED <<queue, slotOf, live, getter>>
    BY <1>4 DEF ReaderEnter, ReaderDiesUnborn, ReaderSleep, ReaderExit, ReaderBeginRead,
                ReaderFail, DriveStep, ReaderEndRead, ReaderReadFails, sourceVars, consumerVars
  <2>2. Busy' => Busy /\ reader'.slot = reader.slot /\ reader'.layer = reader.layer
    BY <1>4 DEF ReaderEnter, ReaderDiesUnborn, ReaderSleep, ReaderExit, ReaderBeginRead,
                ReaderFail, DriveStep, ReaderEndRead, ReaderReadFails, NoRead, Busy,
                TypeInv, TypeOK, ReaderState
  <2> QED BY <2>1, <2>2, RoomIsLeft
<1> QED BY <1>1, <1>2, <1>3, <1>4 DEF ReaderStep

LEMMA OthersLeaveRoom ==
  ASSUME TypeInv, StagingInv, RoomInv,
         \/ ReadGoesOverdue \/ ClientStep \/ CopyExecutes \/ CloseBegins \/ CloseEnds
  PROVE  RoomInv'
<1>1. CASE \/ ReadGoesOverdue \/ CloseBegins \/ CopyExecutes \/ EnqueueCopy
           \/ \E idx \in Layer : Ask(idx)
  <2>1. /\ UNCHANGED <<queue, slotOf, live>>
        /\ getter' = "waiting" => getter = "waiting"
    BY <1>1 DEF ReadGoesOverdue, CloseBegins, CopyExecutes, EnqueueCopy, Ask, sourceVars,
                consumerVars
  <2>2. Busy' => Busy /\ reader'.slot = reader.slot /\ reader'.layer = reader.layer
    BY <1>1 DEF ReadGoesOverdue, CloseBegins, CopyExecutes, EnqueueCopy, Ask, Awake, Busy,
                TypeInv, TypeOK, ReaderState
  <2> QED BY <2>1, <2>2, RoomIsLeft
<1>2. CASE CloseEnds
  BY <1>2, RoomWithoutLoans DEF CloseEnds, Busy
<1>3. CASE Release
  <2>1. /\ UNCHANGED <<queue, slotOf, getter>>
        /\ \A s \in Slot : live'[s] => live[s]
        /\ reader' \in {reader, Awake(reader)}
    BY <1>3 DEF Release, GivenBack, TypeInv, TypeOK
  <2>2. /\ Busy' = Busy
        /\ Busy => reader' = reader
    BY <2>1, AwakeKeepsItsSlot DEF TypeInv
  <2> QED BY <2>1, <2>2 DEF RoomInv, SlotsFit, LoansAreFew, QueueHasRoom, HasRoom, Resident
<1> QED BY <1>1, <1>2, <1>3 DEF ClientStep

LEMMA StepLeavesRoom == SafetyInv /\ RoomInv /\ [Next]_vars => RoomInv'
<1> SUFFICES ASSUME SafetyInv, RoomInv, [Next]_vars PROVE RoomInv'
  OBVIOUS
<1>1. CASE UNCHANGED vars
  BY <1>1, RoomIsLeft DEF vars, Busy
<1>2. CASE Next
  BY <1>2, ReaderLeavesRoom, GetLeavesRoom, OthersLeaveRoom DEF Next, SafetyInv
<1> QED BY <1>1, <1>2

LEMMA RoomAlways == Spec => [](SafetyInv /\ RoomInv)
<1>1. Init => SafetyInv /\ RoomInv
  BY InitSafe DEF Init, NoRead, RoomInv, SlotsFit, LoansAreFew, QueueHasRoom, HasRoom,
                  Resident, Busy
<1>2. SafetyInv /\ RoomInv /\ [Next]_vars => (SafetyInv /\ RoomInv)'
  BY StepIsSafe, StepLeavesRoom
<1> QED BY <1>1, <1>2, PTL DEF Spec

\* The reader never waits for a release: whenever it comes to a layer it has to
\* stage, a slot of that layer's shape is there to be claimed.
THEOREM ReaderNeverWaitsForALoan == Spec => []TargetsHaveASlot
<1>1. SafetyInv /\ RoomInv => TargetsHaveASlot
  <2> SUFFICES ASSUME SafetyInv, RoomInv, queue # <<>>, ~Resident(Head(queue))
               PROVE  Takeable(GroupOf[Head(queue)]) # {}
    BY DEF TargetsHaveASlot
  <2>1. 1 \in 1 .. Len(queue) /\ Head(queue) = queue[1] /\ queue[1] \in Layer
    BY DEF SafetyInv, TypeInv, TypeOK
  <2>2. PICK g \in Group : g = GroupOf[Head(queue)]
    BY <2>1, SourceAssumption
  <2>3. Span(g) \in Nat \ {0} /\ nextSlot[g] \in Nat
    BY SpanIsPositive DEF SafetyInv, TypeInv, TypeOK
  <2>4. SlotAt(g, 0) \in Slot /\ SlotAt(g, 1) \in Slot
    BY SlotAtIsSlot DEF SafetyInv, TypeInv, TypeOK
  <2>5. CASE ~live[SlotAt(g, 0)]
    BY <2>2, <2>3, <2>5 DEF Takeable
  <2>6. CASE live[SlotAt(g, 0)]
    <3>1. SlotAt(g, 0)[1] = g
      BY DEF SlotAt
    <3>2. HasRoom(queue[1])
      BY <2>1 DEF RoomInv, QueueHasRoom
    <3>3. Span(g) >= 2
      BY <2>1, <2>2, <2>4, <2>6, <3>1, <3>2 DEF HasRoom
    <3>4. nextSlot[g] % Span(g) # (nextSlot[g] + 1) % Span(g)
      BY <2>3, <3>3, NeighboursDiffer
    <3>5. SlotAt(g, 0) # SlotAt(g, 1)
      BY <2>3, <3>4 DEF SlotAt
    <3>6. ~live[SlotAt(g, 1)]
      BY <2>4, <2>6, <3>5 DEF RoomInv, LoansAreFew
    <3> QED BY <2>2, <2>3, <3>3, <3>6 DEF Takeable
  <2> QED BY <2>5, <2>6
<1> QED BY <1>1, RoomAlways, PTL

-----------------------------------------------------------------------------
(* The refinement.  The bytes on loan and in transit are those of          *)
(* SafetyInv.                                                              *)

\* What the refinement mapping reads off the regions.
Lent == IF loan = NoLoan THEN NoLayer ELSE region[loan.slot]
Transit == [i \in 1 .. Len(stream) |-> region[stream[i].slot]]

\* The same, read off what the consumer asked for.
LEMMA MappedState ==
  ASSUME SafetyInv
  PROVE  /\ Lent = IF loan = NoLoan THEN NoLayer ELSE loan.layer
         /\ Transit = [i \in 1 .. Len(stream) |-> stream[i].layer]
BY DEF Lent, Transit, SafetyInv, StagingInv, LoanIsWhole, CopiesAreGuarded, CopyIsGuarded

LEMMA MappedNextState ==
  ASSUME SafetyInv'
  PROVE  /\ Lent' = IF loan' = NoLoan THEN NoLayer ELSE loan'.layer
         /\ Transit' = [i \in 1 .. Len(stream') |-> stream'[i].layer]
BY DEF Lent, Transit, SafetyInv, StagingInv, LoanIsWhole, CopiesAreGuarded, CopyIsGuarded

\* A get that is served lends nothing on top of another layer.
LEMMA OneLoanAtATime ==
  ASSUME SafetyInv, GetServe
  PROVE  loan = NoLoan \/ loan.layer = want
<1> SUFFICES ASSUME loan # NoLoan, Pinned PROVE loan.layer = want
  BY DEF SafetyInv, MissedLoanIsOver, GetServe, InLoop
<1>1. loan \in Loan /\ loan.slot \in Slot /\ loan.layer \in Layer
  BY DEF SafetyInv, TypeInv, TypeOK, Loan
<1>2. slotOf[loan.layer] = loan.slot /\ live[loan.slot]
  BY DEF SafetyInv, StagingInv, ReleaseFindsItsLayer, ClosingInStep, GetServe
<1>3. slotOf[want] = loan.slot
  BY <1>1, <1>2 DEF GetServe, MayHold, Borrowed
<1>4. want \in Layer
  BY DEF SafetyInv, TypeInv, AskedForALayer, GetServe, InLoop
<1> QED BY <1>1, <1>2, <1>3, <1>4, NoSlotIsNoSlot
        DEF SafetyInv, StagingInv, ResidentIsStaged, Resident

\* Steps the consumer takes no part in, and waits inside a get.
LEMMA HiddenSteps ==
  ASSUME SafetyInv, SafetyInv', UNCHANGED <<want, loan, stream>>
  PROVE  UNCHANGED <<want, Lent, Transit>>
BY MappedState, MappedNextState

\* A get refused.
LEMMA RefusedSteps ==
  ASSUME SafetyInv, SafetyInv', getter # "idle", want' = NoLayer,
         UNCHANGED <<loan, stream>>
  PROVE  Loans!Next
<1>1. want # NoLayer
  BY DEF SafetyInv, TypeInv, AskedForALayer, Layer, NoLayer
<1>2. UNCHANGED <<Lent, Transit>>
  BY MappedState, MappedNextState
<1> QED BY <1>1, <1>2 DEF Loans!Next, Loans!Refuse, Lent, Transit

LEMMA GetRefines ==
  ASSUME SafetyInv, SafetyInv', GetStep
  PROVE  [Loans!Next]_<<want, Lent, Transit>>
<1>1. CASE GetServe
  <2>1. want \in Layer /\ want # NoLayer
    BY <1>1 DEF SafetyInv, TypeInv, AskedForALayer, GetServe, InLoop, Layer, NoLayer
  <2>2. Lent \in {NoLayer, want}
    BY <1>1, OneLoanAtATime, MappedState
  <2>3. loan' # NoLoan /\ loan'.layer = want /\ want' = NoLayer /\ stream' = stream
    BY <1>1, <2>1 DEF GetServe, GetEnds, NoLoan
  <2>4. Lent' = want /\ Transit' = Transit
    BY <2>3, MappedState, MappedNextState
  <2> QED BY <2>1, <2>2, <2>3, <2>4 DEF Loans!Next, Loans!Lend, Lent, Transit
<1>2. CASE GetMiss \/ GetRestartsReader
  <2>1. UNCHANGED <<want, loan, stream>>
    BY <1>2 DEF GetMiss, GetRestartsReader, consumerVars
  <2> QED BY <2>1, HiddenSteps
<1>3. CASE GetOnLoan \/ GetRaisesError \/ GetRaisesClosed \/ GetReaderGivenUp \/ GetReadWedged
  <2>1. getter # "idle" /\ want' = NoLayer /\ UNCHANGED <<loan, stream>>
    BY <1>3 DEF GetOnLoan, GetRaisesError, GetRaisesClosed, GetReaderGivenUp, GetReadWedged,
                GetEnds, InLoop
  <2> QED BY <2>1, RefusedSteps
<1> QED BY <1>1, <1>2, <1>3 DEF GetStep

LEMMA ClientRefines ==
  ASSUME SafetyInv, SafetyInv', ClientStep
  PROVE  [Loans!Next]_<<want, Lent, Transit>>
<1>1. ASSUME NEW idx \in Layer, Ask(idx)
      PROVE  [Loans!Next]_<<want, Lent, Transit>>
  <2>1. want' = idx /\ loan' \in {loan, NoLoan} /\ stream' = stream
    BY <1>1 DEF Ask
  <2>2. Lent' \in {Lent, NoLayer} /\ Transit' = Transit
    BY <2>1, MappedState, MappedNextState
  <2>3. CASE want = NoLayer
    BY <2>1, <2>2, <2>3 DEF Loans!Next, Loans!Ask, Lent, Transit
  <2>4. CASE want # NoLayer
    BY <1>1, <2>4 DEF Ask, SafetyInv, TypeInv, AskedForALayer
  <2> QED BY <2>3, <2>4
<1>2. CASE EnqueueCopy
  <2>1. want = NoLayer /\ loan # NoLoan /\ loan \in Loan /\ stream \in Seq(Loan)
    BY <1>2 DEF EnqueueCopy, SafetyInv, TypeInv, TypeOK, AskedForALayer
  <2>2. stream' = Append(stream, loan) /\ UNCHANGED <<want, loan>>
    BY <1>2 DEF EnqueueCopy, consumerVars
  <2>3. Lent = loan.layer /\ Lent' = Lent /\ Lent # NoLayer
    BY <2>1, <2>2, MappedState, MappedNextState DEF Loan, Layer, NoLayer
  <2>4. Transit' = Append(Transit, Lent)
    BY <2>1, <2>2, <2>3, MappedState, MappedNextState
  <2> QED BY <2>1, <2>2, <2>3, <2>4 DEF Loans!Next, Loans!EnqueueCopy, Lent, Transit
<1>3. CASE Release
  <2>1. want = NoLayer /\ loan # NoLoan /\ loan \in Loan
    BY <1>3 DEF Release, SafetyInv, TypeInv, TypeOK, AskedForALayer
  <2>2. loan' = NoLoan /\ UNCHANGED <<want, stream>>
    BY <1>3 DEF Release
  <2>3. Lent # NoLayer /\ Lent' = NoLayer /\ Transit' = Transit
    BY <2>1, <2>2, MappedState, MappedNextState DEF Loan, Layer, NoLayer
  <2> QED BY <2>1, <2>2, <2>3 DEF Loans!Next, Loans!GiveBack, Lent, Transit
<1> QED BY <1>1, <1>2, <1>3 DEF ClientStep

\* The reader, the clock and close() leave everything the consumer sees alone.
LEMMA OthersRefine ==
  ASSUME SafetyInv, SafetyInv',
         \/ ReaderStep \/ DriveStep \/ ReadGoesOverdue \/ CopyExecutes
         \/ CloseBegins \/ CloseEnds
  PROVE  [Loans!Next]_<<want, Lent, Transit>>
<1>1. CASE CopyExecutes
  <2>1. stream # <<>> /\ stream \in Seq(Loan)
    BY <1>1 DEF CopyExecutes, SafetyInv, TypeInv, TypeOK
  <2>2. stream' = Tail(stream) /\ UNCHANGED <<want, loan>>
    BY <1>1 DEF CopyExecutes, consumerVars
  <2>3. Transit # <<>> /\ Transit' = Tail(Transit) /\ Lent' = Lent
    BY <2>1, <2>2, MappedState, MappedNextState
  <2> QED BY <2>2, <2>3 DEF Loans!Next, Loans!CopyExecutes, Lent, Transit
<1>2. CASE ReaderStep \/ DriveStep \/ ReadGoesOverdue \/ CloseBegins \/ CloseEnds
  <2>1. UNCHANGED <<want, loan, stream>>
    BY <1>2 DEF ReaderStep, DriveStep, ReaderEnter, ReaderDiesUnborn, ReaderSleep,
         ReaderExit, ReaderSkip, ReaderClaim, ReaderBeginRead,
         ReaderEndRead, ReaderReadFails, ReaderPublish, ReaderFail, ReadGoesOverdue,
         CloseBegins, CloseEnds, consumerVars
  <2> QED BY <2>1, HiddenSteps
<1> QED BY <1>1, <1>2

\* The source keeps the promise of LayerLoan: a get lends the bytes of the layer
\* asked for or refuses, and nothing changes bytes that are lent or in transit.
THEOREM SourceKeepsItsPromise == Spec => KeepsItsPromise
<1>1. Init => Loans!Init
  BY DEF Init, Loans!Init
<1>2. SafetyInv /\ SafetyInv' /\ [Next]_vars => [Loans!Next]_<<want, Lent, Transit>>
  <2> SUFFICES ASSUME SafetyInv, SafetyInv', [Next]_vars
               PROVE  [Loans!Next]_<<want, Lent, Transit>>
    OBVIOUS
  <2>1. CASE UNCHANGED vars
    <3>1. UNCHANGED <<want, loan, stream>>
      BY <2>1 DEF vars
    <3> QED BY <3>1, HiddenSteps
  <2> QED BY <2>1, GetRefines, ClientRefines, OthersRefine DEF Next
<1>3. [Loans!Next]_<<want, Lent, Transit>> => [Loans!Next]_(Loans!loanVars)
  BY DEF Loans!loanVars, Lent, Transit
<1> QED BY <1>1, <1>2, <1>3, AlwaysSafe, PTL DEF Spec, KeepsItsPromise, Loans!Spec
=============================================================================
