-------------------------- MODULE AsyncDiskSource --------------------------
(***************************************************************************)
(* The asynchronous disk tier of layer streaming                           *)
(* (src/src/souplite/utils/async_disk_source.py).                          *)
(*                                                                         *)
(* ONE reader thread stages layers ahead of ONE consumer into a small set  *)
(* of reusable host regions ("slots").  get(idx) lends the consumer the    *)
(* slot of layer idx; release(idx, event) gives it back, and the event     *)
(* says when the GPU copies enqueued out of it have drained.  close() may  *)
(* be called by any thread while the other two are anywhere.               *)
(*                                                                         *)
(* One action is one stretch of code between two acquisitions of the       *)
(* source's lock.  A condition-variable wait is a state of its own: the    *)
(* reader's wait on an empty queue is untimed and ends only at a notify;   *)
(* its wait for a free slot and the consumer's wait for a layer are timed. *)
(***************************************************************************)
EXTENDS Integers, Sequences, FiniteSets

CONSTANTS
  NLayers,          \* layers the source serves, decoder layers first
  NGroups,          \* distinct layer shapes ("spec groups")
  GroupOf,          \* the shape of each layer
  ReadAhead,        \* training.stream_read_ahead
  Pinned,           \* is the staging page-locked (copies out of it are async)?
  MaxReaderStarts,  \* _MAX_READER_STARTS
  MaxStream         \* bound: copies in flight on the side stream

Layer == 0 .. NLayers - 1
Group == 0 .. NGroups - 1

ASSUME SourceAssumption ==
  /\ NLayers \in Nat \ {0}
  /\ NGroups \in Nat \ {0}
  /\ GroupOf \in [Layer -> Group]
  /\ \A g \in Group : \E l \in Layer : GroupOf[l] = g
  /\ ReadAhead \in 1 .. 8
  /\ Pinned \in BOOLEAN
  /\ MaxReaderStarts \in Nat \ {0}
  /\ MaxStream \in Nat \ {0}

NoLayer == -1
Torn == -2                 \* a region in the middle of being overwritten
NoSlot == <<-1, -1>>

Members(g) == {l \in Layer : GroupOf[l] = g}

\* How many slots group g has: depth beyond its members buys nothing.
Span(g) == LET size == Cardinality(Members(g))
           IN  IF ReadAhead < size THEN ReadAhead ELSE size

\* A slot is numbered within its group; a layer only fits its own group's.
Slot == UNION {{<<g, k>> : k \in 0 .. Span(g) - 1} : g \in Group}

Loan == [layer : Layer, slot : Slot]
NoLoan == [layer |-> NoLayer, slot |-> NoSlot]

VARIABLES
  queue,      \* _queue: the layers the reader is to stage, next one first
  slotOf,     \* _slot_of: the slot each resident layer is in
  inFlight,   \* _in_flight: the layer being read
  overdue,    \* has that read been in flight past _MAX_READ_SECONDS?
  nextSlot,   \* _next_slot: each group's rotation
  live,       \* _live: the slot is on loan to the consumer
  drain,      \* _drain: copies still ahead of the slot's drain event
  lastGet,    \* _last_get: each group's anchor
  direction,  \* _direction: which way each group is being walked
  error,      \* _error is set
  closed,     \* _closed
  region,     \* what the bytes of each slot are: a layer's, or torn
  reader,     \* the reader thread: its pc and the locals of _run
  starts,     \* _reader_starts
  getter,     \* the consumer inside get: "idle", "asking" or "waiting"
  want,       \* the layer it asked for
  loan,       \* the layer and slot it last obtained and has not given back
  answer,     \* how its last get ended
  stream,     \* copies enqueued on the side stream and not yet executed
  closer      \* close(): "open", "joining", "closed"

sourceVars == <<queue, slotOf, inFlight, overdue, nextSlot, live, drain,
                lastGet, direction, error, closed>>
consumerVars == <<getter, want, loan, answer>>
vars == <<queue, slotOf, inFlight, overdue, nextSlot, live, drain, lastGet,
          direction, error, closed, region, reader, starts, getter, want,
          loan, answer, stream, closer>>

ReaderPc == {"born", "stillborn", "top", "asleep", "draining",
             "reading", "loaded", "failing", "gone"}
ReaderState == [pc : ReaderPc, layer : Layer \cup {NoLayer},
                slot : Slot \cup {NoSlot}, drain : Nat]
Refusals == {"error", "closed", "on_loan", "not_started", "vanished", "wedged"}

TypeOK ==
  /\ queue \in Seq(Layer)
  /\ slotOf \in [Layer -> Slot \cup {NoSlot}]
  /\ inFlight \in Layer \cup {NoLayer}
  /\ overdue \in BOOLEAN
  /\ nextSlot \in [Group -> Nat]
  /\ live \in [Slot -> BOOLEAN]
  /\ drain \in [Slot -> Nat]
  /\ lastGet \in [Group -> Layer \cup {NoLayer}]
  /\ direction \in [Group -> {-1, 1}]
  /\ error \in BOOLEAN
  /\ closed \in BOOLEAN
  /\ region \in [Slot -> Layer \cup {NoLayer, Torn}]
  /\ reader \in ReaderState
  /\ starts \in 1 .. MaxReaderStarts
  /\ getter \in {"idle", "asking", "waiting"}
  /\ want \in Layer \cup {NoLayer}
  /\ loan \in Loan \cup {NoLoan}
  /\ answer \in {"none", "tensor"} \cup Refusals
  /\ stream \in Seq(Loan)
  /\ closer \in {"open", "joining", "closed"}

NoRead == [pc |-> "born", layer |-> NoLayer, slot |-> NoSlot, drain |-> 0]

Init ==
  /\ queue = <<0>>
  /\ slotOf = [l \in Layer |-> NoSlot]
  /\ inFlight = NoLayer
  /\ overdue = FALSE
  /\ nextSlot = [g \in Group |-> 0]
  /\ live = [s \in Slot |-> FALSE]
  /\ drain = [s \in Slot |-> 0]
  /\ lastGet = [g \in Group |-> NoLayer]
  /\ direction = [g \in Group |-> 1]
  /\ error = FALSE
  /\ closed = FALSE
  /\ region = [s \in Slot |-> NoLayer]
  /\ reader = NoRead
  /\ starts = 1
  /\ getter = "idle"
  /\ want = NoLayer
  /\ loan = NoLoan
  /\ answer = "none"
  /\ stream = <<>>
  /\ closer = "open"

-----------------------------------------------------------------------------
(* Choosing a slot.                                                        *)

Resident(l) == slotOf[l] # NoSlot

\* _still_wanted: l is inside the window its own group's walk heads into.
StillWanted(l) ==
  LET g == GroupOf[l]
      step == (l - lastGet[g]) * direction[g]
  IN  lastGet[g] # NoLayer /\ 0 <= step /\ step < Span(g)

SlotAt(g, offset) == <<g, (nextSlot[g] + offset) % Span(g)>>

\* Never a slot on loan, however much the reader wants one.
Takeable(g) == {o \in 0 .. Span(g) - 1 : ~live[SlotAt(g, o)]}

\* Mutant of DoneWith: rotation alone, whatever the slot holds.
DoneWithAnything(g) == Takeable(g)

\* Empty, or holding a layer the walk is done with.
DoneWith(g) ==
  {o \in Takeable(g) :
     \A l \in Layer : slotOf[l] = SlotAt(g, o) => ~StillWanted(l)}

\* Mutant of ClaimOffset: the rotation alone, loans and all.
ClaimOffsetInTurn(g) == 0

\* _claim_slot: the first slot in rotation done with, else the first takeable.
ClaimOffset(g) ==
  LET candidates == IF DoneWith(g) # {} THEN DoneWith(g) ELSE Takeable(g)
  IN  CHOOSE o \in candidates : \A p \in candidates : o <= p

\* _slot_of once the layer held by slot is evicted.
Evicting(slot) ==
  [l \in Layer |-> IF slotOf[l] = slot THEN NoSlot ELSE slotOf[l]]

\* Mutant of DrainBefore: the claim forgets the copies still draining.
DrainForgotten(slot) == 0

\* The event the read must wait for: the last release of the slot.
DrainBefore(slot) == drain[slot]

\* Mutant of Publishing: a read that outlives close() publishes its slot.
PublishingAlways(idx, slot) == [slotOf EXCEPT ![idx] = slot]

\* _slot_of once idx is staged: not after close(), which clears it.
Publishing(idx, slot) ==
  IF closed THEN slotOf ELSE [slotOf EXCEPT ![idx] = slot]

-----------------------------------------------------------------------------
(* Waking the reader: notify_all on the condition it waits on.             *)

\* Mutant of Awake: the notify is forgotten.
AsleepStill(r) == r

Awake(r) == IF r.pc = "asleep" THEN [r EXCEPT !.pc = "top"] ELSE r

-----------------------------------------------------------------------------
(* The reader thread: _enter_and_run, _run and _fail.                      *)

\* The thread runs its first statement.
ReaderEnter ==
  /\ reader.pc = "born"
  /\ reader' = [reader EXCEPT !.pc = "top"]
  /\ UNCHANGED <<sourceVars, region, starts, consumerVars, stream, closer>>

\* The thread dies in bootstrap, before its first statement.
ReaderDiesUnborn ==
  /\ reader.pc = "born"
  /\ reader' = [reader EXCEPT !.pc = "stillborn"]
  /\ UNCHANGED <<sourceVars, region, starts, consumerVars, stream, closer>>

ReaderSleep ==
  /\ reader.pc = "top"
  /\ queue = <<>>
  /\ ~closed
  /\ reader' = [reader EXCEPT !.pc = "asleep"]
  /\ UNCHANGED <<sourceVars, region, starts, consumerVars, stream, closer>>

ReaderExit ==
  /\ reader.pc = "top"
  /\ closed
  /\ reader' = [reader EXCEPT !.pc = "gone"]
  /\ UNCHANGED <<sourceVars, region, starts, consumerVars, stream, closer>>

\* The head of the queue was staged in the meantime.
ReaderSkip ==
  /\ reader.pc = "top"
  /\ queue # <<>>
  /\ ~closed
  /\ Resident(Head(queue))
  /\ queue' = Tail(queue)
  /\ UNCHANGED <<slotOf, inFlight, overdue, nextSlot, live, drain, lastGet,
                 direction, error, closed, region, reader, starts,
                 consumerVars, stream, closer>>

\* Claim a slot for the head of the queue, evicting the layer it holds.  With
\* none to claim the reader waits a second, or for a notify, and looks again: it
\* stays at the top of its loop.
ReaderClaim ==
  /\ reader.pc = "top"
  /\ queue # <<>>
  /\ ~closed
  /\ ~Resident(Head(queue))
  /\ LET idx == Head(queue)
         g == GroupOf[idx]
         offset == ClaimOffset(g)
         slot == SlotAt(g, offset)
     IN  /\ Takeable(g) # {}
         /\ nextSlot' = [nextSlot EXCEPT ![g] = (@ + offset + 1) % Span(g)]
         /\ slotOf' = Evicting(slot)
         /\ reader' = [pc |-> "draining", layer |-> idx, slot |-> slot,
                       drain |-> DrainBefore(slot)]
         /\ drain' = [drain EXCEPT ![slot] = 0]
         /\ inFlight' = idx
  /\ queue' = Tail(queue)
  /\ overdue' = FALSE
  /\ UNCHANGED <<live, lastGet, direction, error, closed, region, starts,
                 consumerVars, stream, closer>>

\* draining.synchronize() returns and the read begins to overwrite the slot.
ReaderBeginRead ==
  /\ reader.pc = "draining"
  /\ reader.drain = 0
  /\ reader' = [reader EXCEPT !.pc = "reading"]
  /\ region' = [region EXCEPT ![reader.slot] = Torn]
  /\ UNCHANGED <<sourceVars, starts, consumerVars, stream, closer>>

ReaderEndRead ==
  /\ reader.pc = "reading"
  /\ reader' = [reader EXCEPT !.pc = "loaded"]
  /\ region' = [region EXCEPT ![reader.slot] = reader.layer]
  /\ UNCHANGED <<sourceVars, starts, consumerVars, stream, closer>>

\* A failed synchronize, an I/O error, a short read, or a shard replaced on disk.
ReaderReadFails ==
  /\ reader.pc \in {"draining", "reading"}
  /\ reader' = [reader EXCEPT !.pc = "failing"]
  /\ UNCHANGED <<sourceVars, region, starts, consumerVars, stream, closer>>

\* Publish the staged layer, unless the source was closed meanwhile.
ReaderPublish ==
  /\ reader.pc = "loaded"
  /\ inFlight' = NoLayer
  /\ overdue' = FALSE
  /\ slotOf' = Publishing(reader.layer, reader.slot)
  /\ reader' = [NoRead EXCEPT !.pc = "top"]
  /\ UNCHANGED <<queue, nextSlot, live, drain, lastGet, direction, error,
                 closed, region, starts, consumerVars, stream, closer>>

\* _fail: record the error for the consumer; the thread ends.
ReaderFail ==
  /\ reader.pc = "failing"
  /\ error' = TRUE
  /\ inFlight' = NoLayer
  /\ overdue' = FALSE
  /\ reader' = [NoRead EXCEPT !.pc = "gone"]
  /\ UNCHANGED <<queue, slotOf, nextSlot, live, drain, lastGet, direction,
                 closed, region, starts, consumerVars, stream, closer>>

\* The clock passes _MAX_READ_SECONDS on the read in flight.
ReadGoesOverdue ==
  /\ inFlight # NoLayer
  /\ ~overdue
  /\ overdue' = TRUE
  /\ UNCHANGED <<queue, slotOf, inFlight, nextSlot, live, drain, lastGet,
                 direction, error, closed, region, reader, starts,
                 consumerVars, stream, closer>>

-----------------------------------------------------------------------------
(* The consumer: what get does under the lock.                             *)

Low(g) == CHOOSE l \in Members(g) : \A m \in Members(g) : l <= m
High(g) == CHOOSE l \in Members(g) : \A m \in Members(g) : m <= l

\* _note_direction: the walk's direction in idx's group once idx is obtained.
NotedDirection(idx) ==
  LET g == GroupOf[idx]
      walked == IF lastGet[g] \in {NoLayer, idx} THEN direction[g]
                ELSE IF idx > lastGet[g] THEN 1 ELSE -1
      atEdge == Low(g) < High(g) /\ idx + walked \notin Low(g) .. High(g)
  IN  IF atEdge THEN -walked ELSE walked

\* The steps of a walk from idx that its groups' slots have room for, idx's
\* own slot included.
RoomyStep(idx, d, k) ==
  /\ idx + d * k \in Layer
  /\ LET g == GroupOf[idx + d * k]
     IN  Cardinality({m \in 0 .. k : GroupOf[idx + d * m] = g}) <= Span(g)

\* The layers of the walk worth fetching: up to the first step without room.
Targets(idx, d) ==
  {l \in Layer : /\ ~Resident(l)
                 /\ \E k \in 1 .. ReadAhead :
                      /\ l = idx + d * k
                      /\ \A j \in 1 .. k : RoomyStep(idx, d, j)}

\* Layer l is met before layer m by a walk in direction d.
MetBefore(d, l, m) == IF d = 1 THEN l < m ELSE m < l

\* Mutant of PlanQueue: the walk unbounded by room or by the last layer.
PlanQueueUnbounded(idx, d) == [k \in 1 .. ReadAhead |-> idx + d * k]

\* _plan_queue: the targets in the order the walk meets them.
PlanQueue(idx, d) ==
  LET targets == Targets(idx, d)
  IN  [n \in 1 .. Cardinality(targets) |->
         CHOOSE l \in targets :
           Cardinality({m \in targets : MetBefore(d, m, l)}) = n - 1]

\* _hold: slots on loan other than that of the layer asked for.  Pinned
\* staging refuses to go on; pageable staging takes them back.
Borrowed(idx) == {s \in Slot : live[s] /\ s # slotOf[idx]}

\* Mutant of MayHold: pinned staging takes its slots back silently.
MayHoldAlways(idx) == TRUE

MayHold(idx) == Pinned => Borrowed(idx) = {}

\* Mutant of Held: a get never ends the loans before it.
HeldOnTop(idx) == [s \in Slot |-> live[s] \/ s = slotOf[idx]]

Held(idx) == [s \in Slot |-> s = slotOf[idx]]

\* A demand goes to the front and drops the plan, unless it is there already.
Demands(idx) == inFlight # idx /\ (queue = <<>> \/ Head(queue) # idx)

ReaderDead == reader.pc \in {"stillborn", "gone"}

\* _check_the_reader_is_making_progress finds something wrong with the thread.
ReaderLost == ~error /\ ~closed /\ ReaderDead

\* The consumer is at the top of get's loop; after a wait the check has passed.
InLoop == \/ getter = "asking"
          \/ getter = "waiting" /\ ~ReaderLost /\ ~overdue

GetEnds(result) ==
  /\ getter' = "idle"
  /\ want' = NoLayer
  /\ answer' = result

\* get(idx, name) is called.  Out of pageable memory the copy was synchronous,
\* so a reference to another layer is good only until now.
Ask(idx) ==
  /\ getter = "idle"
  /\ getter' = "asking"
  /\ want' = idx
  /\ answer' = "none"
  /\ loan' = IF ~Pinned /\ loan.layer # idx THEN NoLoan ELSE loan
  /\ UNCHANGED <<sourceVars, region, reader, starts, stream, closer>>

\* The layer is staged: lend it, note the walk, plan what to stage next.
GetServe ==
  /\ InLoop
  /\ ~error
  /\ ~closed
  /\ Resident(want)
  /\ MayHold(want)
  /\ LET g == GroupOf[want]
         d == NotedDirection(want)
     IN  /\ lastGet' = [lastGet EXCEPT ![g] = want]
         /\ direction' = [direction EXCEPT ![g] = d]
         /\ queue' = PlanQueue(want, d)
  /\ live' = Held(want)
  /\ reader' = IF Borrowed(want) # {} \/ queue' # <<>> THEN Awake(reader)
               ELSE reader
  /\ loan' = [layer |-> want, slot |-> slotOf[want]]
  /\ GetEnds("tensor")
  /\ UNCHANGED <<slotOf, inFlight, overdue, nextSlot, drain, error, closed,
                 region, starts, stream, closer>>

\* Not staged: end the implicit loans, demand the layer, wait half a second.
GetMiss ==
  /\ InLoop
  /\ ~error
  /\ ~closed
  /\ ~Resident(want)
  /\ MayHold(want)
  /\ live' = Held(want)
  /\ queue' = IF Demands(want) THEN <<want>> ELSE queue
  /\ reader' = IF Borrowed(want) # {} \/ Demands(want) THEN Awake(reader)
               ELSE reader
  /\ getter' = "waiting"
  /\ UNCHANGED <<slotOf, inFlight, overdue, nextSlot, drain, lastGet, direction,
                 error, closed, region, starts, want, loan, answer, stream,
                 closer>>

\* Pinned staging with a slot still on loan: get raises and changes nothing.
GetOnLoan ==
  /\ InLoop
  /\ ~error
  /\ ~closed
  /\ ~MayHold(want)
  /\ GetEnds("on_loan")
  /\ UNCHANGED <<sourceVars, region, reader, starts, loan, stream, closer>>

GetRaisesError ==
  /\ InLoop
  /\ error
  /\ GetEnds("error")
  /\ UNCHANGED <<sourceVars, region, reader, starts, loan, stream, closer>>

GetRaisesClosed ==
  /\ InLoop
  /\ ~error
  /\ closed
  /\ GetEnds("closed")
  /\ UNCHANGED <<sourceVars, region, reader, starts, loan, stream, closer>>

\* The poll finds a reader that died before it began and starts another; the
\* loop goes round and finds nothing staged, since no reader ever ran.
GetRestartsReader ==
  /\ getter = "waiting"
  /\ ReaderLost
  /\ reader.pc = "stillborn"
  /\ starts < MaxReaderStarts
  /\ starts' = starts + 1
  /\ reader' = NoRead
  /\ queue' = IF Demands(want) THEN <<want>> ELSE queue
  /\ UNCHANGED <<slotOf, inFlight, overdue, nextSlot, live, drain, lastGet,
                 direction, error, closed, region, consumerVars, stream,
                 closer>>

\* Every start died unborn; or the backstop: the reader left unexplained.
GetReaderGivenUp ==
  /\ getter = "waiting"
  /\ ReaderLost
  /\ reader.pc = "stillborn" => starts = MaxReaderStarts
  /\ GetEnds(IF reader.pc = "stillborn" THEN "not_started" ELSE "vanished")
  /\ UNCHANGED <<sourceVars, region, reader, starts, loan, stream, closer>>

GetReadWedged ==
  /\ getter = "waiting"
  /\ ~ReaderLost
  /\ overdue
  /\ GetEnds("wedged")
  /\ UNCHANGED <<sourceVars, region, reader, starts, loan, stream, closer>>

-----------------------------------------------------------------------------
(* The consumer between two gets, and the device executing its copies.     *)

\* load_async enqueues a copy out of the page-locked slot on the side stream.
EnqueueCopy ==
  /\ Pinned
  /\ getter = "idle"
  /\ loan # NoLoan
  /\ Len(stream) < MaxStream
  /\ stream' = Append(stream, loan)
  /\ UNCHANGED <<sourceVars, region, reader, starts, consumerVars, closer>>

\* Mutant of GivenBack: the loan outlives its release.
GivenBackNever(slot) == live

\* _live once slot is released.
GivenBack(slot) == [live EXCEPT ![slot] = FALSE]

\* release(idx, event): the event is recorded behind the copies enqueued so
\* far.  A layer no longer resident is ignored.
Release ==
  /\ getter = "idle"
  /\ loan # NoLoan
  /\ LET slot == slotOf[loan.layer]
     IN  IF slot = NoSlot THEN UNCHANGED <<drain, live, reader>>
         ELSE /\ drain' = [drain EXCEPT ![slot] = Len(stream)]
              /\ live' = GivenBack(slot)
              /\ reader' = Awake(reader)
  /\ loan' = NoLoan
  /\ UNCHANGED <<queue, slotOf, inFlight, overdue, nextSlot, lastGet, direction,
                 error, closed, region, starts, getter, want, answer, stream,
                 closer>>

Nearer(n) == IF n = 0 THEN 0 ELSE n - 1

\* The device finishes the oldest copy: every event is one copy nearer.
CopyExecutes ==
  /\ stream # <<>>
  /\ stream' = Tail(stream)
  /\ drain' = [s \in Slot |-> Nearer(drain[s])]
  /\ reader' = [reader EXCEPT !.drain = Nearer(@)]
  /\ UNCHANGED <<queue, slotOf, inFlight, overdue, nextSlot, live, lastGet,
                 direction, error, closed, region, starts, consumerVars,
                 closer>>

-----------------------------------------------------------------------------
(* close(), on any thread.                                                 *)

CloseBegins ==
  /\ closer = "open"
  /\ closer' = "joining"
  /\ closed' = TRUE
  /\ reader' = Awake(reader)
  /\ UNCHANGED <<queue, slotOf, inFlight, overdue, nextSlot, live, drain,
                 lastGet, direction, error, region, starts, consumerVars,
                 stream>>

\* The join returned or timed out: the reader may well be inside a read.
CloseEnds ==
  /\ closer = "joining"
  /\ closer' = "closed"
  /\ slotOf' = [l \in Layer |-> NoSlot]
  /\ live' = [s \in Slot |-> FALSE]
  /\ drain' = [s \in Slot |-> 0]
  /\ UNCHANGED <<queue, inFlight, overdue, nextSlot, lastGet, direction, error,
                 closed, region, reader, starts, consumerVars, stream>>

-----------------------------------------------------------------------------
ReaderStep ==
  \/ ReaderEnter \/ ReaderDiesUnborn \/ ReaderSleep \/ ReaderExit
  \/ ReaderSkip \/ ReaderClaim
  \/ ReaderBeginRead \/ ReaderPublish \/ ReaderFail

\* What the drive decides, in its own time or never.
DriveStep == ReaderEndRead \/ ReaderReadFails

GetStep ==
  \/ GetServe \/ GetMiss \/ GetOnLoan \/ GetRaisesError \/ GetRaisesClosed
  \/ GetRestartsReader \/ GetReaderGivenUp \/ GetReadWedged

ClientStep == (\E idx \in Layer : Ask(idx)) \/ EnqueueCopy \/ Release

Next ==
  \/ ReaderStep
  \/ DriveStep
  \/ ReadGoesOverdue
  \/ GetStep
  \/ ClientStep
  \/ CopyExecutes
  \/ CloseBegins
  \/ CloseEnds

\* The threads are scheduled and the clock runs.  Nothing is assumed of the
\* drive or of the device, and no caller is obliged to call anything.
Fairness ==
  /\ WF_vars(ReaderStep)
  /\ WF_vars(GetStep)
  /\ WF_vars(ReadGoesOverdue)

Spec == Init /\ [][Next]_vars
FairSpec == Spec /\ Fairness

-----------------------------------------------------------------------------
(* Properties.                                                             *)

\* The reader is never overwriting a region that a copy on the device still
\* reads, or that the consumer may still copy from: the corruption release()
\* was added to end (module docstring and release()).
NoOverwriteInUse ==
  reader.pc = "reading" =>
    /\ loan.slot # reader.slot
    /\ \A i \in 1 .. Len(stream) : stream[i].slot # reader.slot

\* Every copy in flight, and every reference the consumer holds, reads the
\* bytes of the layer it was asked for, through any reuse of the slots.
BytesIntact ==
  /\ loan # NoLoan => region[loan.slot] = loan.layer
  /\ \A i \in 1 .. Len(stream) : region[stream[i].slot] = stream[i].layer

\* What _slot_of calls resident is staged whole, and in a slot of its own.
ResidentIsStaged ==
  \A l \in Layer : Resident(l) =>
    /\ region[slotOf[l]] = l
    /\ \A m \in Layer : slotOf[m] = slotOf[l] => m = l

\* release() may ignore a layer that is not resident, because "it can only
\* have been evicted, which requires having been released already": until
\* close() clears the source, what the consumer holds is resident and live.
ReleaseFindsItsLayer ==
  loan # NoLoan /\ closer # "closed" =>
    slotOf[loan.layer] = loan.slot /\ live[loan.slot]

\* The reader sleeps without a timeout only while there is nothing to do: no
\* queue and no close was set behind its back without a notify.
NoLostWakeup == reader.pc = "asleep" => queue = <<>> /\ ~closed

\* The reader never has to wait for a release: get() ends or refuses the loans
\* before it, and plans no target whose group has no slot left, so the head of
\* the queue always has a slot to land in.
TargetsHaveASlot ==
  reader.pc = "top" /\ queue # <<>> /\ ~closed /\ ~Resident(Head(queue)) =>
    Takeable(GroupOf[Head(queue)]) # {}

\* The backstop of the progress check is unreachable: the reader never leaves
\* with neither an error recorded nor the source closed.
BackstopNeverFires == answer # "vanished"

\* A read that outlives close()'s bounded join does not bring a slot back to
\* a source whose buffers are gone.
NoResurrection == closer = "closed" => \A l \in Layer : ~Resident(l)

\* What the table of resident layers says is so, and nothing after close().
TableIsSound == ResidentIsStaged /\ NoResurrection

\* The reader is asleep for want of work, or gone for a reason a get can report.
ReaderIsAccountedFor == NoLostWakeup /\ BackstopNeverFires

\* At a depth of one "the plan is empty, ... no arming with a single slot": the
\* claim of _plan_queue's docstring.
DepthOneArmsNothing == ReadAhead = 1 /\ answer = "tensor" => queue = <<>>

\* Every get returns or raises, whatever the drive and the device do.
GetAnswered == getter # "idle" ~> getter = "idle"

\* close() stops the reader, except inside a read that never returns.
ReaderStops == closed ~> (ReaderDead \/ inFlight # NoLayer)

\* Neither the consumer nor whoever closes the source waits for ever.
SourceIsLive == GetAnswered /\ ReaderStops

-----------------------------------------------------------------------------
(* What is asked, lent and in transit, read off the bytes of the regions.  *)

Loans == INSTANCE LayerLoan WITH
  asked <- want,
  lent <- IF loan = NoLoan THEN NoLayer ELSE region[loan.slot],
  transit <- [i \in 1 .. Len(stream) |-> region[stream[i].slot]]

\* The source keeps the promise of LayerLoan.
KeepsItsPromise == Loans!Spec
=============================================================================
