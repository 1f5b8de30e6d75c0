---------------------------- MODULE LayerStream ----------------------------
(***************************************************************************)
(* The layer-stream runtime over the asynchronous disk source              *)
(* (src/src/souplite/utils/layer_stream_runtime.py): LayerBufferPool,      *)
(* LargeLayerBufferPool, StreamPrefetcher and the streamed layers' forward,*)
(* driven by a training loop of forward passes and backward recomputes.    *)
(*                                                                         *)
(* The consumer of AsyncDiskSource is here a program: its gets, copies and *)
(* releases are the ones load_async makes.  Two CUDA streams execute what  *)
(* the host enqueues, each in order, held back only by wait_stream and     *)
(* wait_event: the side stream copies layers into device buffers, the      *)
(* compute stream runs the kernels that read them.                         *)
(***************************************************************************)
EXTENDS AsyncDiskSource

CONSTANTS
  NDecoder,              \* decoder layers 0 .. NDecoder - 1
  Embed,                 \* source index of the embedding
  OutHead,               \* source index of the output weight, Embed when tied
  NBuffers,              \* training.stream_buffers
  RefillBeforeBackward,  \* a preference loss: a second forward before backward
  MaxCompute             \* bound: kernels enqueued and not yet executed

ASSUME StreamAssumption ==
  /\ NDecoder \in 1 .. NLayers - 1
  /\ Embed \in NDecoder .. NLayers - 1
  /\ OutHead \in NDecoder .. NLayers - 1
  /\ NBuffers \in 2 .. 8
  /\ RefillBeforeBackward \in BOOLEAN
  /\ MaxCompute \in Nat \ {0}

Decoder == 0 .. NDecoder - 1
Large == NBuffers            \* the vocabulary weights' one device slot
Buffer == 0 .. NBuffers

\* slot_for; the large slot holds either vocabulary weight.
BufferOf(l) == IF l \in Decoder THEN l % NBuffers ELSE Large

\* The modules a pass goes through: the embedding, the decoder, the output.
Stop == 0 .. NDecoder + 1
LayerAt(k) == IF k = 0 THEN Embed ELSE IF k \in 1 .. NDecoder THEN k - 1 ELSE OutHead

VARIABLES
  device,     \* the layer whose bytes are in each device buffer
  owner,      \* the layer the host loaded into it last
  event,      \* side-stream operations ahead of the buffer's event
  sideTo,     \* the buffer each copy in `stream` writes, and what it waits for
  compute,    \* kernels enqueued on the compute stream
  pass,       \* "rest", "forward" or "backward"
  stop,       \* the module of the pass the host is in
  phase,      \* where in its forward: "wait", "advance" or "kernel"
  loads,      \* loads this advance or prime still has to make
  copied,     \* the copy of the load under way is enqueued
  prev,       \* StreamPrefetcher.prev
  heading,    \* StreamPrefetcher.direction
  tailDone,   \* StreamPrefetcher.tail_prefetched
  grad,       \* the forward under way records an autograd graph
  graph,      \* a forward's autograd graph awaits its backward
  refilled,   \* the large slot was refilled since that graph saved it
  failed      \* why the run stopped: "no", "source", "scheduler" or "autograd"

poolVars == <<device, owner, event, sideTo, compute>>
walkVars == <<pass, stop, phase, prev, heading, tailDone, grad, graph>>
runVars == <<walkVars, loads, copied, refilled, failed>>
streamVars == <<vars, poolVars, runVars>>

LSTypeOK ==
  /\ TypeOK
  /\ device \in [Buffer -> Layer \cup {NoLayer}]
  /\ owner \in [Buffer -> Layer \cup {NoLayer}]
  /\ event \in [Buffer -> Nat]
  /\ sideTo \in Seq([buffer : Buffer, after : Nat])
  /\ compute \in Seq([layer : Layer, after : Nat])
  /\ pass \in {"rest", "forward", "backward"}
  /\ stop \in Stop
  /\ phase \in {"wait", "advance", "kernel"}
  /\ loads \in Seq(Layer)
  /\ copied \in BOOLEAN
  /\ prev \in Decoder \cup {NoLayer}
  /\ heading \in {-1, 1}
  /\ tailDone \in BOOLEAN
  /\ grad \in BOOLEAN
  /\ graph \in BOOLEAN
  /\ refilled \in BOOLEAN
  /\ failed \in {"no", "source", "scheduler", "autograd"}

LSInit ==
  /\ Init
  /\ device = [b \in Buffer |-> NoLayer]
  /\ owner = [b \in Buffer |-> NoLayer]
  /\ event = [b \in Buffer |-> 0]
  /\ sideTo = <<>>
  /\ compute = <<>>
  /\ pass = "rest"
  /\ stop = 0
  /\ phase = "wait"
  /\ loads = <<>>
  /\ copied = FALSE
  /\ prev = NoLayer
  /\ heading = 1
  /\ tailDone = FALSE
  /\ grad = FALSE
  /\ graph = FALSE
  /\ refilled = FALSE
  /\ failed = "no"

-----------------------------------------------------------------------------
(* load_async, one load at a time: get, copy, record, release.             *)

\* The large pool's early return: the slot already holds the weight.
LargeLoad(l) == IF owner[Large] = l THEN <<>> ELSE <<l>>

LoadAsks ==
  /\ failed = "no"
  /\ loads # <<>>
  /\ loan = NoLoan
  /\ answer \notin Refusals
  /\ Ask(Head(loads))
  /\ UNCHANGED <<poolVars, runVars>>

\* The get raised, and with it the forward or backward it was part of.
LoadFails ==
  /\ failed = "no"
  /\ answer \in Refusals
  /\ failed' = "source"
  /\ UNCHANGED <<vars, poolVars, walkVars, loads, copied, refilled>>

\* Mutant of KernelsAhead: the side stream does not wait for the compute stream.
KernelsForgotten == 0

\* stream.wait_stream(current_stream()): the kernels a copy has to wait for.
KernelsAhead == Len(compute)

\* The copy is enqueued behind the kernels, the buffer's event behind the copy.
LoadCopies ==
  /\ loan # NoLoan
  /\ ~copied
  /\ EnqueueCopy
  /\ sideTo' = Append(sideTo, [buffer |-> BufferOf(loan.layer), after |-> KernelsAhead])
  /\ event' = [event EXCEPT ![BufferOf(loan.layer)] = Len(stream')]
  /\ copied' = TRUE
  /\ refilled' = (refilled \/ BufferOf(loan.layer) = Large)
  /\ UNCHANGED <<device, owner, compute, walkVars, loads, failed>>

\* _release_source with the event, and the buffer changes owner.
LoadReleases ==
  /\ loads # <<>>
  /\ loan # NoLoan
  /\ copied
  /\ Release
  /\ owner' = [owner EXCEPT ![BufferOf(loan.layer)] = loan.layer]
  /\ loads' = Tail(loads)
  /\ copied' = FALSE
  /\ UNCHANGED <<device, event, sideTo, compute, walkVars, refilled, failed>>

-----------------------------------------------------------------------------
(* The host: _prime, the streamed layers' forward, and the training loop.  *)

HostFree == failed = "no" /\ loads = <<>> /\ getter = "idle"

\* _prime: the embedding's load, if the slot holds another weight, then layer
\* 0's, whatever its buffer holds.  A forward drops the graph before it, except
\* the reference forward of a preference loss.
BeginForward ==
  /\ HostFree
  /\ pass = "rest"
  /\ pass' = "forward"
  /\ stop' = 0
  /\ phase' = "wait"
  /\ prev' = NoLayer
  /\ heading' = 1
  /\ tailDone' = FALSE
  /\ loads' = LargeLoad(Embed) \o <<0>>
  /\ grad' \in BOOLEAN
  /\ graph' = (graph /\ RefillBeforeBackward /\ ~grad')
  /\ UNCHANGED <<vars, poolVars, copied, refilled, failed>>

\* pool.wait: the ownership tripwire of both pools.
LayerWaits ==
  /\ HostFree
  /\ pass # "rest"
  /\ phase = "wait"
  /\ IF owner[BufferOf(LayerAt(stop))] = LayerAt(stop)
       THEN /\ phase' = IF LayerAt(stop) \in Decoder THEN "advance" ELSE "kernel"
            /\ UNCHANGED failed
       ELSE failed' = "scheduler" /\ UNCHANGED phase
  /\ UNCHANGED <<vars, poolVars, pass, stop, prev, heading, tailDone, grad, graph,
                 loads, copied, refilled>>

\* The direction flips at the turnaround and stays flipped until the next prime.
Heading(idx) == IF prev # NoLayer /\ idx < prev THEN -1 ELSE heading

\* StreamPrefetcher.advance: the next layer, unless its buffer has it, and once
\* per forward, at the last layer, the output weight.
Advances ==
  /\ HostFree
  /\ phase = "advance"
  /\ LET idx == LayerAt(stop)
         nxt == idx + Heading(idx)
         ahead == IF nxt \in Decoder /\ owner[BufferOf(nxt)] # nxt THEN <<nxt>> ELSE <<>>
         tail == Heading(idx) = 1 /\ idx = NDecoder - 1 /\ ~tailDone
     IN  /\ heading' = Heading(idx)
         /\ prev' = idx
         /\ tailDone' = (tailDone \/ tail)
         /\ loads' = ahead \o (IF tail THEN LargeLoad(OutHead) ELSE <<>>)
  /\ phase' = "kernel"
  /\ UNCHANGED <<vars, poolVars, pass, stop, grad, graph, copied, refilled, failed>>

\* Mutant of NeedsPrivateWeight: autograd always keeps a view of the slot.
NeverPrivateWeight == FALSE

\* _needs_a_private_weight, of the output projection.
NeedsPrivateWeight == RefillBeforeBackward /\ Embed # OutHead

\* The kernels of a module, behind the wait on its buffer's event.  (No load of
\* advance reaches that buffer: NBuffers >= 2.)
Kernel(l) == [layer |-> l, after |-> event[BufferOf(l)]]

\* functional_call enqueues the module's kernels, and the pass moves on.
LayerComputes ==
  /\ HostFree
  /\ phase = "kernel"
  /\ Len(compute) < MaxCompute
  /\ compute' = Append(compute, Kernel(LayerAt(stop)))
  /\ phase' = "wait"
  /\ IF pass = "forward"
       THEN /\ stop' = IF stop = NDecoder + 1 THEN 0 ELSE stop + 1
            /\ pass' = IF stop = NDecoder + 1 THEN "rest" ELSE pass
            /\ graph' = (graph \/ (grad /\ stop = NDecoder + 1))
            /\ refilled' = (refilled /\ ~(grad /\ stop = NDecoder + 1))
       ELSE /\ stop' = stop - 1
            /\ pass' = IF stop = 1 THEN "rest" ELSE pass
            /\ UNCHANGED <<graph, refilled>>
  /\ UNCHANGED <<vars, device, owner, event, sideTo, prev, heading, tailDone, grad,
                 loads, copied, failed>>

\* The backward of the output projection reads the weight autograd saved: its
\* own copy, or the slot, which must not have been refilled.
BeginBackward ==
  /\ HostFree
  /\ pass = "rest"
  /\ graph
  /\ Len(compute) < MaxCompute
  /\ graph' = FALSE
  /\ IF NeedsPrivateWeight \/ ~refilled
       THEN /\ pass' = "backward"
            /\ stop' = NDecoder
            /\ UNCHANGED failed
       ELSE failed' = "autograd" /\ UNCHANGED <<pass, stop>>
  /\ compute' = IF NeedsPrivateWeight THEN compute
                ELSE Append(compute, [layer |-> OutHead, after |-> 0])
  /\ UNCHANGED <<vars, device, owner, event, sideTo, phase, prev, heading, tailDone,
                 grad, loads, copied, refilled>>

-----------------------------------------------------------------------------
(* The device.                                                             *)

\* The side stream's oldest copy, once the kernels it waits for are done.
SideExecutes ==
  /\ sideTo # <<>>
  /\ Head(sideTo).after = 0
  /\ CopyExecutes
  /\ device' = [device EXCEPT ![Head(sideTo).buffer] = region[Head(stream).slot]]
  /\ sideTo' = Tail(sideTo)
  /\ event' = [b \in Buffer |-> Nearer(event[b])]
  /\ compute' = [i \in DOMAIN compute |-> [compute[i] EXCEPT !.after = Nearer(@)]]
  /\ UNCHANGED <<owner, runVars>>

\* The compute stream's oldest kernel, once the copy it waits for is done.
KernelExecutes ==
  /\ compute # <<>>
  /\ Head(compute).after = 0
  /\ compute' = Tail(compute)
  /\ sideTo' = [i \in DOMAIN sideTo |-> [sideTo[i] EXCEPT !.after = Nearer(@)]]
  /\ UNCHANGED <<vars, device, owner, event, runVars>>

-----------------------------------------------------------------------------
\* StreamRuntime.close, between passes or after a failure.
RuntimeCloses ==
  /\ failed # "no" \/ (HostFree /\ pass = "rest")
  /\ getter = "idle"
  /\ CloseBegins \/ CloseEnds
  /\ UNCHANGED <<poolVars, runVars>>

SourceStep ==
  /\ ReaderStep \/ DriveStep \/ ReadGoesOverdue \/ GetStep
  /\ UNCHANGED <<poolVars, runVars>>

HostStep ==
  \/ LoadAsks \/ LoadFails \/ LoadCopies \/ LoadReleases
  \/ LayerWaits \/ Advances \/ LayerComputes

PassStep == BeginForward \/ BeginBackward

LSNext ==
  \/ SourceStep \/ HostStep \/ PassStep
  \/ SideExecutes \/ KernelExecutes \/ RuntimeCloses

\* The threads are scheduled, the clock runs, the drive and the device work.
LSFairness ==
  /\ WF_streamVars(ReaderStep /\ UNCHANGED <<poolVars, runVars>>)
  /\ WF_streamVars(DriveStep /\ UNCHANGED <<poolVars, runVars>>)
  /\ WF_streamVars(GetStep /\ UNCHANGED <<poolVars, runVars>>)
  /\ WF_streamVars(HostStep)
  /\ WF_streamVars(SideExecutes)
  /\ WF_streamVars(KernelExecutes)

LSSpec == LSInit /\ [][LSNext]_streamVars
LSFairSpec == LSSpec /\ LSFairness

-----------------------------------------------------------------------------
(* Properties.                                                             *)

\* A kernel that may run finds in its buffer the bytes of the layer it was
\* enqueued for, whatever copies and reads overlap it.
KernelsReadTheirLayer ==
  compute # <<>> /\ Head(compute).after = 0 =>
    device[BufferOf(Head(compute).layer)] = Head(compute).layer

\* The schedule never trips wait()'s ownership check, nor hands autograd a
\* weight that was refilled under it.
ScheduleIsSound == failed \notin {"scheduler", "autograd"}

\* Through the real pools no get finds another layer on loan: every load gives
\* its layer back before the next.
NeverOnLoan == answer # "on_loan"

ReadingAhead ==
  inFlight # want /\ ~closed /\ answer \notin Refusals

\* A read-ahead (as against a get's demand) evicts only a layer its group's walk
\* is done with: no layer still ahead in the window is thrown away for another
\* (_claim_slot's fallback), across turnarounds and passes.  So it is when the
\* decoder layers have one shape; where theirs differ, a layer of one shape may
\* be planned from another, outside its own walk's window, and take that place.
ReadAheadEvictsNothingWanted ==
  [][\A l \in Layer :
       Resident(l) /\ slotOf'[l] = NoSlot /\ ReadingAhead' => ~StillWanted(l)]_vars

\* Every pass ends, unless the source failed it.
PassEnds == pass # "rest" ~> (pass = "rest" \/ failed # "no")
=============================================================================
