---------------------------- MODULE StreamProofs ----------------------------
(***************************************************************************)
(* The layer-stream runtime is a client of the source: what is proved of   *)
(* AsyncDiskSource holds inside it; and its loads give every layer back    *)
(* before they ask for the next, so pinned staging never refuses one.      *)
(*                                                                         *)
(* Then the runtime itself, for any number of layers and device buffers:   *)
(* its states are well typed, no wait of the host finds another layer's    *)
(* bytes, no backward a refilled weight, and every kernel of the device    *)
(* reads the layer it was enqueued for; and what the source reads ahead    *)
(* for it never takes the place of a layer still wanted, provided that the *)
(* decoder layers have one shape.                                          *)
(***************************************************************************)
EXTENDS LayerStream, SourceProofs, SequenceTheorems

LoadsAreLayers == loads \in Seq(Layer)

LEMMA DecoderLayersAreLayers ==
  /\ Decoder \subseteq Layer
  /\ 0 \in Layer /\ Embed \in Layer /\ OutHead \in Layer
BY SourceAssumption, StreamAssumption DEF Decoder, Layer

\* Every load is the load of a layer of the source.
LEMMA LoadsKept == LoadsAreLayers /\ [LSNext]_streamVars => LoadsAreLayers'
<1> SUFFICES ASSUME LoadsAreLayers, [LSNext]_streamVars PROVE LoadsAreLayers'
  OBVIOUS
<1> USE DEF LoadsAreLayers
<1>1. CASE UNCHANGED loads
  BY <1>1
<1>2. CASE LoadReleases
  BY <1>2 DEF LoadReleases, Release
<1>3. CASE BeginForward
  <2>1. LargeLoad(Embed) \in Seq(Layer) /\ <<0>> \in Seq(Layer)
    BY DecoderLayersAreLayers DEF LargeLoad
  <2> QED BY <1>3, <2>1 DEF BeginForward
<1>4. CASE Advances
  <2> DEFINE idx == LayerAt(stop)
             nxt == idx + Heading(idx)
             ahead == IF nxt \in Decoder /\ owner[BufferOf(nxt)] # nxt THEN <<nxt>> ELSE <<>>
             tail == Heading(idx) = 1 /\ idx = NDecoder - 1 /\ ~tailDone
             last == IF tail THEN LargeLoad(OutHead) ELSE <<>>
  <2>1. ahead \in Seq(Layer)
    <3> HIDE DEF nxt
    <3> QED BY DecoderLayersAreLayers
  <2>2. last \in Seq(Layer)
    BY DecoderLayersAreLayers DEF LargeLoad
  <2>3. loads' = ahead \o last
    BY <1>4 DEF Advances
  <2> HIDE DEF ahead, last
  <2> QED BY <2>1, <2>2, <2>3
<1>5. CASE SourceStep \/ LoadAsks \/ LoadFails \/ LoadCopies \/ LayerWaits \/ LayerComputes
           \/ BeginBackward \/ SideExecutes \/ KernelExecutes \/ RuntimeCloses
  BY <1>5 DEF SourceStep, LoadAsks, LoadFails, LoadCopies, LayerWaits, LayerComputes,
       BeginBackward, SideExecutes, KernelExecutes, RuntimeCloses, runVars
<1> QED BY <1>1, <1>2, <1>3, <1>4, <1>5
        DEF LSNext, HostStep, PassStep, streamVars, runVars

LEMMA LoadsAlways == LSSpec => []LoadsAreLayers
<1>1. LSInit => LoadsAreLayers
  BY DEF LSInit, LoadsAreLayers
<1> QED BY <1>1, LoadsKept, PTL DEF LSSpec

LEMMA StreamStepIsSourceStep ==
  LoadsAreLayers /\ [LSNext]_streamVars => [Next]_vars
<1> SUFFICES ASSUME LoadsAreLayers, [LSNext]_streamVars PROVE [Next]_vars
  OBVIOUS
<1>1. CASE SourceStep
  BY <1>1 DEF SourceStep, Next
<1>2. CASE LoadAsks
  <2>1. Head(loads) \in Layer /\ Ask(Head(loads))
    BY <1>2 DEF LoadAsks, LoadsAreLayers
  <2> QED BY <2>1 DEF Next, ClientStep
<1>3. CASE LoadCopies
  BY <1>3 DEF LoadCopies, Next, ClientStep
<1>4. CASE LoadReleases
  BY <1>4 DEF LoadReleases, Next, ClientStep
<1>5. CASE SideExecutes
  BY <1>5 DEF SideExecutes, Next
<1>6. CASE RuntimeCloses
  BY <1>6 DEF RuntimeCloses, Next
<1>7. CASE LoadFails \/ LayerWaits \/ Advances \/ LayerComputes \/ PassStep \/ KernelExecutes
  BY <1>7 DEF LoadFails, LayerWaits, Advances, LayerComputes, PassStep, BeginForward,
       BeginBackward, KernelExecutes
<1>8. CASE UNCHANGED streamVars
  BY <1>8 DEF streamVars
<1> QED BY <1>1, <1>2, <1>3, <1>4, <1>5, <1>6, <1>7, <1>8 DEF LSNext, HostStep

\* The runtime drives the source only in ways AsyncDiskSource allows: every step
\* of the composition is a step of the source, or leaves it alone.
THEOREM RuntimeIsASourceClient == LSSpec => Spec
<1>1. LSInit => Init
  BY DEF LSInit
<1> QED BY <1>1, LoadsAlways, StreamStepIsSourceStep, PTL DEF LSSpec, Spec

\* Every copy the runtime enqueues reads the bytes of the layer it loads.
THEOREM RuntimeCopiesIntactBytes == LSSpec => [](BytesIntact /\ NoOverwriteInUse)
BY RuntimeIsASourceClient, BytesStayIntact, NeverOverwrittenInUse, PTL

-----------------------------------------------------------------------------
\* A slot is live only as the loan of the load under way, and no load asks
\* before the loan of the one before it has ended.
OneLoadAtATime ==
  /\ \A s \in Slot : live[s] => loan # NoLoan /\ loan.slot = s
  /\ closer = "closed" => \A s \in Slot : ~live[s]
  /\ getter # "idle" => loan = NoLoan
  /\ NeverOnLoan

LEMMA OneLoadKept ==
  SafetyInv /\ OneLoadAtATime /\ [LSNext]_streamVars => OneLoadAtATime'
<1> SUFFICES ASSUME SafetyInv, OneLoadAtATime, [LSNext]_streamVars PROVE OneLoadAtATime'
  OBVIOUS
<1> USE DEF OneLoadAtATime, NeverOnLoan
<1>1. CASE UNCHANGED <<live, closer, loan, getter, answer>>
  BY <1>1
<1>2. CASE LoadAsks
  BY <1>2 DEF LoadAsks, Ask, sourceVars
<1>3. CASE LoadReleases
  <2>1. loan # NoLoan /\ loan' = NoLoan /\ UNCHANGED <<getter, answer, closer>> /\ getter = "idle"
    BY <1>3 DEF LoadReleases, Release
  <2>2. \A s \in Slot : ~live'[s]
    <3>1. CASE closer = "closed"
      <4>1. slotOf[loan.layer] = NoSlot
        BY <2>1, <3>1 DEF SafetyInv, StagingInv, NoResurrection, Resident, TypeInv, TypeOK, Loan
      <4>2. live' = live
        BY <1>3, <4>1 DEF LoadReleases, Release
      <4> QED BY <3>1, <4>2
    <3>2. CASE closer # "closed"
      <4>1. slotOf[loan.layer] = loan.slot /\ loan.slot # NoSlot /\ loan.slot \in Slot
        BY <2>1, <3>2, NoSlotIsNoSlot
           DEF SafetyInv, StagingInv, ReleaseFindsItsLayer, TypeInv, TypeOK, Loan
      <4>2. live' = [live EXCEPT ![loan.slot] = FALSE]
        BY <1>3, <4>1 DEF LoadReleases, Release, GivenBack
      <4> QED BY <2>1, <4>1, <4>2 DEF SafetyInv, TypeInv, TypeOK
    <3> QED BY <3>1, <3>2
  <2> QED BY <2>1, <2>2
<1>4. CASE RuntimeCloses
  <2>1. /\ UNCHANGED <<loan, getter, answer>>
        /\ \/ closer' # "closed" /\ live' = live
           \/ \A s \in Slot : ~live'[s]
    BY <1>4 DEF RuntimeCloses, CloseBegins, CloseEnds, consumerVars
  <2> QED BY <2>1
<1>5. CASE GetServe
  <2>1. /\ loan' = [layer |-> want, slot |-> slotOf[want]]
        /\ live' = Held(want)
        /\ getter' = "idle" /\ answer' = "tensor" /\ closer' = closer /\ ~closed
        /\ slotOf[want] # NoSlot
    BY <1>5 DEF GetServe, GetEnds, Resident
  <2>2. closer' # "closed"
    BY <2>1 DEF SafetyInv, StagingInv, ClosingInStep
  <2>3. loan' # NoLoan /\ loan'.slot = slotOf[want]
    BY <2>1 DEF NoLoan
  <2> QED BY <2>1, <2>2, <2>3 DEF Held
<1>6. CASE GetMiss
  <2>1. /\ live' = Held(want) /\ slotOf[want] = NoSlot
        /\ UNCHANGED <<loan, answer, closer>>
        /\ getter # "idle"
    BY <1>6 DEF GetMiss, Resident, InLoop
  <2>2. \A s \in Slot : ~live'[s]
    BY <2>1, NoSlotIsNoSlot DEF Held
  <2> QED BY <2>1, <2>2
<1>7. CASE GetOnLoan
  <2>1. Borrowed(want) # {} /\ getter # "idle"
    BY <1>7 DEF GetOnLoan, MayHold, InLoop
  <2> QED BY <2>1 DEF Borrowed
<1>8. CASE GetRaisesError \/ GetRaisesClosed \/ GetRestartsReader \/ GetReaderGivenUp
           \/ GetReadWedged
  <2>1. /\ UNCHANGED <<live, loan, closer>>
        /\ getter' # "idle" => getter # "idle"
        /\ answer' # "on_loan"
    BY <1>8 DEF GetRaisesError, GetRaisesClosed, GetRestartsReader, GetReaderGivenUp,
         GetReadWedged, GetEnds, sourceVars, consumerVars
  <2> QED BY <2>1
<1>9. CASE ReaderStep \/ DriveStep \/ ReadGoesOverdue
  <2>1. UNCHANGED <<live, closer, loan, getter, answer>>
    BY <1>9 DEF ReaderStep, DriveStep, ReaderEnter, ReaderDiesUnborn, ReaderSleep, ReaderExit,
         ReaderSkip, ReaderClaim, ReaderBeginRead,
         ReaderEndRead, ReaderReadFails, ReaderPublish, ReaderFail, ReadGoesOverdue,
         sourceVars, consumerVars
  <2> QED BY <2>1
<1>10. CASE LoadFails \/ LoadCopies \/ LayerWaits \/ Advances \/ LayerComputes \/ PassStep
            \/ SideExecutes \/ KernelExecutes
  <2>1. UNCHANGED <<live, closer, loan, getter, answer>>
    BY <1>10 DEF LoadFails, LoadCopies, EnqueueCopy, LayerWaits, Advances, LayerComputes,
         PassStep, BeginForward, BeginBackward, SideExecutes, CopyExecutes, KernelExecutes,
         vars, sourceVars, consumerVars
  <2> QED BY <2>1
<1>11. CASE UNCHANGED streamVars
  BY <1>11 DEF streamVars, vars
<1> QED BY <1>2, <1>3, <1>4, <1>5, <1>6, <1>7, <1>8, <1>9, <1>10, <1>11
        DEF LSNext, HostStep, SourceStep, GetStep

\* Pinned staging refuses a get that finds another layer on loan; the buffer
\* pools never make one, whatever fails or closes around them.
THEOREM PoolsNeverFindALoan == LSSpec => []NeverOnLoan
<1>1. LSInit => OneLoadAtATime
  BY DEF LSInit, Init, OneLoadAtATime, NeverOnLoan
<1>2. OneLoadAtATime => NeverOnLoan
  BY DEF OneLoadAtATime
<1> QED BY <1>1, <1>2, OneLoadKept, RuntimeIsASourceClient, AlwaysSafe, PTL DEF LSSpec

-----------------------------------------------------------------------------
(* Types.                                                                  *)

\* Every layer has a buffer: a decoder layer one of the pool's, the weights the large.
LEMMA BufferIsBuffer ==
  ASSUME NEW l \in Layer
  PROVE  /\ BufferOf(l) \in Buffer
         /\ l \in Decoder => BufferOf(l) # Large
         /\ l \notin Decoder => BufferOf(l) = Large
<1>1. NBuffers \in Nat \ {0} /\ Decoder \subseteq Nat
  BY StreamAssumption DEF Decoder
<1>2. \A n \in Nat : n % NBuffers \in 0 .. NBuffers - 1
  BY <1>1
<1>3. CASE l \in Decoder
  <2>1. BufferOf(l) = l % NBuffers /\ l \in Nat
    BY <1>1, <1>3 DEF BufferOf
  <2> QED BY <1>1, <1>2, <1>3, <2>1 DEF Buffer, Large
<1>4. CASE l \notin Decoder
  BY <1>1, <1>4 DEF BufferOf, Large, Buffer
<1> QED BY <1>3, <1>4

\* Two decoder layers next to each other have buffers of their own.
LEMMA NeighboursApart ==
  ASSUME NEW l \in Decoder, NEW m \in Decoder, m = l + 1
  PROVE  BufferOf(l) # BufferOf(m)
<1>1. NBuffers \in Nat /\ NBuffers >= 2 /\ l \in Nat
  BY StreamAssumption DEF Decoder
<1>2. l % NBuffers # (l + 1) % NBuffers
  BY <1>1, NeighboursDiffer
<1> QED BY <1>2 DEF BufferOf

\* Where a pass can be.
WalkTyped ==
  /\ pass = "rest" => stop = 0 /\ phase = "wait"
  /\ pass = "backward" => stop \in 1 .. NDecoder
  /\ phase = "advance" => stop \in 1 .. NDecoder

\* The layer of each module a pass goes through.
LEMMA StopsAreLayers ==
  ASSUME NEW k \in Stop
  PROVE  /\ LayerAt(k) \in Layer
         /\ k = 0 => LayerAt(k) = Embed
         /\ k \in 1 .. NDecoder => LayerAt(k) = k - 1 /\ LayerAt(k) \in Decoder
         /\ k = NDecoder + 1 => LayerAt(k) = OutHead
         /\ LayerAt(k) \in Decoder <=> k \in 1 .. NDecoder
BY SourceAssumption, StreamAssumption DEF Stop, LayerAt, Decoder, Layer

\* The buffers, the events and the two queues are well typed.
PoolTyped ==
  /\ device \in [Buffer -> Layer \cup {NoLayer}]
  /\ owner \in [Buffer -> Layer \cup {NoLayer}]
  /\ event \in [Buffer -> Nat]
  /\ sideTo \in Seq([buffer : Buffer, after : Nat])
  /\ compute \in Seq([layer : Layer, after : Nat])

\* The host and its walk are.
HostTyped ==
  /\ pass \in {"rest", "forward", "backward"}
  /\ stop \in Stop
  /\ phase \in {"wait", "advance", "kernel"}
  /\ copied \in BOOLEAN
  /\ prev \in Decoder \cup {NoLayer}
  /\ heading \in {-1, 1}
  /\ tailDone \in BOOLEAN
  /\ grad \in BOOLEAN
  /\ graph \in BOOLEAN
  /\ refilled \in BOOLEAN
  /\ failed \in {"no", "source", "scheduler", "autograd"}
  /\ WalkTyped

LEMMA InitStream == LSInit => PoolTyped /\ HostTyped
<1> SUFFICES ASSUME LSInit PROVE PoolTyped /\ HostTyped
  OBVIOUS
<1>1. 0 \in Stop
  BY StreamAssumption DEF Stop
<1>2. HostTyped
  BY <1>1 DEF LSInit, HostTyped, WalkTyped
<1>3. PoolTyped
  BY DEF LSInit, PoolTyped
<1> QED BY <1>2, <1>3

LEMMA CountsDown == \A n \in Nat : Nearer(n) \in Nat
BY DEF Nearer

LEMMA SequenceElements ==
  ASSUME NEW R, NEW s \in Seq(R)
  PROVE  /\ Len(s) \in Nat /\ DOMAIN s = 1 .. Len(s)
         /\ \A i \in 1 .. Len(s) : s[i] \in R
         /\ \A r \in R : Append(s, r) \in Seq(R)
OBVIOUS

LEMMA FunctionsAreSequences ==
  ASSUME NEW R, NEW n \in Nat, NEW f \in [1 .. n -> R]
  PROVE  f \in Seq(R) /\ Len(f) = n
OBVIOUS

\* Every wait in a queue of one stream is one operation nearer.
LEMMA WaitsShorten ==
  /\ \A r \in [layer : Layer, after : Nat] :
       [r EXCEPT !.after = Nearer(@)] \in [layer : Layer, after : Nat]
  /\ \A r \in [buffer : Buffer, after : Nat] :
       [r EXCEPT !.after = Nearer(@)] \in [buffer : Buffer, after : Nat]
BY CountsDown

LEMMA HostTypesKept ==
  ASSUME HostTyped, [LSNext]_streamVars
  PROVE  HostTyped'
<1> USE DEF HostTyped
<1>1. CASE UNCHANGED runVars
  BY <1>1 DEF runVars, walkVars, WalkTyped
<1>2. CASE LoadFails \/ LoadCopies \/ LoadReleases
  <2>1. UNCHANGED walkVars /\ copied' \in BOOLEAN /\ refilled' \in BOOLEAN
          /\ failed' \in {failed, "source"}
    BY <1>2 DEF LoadFails, LoadCopies, LoadReleases
  <2> QED BY <2>1 DEF walkVars, WalkTyped
<1>3. CASE BeginForward
  <2>1. 0 \in Stop
    BY StreamAssumption DEF Stop
  <2> QED BY <1>3, <2>1 DEF BeginForward, WalkTyped
<1>4. CASE LayerWaits
  <2>1. LayerAt(stop) \in Decoder <=> stop \in 1 .. NDecoder
    BY StopsAreLayers
  <2>2. /\ phase' \in {phase, "kernel"} \/ (phase' = "advance" /\ LayerAt(stop) \in Decoder)
        /\ failed' \in {failed, "scheduler"}
        /\ UNCHANGED <<pass, stop, prev, heading, tailDone, grad, graph, copied, refilled>>
        /\ pass # "rest"
    BY <1>4 DEF LayerWaits
  <2> QED BY <2>1, <2>2 DEF WalkTyped
<1>5. CASE Advances
  <2>1. stop \in 1 .. NDecoder
    BY <1>5 DEF Advances, WalkTyped
  <2>2. LayerAt(stop) \in Decoder
    BY <2>1, StopsAreLayers
  <2>3. /\ heading' \in {-1, 1} /\ tailDone' \in BOOLEAN /\ prev' = LayerAt(stop)
        /\ phase' = "kernel" /\ phase = "advance"
        /\ UNCHANGED <<pass, stop, grad, graph, copied, refilled, failed>>
    BY <1>5 DEF Advances, Heading
  <2> QED BY <2>2, <2>3 DEF WalkTyped
<1>6. CASE LayerComputes
  <2>1. /\ phase' = "wait" /\ UNCHANGED <<prev, heading, tailDone, grad, copied, failed>>
        /\ graph' \in BOOLEAN /\ refilled' \in BOOLEAN
        /\ pass # "rest"
    BY <1>6 DEF LayerComputes, WalkTyped
  <2>2. CASE pass = "forward"
    <3>1. stop' = (IF stop = NDecoder + 1 THEN 0 ELSE stop + 1)
            /\ pass' = (IF stop = NDecoder + 1 THEN "rest" ELSE pass)
      BY <1>6, <2>2 DEF LayerComputes
    <3>2. stop' \in Stop /\ (pass' = "rest" => stop' = 0)
      BY <2>2, <3>1, StreamAssumption DEF Stop
    <3> QED BY <2>1, <2>2, <3>1, <3>2 DEF WalkTyped
  <2>3. CASE pass = "backward"
    <3>1. stop' = stop - 1 /\ pass' = (IF stop = 1 THEN "rest" ELSE pass) /\ stop \in 1 .. NDecoder
      BY <1>6, <2>3 DEF LayerComputes, WalkTyped
    <3>2. stop' \in Stop /\ (pass' = "rest" => stop' = 0)
                         /\ (pass' # "rest" => stop' \in 1 .. NDecoder)
      BY <2>3, <3>1, StreamAssumption DEF Stop
    <3> QED BY <2>1, <2>3, <3>1, <3>2 DEF WalkTyped
  <2> QED BY <2>1, <2>2, <2>3
<1>7. CASE BeginBackward
  <2>1. /\ graph' = FALSE
        /\ UNCHANGED <<phase, prev, heading, tailDone, grad, copied, refilled>>
        /\ pass = "rest"
        /\ \/ pass' = "backward" /\ stop' = NDecoder /\ failed' = failed
           \/ UNCHANGED <<pass, stop>> /\ failed' = "autograd"
    BY <1>7 DEF BeginBackward
  <2>2. NDecoder \in Stop /\ NDecoder \in 1 .. NDecoder
    BY SourceAssumption, StreamAssumption DEF Stop
  <2> QED BY <2>1, <2>2 DEF WalkTyped
<1> QED BY <1>1, <1>2, <1>3, <1>4, <1>5, <1>6, <1>7
        DEF LSNext, SourceStep, HostStep, PassStep, LoadAsks, SideExecutes, KernelExecutes,
            RuntimeCloses, streamVars

LEMMA PoolTypesKept ==
  ASSUME SafetyInv, TypeInv', PoolTyped, HostTyped, [LSNext]_streamVars
  PROVE  PoolTyped'
<1> USE DEF PoolTyped, SafetyInv
<1>1. CASE UNCHANGED poolVars
  BY <1>1 DEF poolVars
<1>2. CASE LoadCopies
  <2>1. loan.layer \in Layer
    BY <1>2 DEF LoadCopies, TypeInv, TypeOK, Loan
  <2>2. PICK b \in Buffer : b = BufferOf(loan.layer)
    BY <2>1, BufferIsBuffer
  <2>3. Len(compute) \in Nat /\ Len(stream') \in Nat
    BY DEF TypeInv, TypeOK
  <2>4. /\ sideTo' = Append(sideTo, [buffer |-> b, after |-> Len(compute)])
        /\ event' = [event EXCEPT ![b] = Len(stream')]
        /\ UNCHANGED <<device, owner, compute>>
    BY <1>2, <2>2 DEF LoadCopies, KernelsAhead
  <2> QED BY <2>3, <2>4
<1>3. CASE LoadReleases
  <2>1. loan.layer \in Layer
    BY <1>3 DEF LoadReleases, TypeInv, TypeOK, Loan
  <2>2. PICK b \in Buffer, l \in Layer : b = BufferOf(loan.layer) /\ l = loan.layer
    BY <2>1, BufferIsBuffer
  <2>3. owner' = [owner EXCEPT ![b] = l] /\ UNCHANGED <<device, event, sideTo, compute>>
    BY <1>3, <2>2 DEF LoadReleases
  <2> QED BY <2>3
<1>4. CASE LayerComputes
  <2>1. LayerAt(stop) \in Layer
    BY StopsAreLayers DEF HostTyped
  <2>2. Kernel(LayerAt(stop)) \in [layer : Layer, after : Nat]
    BY <2>1, BufferIsBuffer DEF Kernel
  <2> QED BY <1>4, <2>2 DEF LayerComputes
<1>5. CASE BeginBackward
  <2>1. [layer |-> OutHead, after |-> 0] \in [layer : Layer, after : Nat]
    BY DecoderLayersAreLayers
  <2>2. PICK r \in [layer : Layer, after : Nat] : r = [layer |-> OutHead, after |-> 0]
    BY <2>1
  <2>3. compute' \in {compute, Append(compute, r)} /\ UNCHANGED <<device, owner, event, sideTo>>
    BY <1>5, <2>2 DEF BeginBackward
  <2>4. Append(compute, r) \in Seq([layer : Layer, after : Nat])
    BY SequenceElements, Zenon DEF PoolTyped
  <2> QED BY <2>3, <2>4
<1>6. CASE SideExecutes
  <2>1. stream # <<>> /\ sideTo # <<>>
    BY <1>6 DEF SideExecutes, CopyExecutes
  <2>2. region[Head(stream).slot] \in Layer \cup {NoLayer}
    <3>1. 1 \in 1 .. Len(stream) /\ Head(stream) = stream[1]
      BY <2>1 DEF TypeInv, TypeOK
    <3>2. region[stream[1].slot] = stream[1].layer
      BY <3>1 DEF StagingInv, CopiesAreGuarded, CopyIsGuarded
    <3> QED BY <3>1, <3>2, CopiesAreLoans DEF TypeInv
  <2>3. device' \in [Buffer -> Layer \cup {NoLayer}]
    BY <1>6, <2>2 DEF SideExecutes
  <2>4. event' \in [Buffer -> Nat]
    BY <1>6, CountsDown DEF SideExecutes
  <2>5. compute' \in Seq([layer : Layer, after : Nat])
    <3>0. compute \in Seq([layer : Layer, after : Nat])
      OBVIOUS
    <3>1. PICK n \in Nat : n = Len(compute) /\ DOMAIN compute = 1 .. n
      BY <3>0, SequenceElements
    <3>2. \A i \in 1 .. n : compute[i] \in [layer : Layer, after : Nat]
      BY <3>0, <3>1, SequenceElements, Zenon
    <3>3. compute' = [i \in 1 .. n |-> [compute[i] EXCEPT !.after = Nearer(@)]]
      BY <1>6, <3>1 DEF SideExecutes
    <3>4. compute' \in [1 .. n -> [layer : Layer, after : Nat]]
      BY <3>2, <3>3, WaitsShorten
    <3> QED BY <3>1, <3>4, FunctionsAreSequences
  <2> QED BY <1>6, <2>1, <2>3, <2>4, <2>5 DEF SideExecutes
<1>7. CASE KernelExecutes
  <2>1. sideTo' \in Seq([buffer : Buffer, after : Nat])
    <3>0. sideTo \in Seq([buffer : Buffer, after : Nat])
      OBVIOUS
    <3>1. PICK n \in Nat : n = Len(sideTo) /\ DOMAIN sideTo = 1 .. n
      BY <3>0, SequenceElements
    <3>2. \A i \in 1 .. n : sideTo[i] \in [buffer : Buffer, after : Nat]
      BY <3>0, <3>1, SequenceElements, Zenon
    <3>3. sideTo' = [i \in 1 .. n |-> [sideTo[i] EXCEPT !.after = Nearer(@)]]
      BY <1>7, <3>1 DEF KernelExecutes
    <3>4. sideTo' \in [1 .. n -> [buffer : Buffer, after : Nat]]
      BY <3>2, <3>3, WaitsShorten
    <3> QED BY <3>1, <3>4, FunctionsAreSequences
  <2> QED BY <1>7, <2>1 DEF KernelExecutes
<1> QED BY <1>1, <1>2, <1>3, <1>4, <1>5, <1>6, <1>7
        DEF LSNext, SourceStep, HostStep, PassStep, LoadAsks, LoadFails, LayerWaits, Advances,
            BeginForward, RuntimeCloses, streamVars

\* What the source's proofs and the types give in every state.
LEMMA StreamBasics ==
  LSSpec => [](SafetyInv /\ LoadsAreLayers /\ OneLoadAtATime /\ PoolTyped /\ HostTyped)
<1>1. LSInit => OneLoadAtATime /\ PoolTyped /\ HostTyped
  BY InitStream DEF LSInit, Init, OneLoadAtATime, NeverOnLoan
<1>2. /\ SafetyInv /\ SafetyInv' /\ PoolTyped /\ HostTyped /\ OneLoadAtATime
      /\ [LSNext]_streamVars
      => (PoolTyped /\ HostTyped /\ OneLoadAtATime)'
  BY PoolTypesKept, HostTypesKept, OneLoadKept DEF SafetyInv
<1> QED BY <1>1, <1>2, LoadsAlways, RuntimeIsASourceClient, AlwaysSafe, PTL DEF LSSpec

\* Every state of the composition is well typed.
THEOREM StreamStaysTyped == LSSpec => []LSTypeOK
<1>1. SafetyInv /\ LoadsAreLayers /\ PoolTyped /\ HostTyped => LSTypeOK
  BY DEF SafetyInv, TypeInv, LoadsAreLayers, PoolTyped, HostTyped, LSTypeOK
<1> QED BY <1>1, StreamBasics, PTL

-----------------------------------------------------------------------------
(* The schedule.                                                           *)

\* A load that is still to be made brings its layer into buffer b.
Refills(b) == \E i \in 1 .. Len(loads) : BufferOf(loads[i]) = b

\* The layers in their buffers once the loads are made.
Coming ==
  {l \in Layer : \/ \E i \in 1 .. Len(loads) : loads[i] = l
                 \/ owner[BufferOf(l)] = l /\ ~Refills(BufferOf(l))}

\* The load under way is the first of those to make; no two share a buffer.
LoadsInTurn ==
  /\ getter # "idle" => loads # <<>> /\ want = Head(loads)
  /\ loan # NoLoan => loads # <<>> /\ loan.layer = Head(loads)
  /\ copied => loan # NoLoan
  /\ loads # <<>> => pass # "rest"
  /\ \A i, j \in 1 .. Len(loads) : i # j => BufferOf(loads[i]) # BufferOf(loads[j])

\* A forward has come to the last layer: it and the one before it stay.
AtTheEnd ==
  /\ heading = 1 /\ prev = NDecoder - 1 /\ tailDone
  /\ \A l \in Decoder : l >= NDecoder - 2 => l \in Coming

InForward ==
  /\ heading = 1
  /\ stop = 0 => prev = NoLayer /\ ~tailDone /\ {Embed, 0} \subseteq Coming
  /\ stop \in 1 .. NDecoder /\ phase # "kernel" =>
       /\ prev = (IF stop = 1 THEN NoLayer ELSE stop - 2)
       /\ ~tailDone
       /\ {stop - 1, stop - 2} \cap Decoder \subseteq Coming
  /\ stop \in 1 .. NDecoder - 1 /\ phase = "kernel" =>
       prev = stop - 1 /\ ~tailDone /\ {stop - 1, stop} \subseteq Coming
  /\ stop = NDecoder /\ phase = "kernel" => AtTheEnd /\ OutHead \in Coming
  /\ stop = NDecoder + 1 => AtTheEnd /\ OutHead \in Coming

InBackward ==
  /\ ~graph
  /\ stop - 1 \in Coming
  /\ stop = NDecoder /\ phase # "kernel" => AtTheEnd
  /\ stop < NDecoder /\ phase # "kernel" => prev = stop
  /\ phase = "kernel" => prev = stop - 1 /\ (stop > 1 => stop - 2 \in Coming)

WalkIsOnCourse ==
  /\ pass = "rest" /\ graph => AtTheEnd
  /\ pass = "forward" => InForward
  /\ pass = "backward" => InBackward

\* What a step of the source is to the loads.
LEMMA SourceStepAs ==
  ASSUME OneLoadAtATime, SourceStep
  PROVE  /\ UNCHANGED <<device, owner, event, sideTo, compute, stream>>
         /\ UNCHANGED <<walkVars, loads, copied, refilled, failed>>
         /\ getter = "idle" => UNCHANGED <<getter, want, loan>>
         /\ getter # "idle" => loan = NoLoan
         /\ getter' # "idle" => UNCHANGED <<want, loan>> /\ getter # "idle"
         /\ loan' # NoLoan => loan' = loan \/ (loan'.layer = want /\ getter # "idle")
<1>1. /\ UNCHANGED <<device, owner, event, sideTo, compute>>
      /\ UNCHANGED <<walkVars, loads, copied, refilled, failed>>
  BY DEF SourceStep, poolVars, runVars
<1>2. getter # "idle" => loan = NoLoan
  BY DEF OneLoadAtATime
<1>3. CASE ReaderStep \/ DriveStep \/ ReadGoesOverdue
  <2>1. UNCHANGED <<stream, getter, want, loan>>
    BY <1>3 DEF ReaderStep, DriveStep, ReaderEnter, ReaderDiesUnborn, ReaderSleep, ReaderExit,
         ReaderSkip, ReaderClaim, ReaderBeginRead, ReaderEndRead, ReaderReadFails,
         ReaderPublish, ReaderFail, ReadGoesOverdue, consumerVars
  <2> QED BY <1>1, <1>2, <2>1
<1>4. CASE GetServe
  <2>1. /\ getter # "idle" /\ getter' = "idle" /\ stream' = stream
        /\ loan' = [layer |-> want, slot |-> slotOf[want]]
    BY <1>4 DEF GetServe, GetEnds, InLoop
  <2> QED BY <1>1, <1>2, <2>1
<1>5. CASE GetStep /\ ~GetServe
  <2>1. /\ getter # "idle" /\ UNCHANGED <<stream, loan>>
        /\ getter' # "idle" => want' = want
    BY <1>5 DEF GetStep, GetMiss, GetOnLoan, GetRaisesError, GetRaisesClosed, GetRestartsReader,
         GetReaderGivenUp, GetReadWedged, GetEnds, InLoop, consumerVars
  <2> QED BY <1>1, <1>2, <2>1
<1> QED BY <1>3, <1>4, <1>5 DEF SourceStep

\* A load ends: its layer is in its buffer.
LEMMA ReleaseBringsTheLayer ==
  ASSUME LoadsAreLayers, PoolTyped, LoadsInTurn, LoadReleases
  PROVE  /\ loads # <<>> /\ loan.layer = loads[1] /\ loads[1] \in Layer
         /\ owner' = [owner EXCEPT ![BufferOf(loads[1])] = loads[1]]
         /\ Len(loads') = Len(loads) - 1
         /\ \A i \in 1 .. Len(loads') : i + 1 \in 1 .. Len(loads) /\ loads'[i] = loads[i + 1]
         /\ Coming \subseteq Coming'
         /\ \A b \in Buffer : Refills(b)' => Refills(b)
<1>1. /\ loads # <<>> /\ loan.layer = Head(loads) /\ loads' = Tail(loads)
      /\ owner' = [owner EXCEPT ![BufferOf(loan.layer)] = loan.layer]
  BY DEF LoadReleases, LoadsInTurn
<1>2. /\ Head(loads) = loads[1] /\ loads[1] \in Layer /\ 1 \in 1 .. Len(loads)
      /\ Len(loads) \in Nat
      /\ Len(loads') = Len(loads) - 1
      /\ \A i \in 1 .. Len(loads') : i + 1 \in 1 .. Len(loads) /\ loads'[i] = loads[i + 1]
  BY <1>1 DEF LoadsAreLayers
<1>3. \A b \in Buffer : Refills(b)' => Refills(b)
  BY <1>2 DEF Refills
<1>4. ASSUME NEW l \in Coming
      PROVE  l \in Coming'
  <2>1. l \in Layer
    BY <1>4 DEF Coming
  <2>2. PICK b \in Buffer : b = BufferOf(l)
    BY <2>1, BufferIsBuffer
  <2>3. CASE loads[1] = l
    <3>1. owner'[b] = l
      BY <1>1, <1>2, <2>2, <2>3 DEF PoolTyped
    <3>2. \A i \in 1 .. Len(loads') : BufferOf(loads'[i]) # b
      BY <1>2, <2>2, <2>3 DEF LoadsInTurn
    <3> QED BY <2>1, <2>2, <3>1, <3>2 DEF Coming, Refills
  <2>4. CASE \E i \in 1 .. Len(loads) : i # 1 /\ loads[i] = l
    <3>1. PICK i \in 1 .. Len(loads) : i # 1 /\ loads[i] = l
      BY <2>4
    <3>2. i - 1 \in 1 .. Len(loads') /\ loads'[i - 1] = l
      BY <1>2, <3>1
    <3> QED BY <2>1, <3>2 DEF Coming
  <2>5. CASE owner[b] = l /\ ~Refills(b)
    <3>1. BufferOf(loads[1]) # b
      BY <1>2, <2>5 DEF Refills
    <3>2. owner'[b] = l
      BY <1>1, <1>2, <2>5, <3>1, BufferIsBuffer DEF PoolTyped
    <3>3. ~Refills(b)'
      BY <1>3, <2>5
    <3> QED BY <2>1, <2>2, <3>2, <3>3 DEF Coming
  <2> QED BY <1>4, <2>2, <2>3, <2>4, <2>5 DEF Coming
<1> QED BY <1>1, <1>2, <1>3, <1>4

\* What an advance loads: the next layer, the output weight, both or neither.
LEMMA AdvancesAs ==
  ASSUME HostTyped, Advances,
         NEW idx \in Decoder, idx = LayerAt(stop), NEW nxt \in Int, nxt = idx + Heading(idx),
         NEW tail \in BOOLEAN, tail = (Heading(idx) = 1 /\ idx = NDecoder - 1 /\ ~tailDone)
  PROVE  /\ nxt \in Decoder => ~tail
         /\ loads = <<>>
         /\ \/ loads' = <<>> /\ (nxt \in Decoder => owner[BufferOf(nxt)] = nxt)
                             /\ (tail => owner[Large] = OutHead)
            \/ loads' = <<nxt>> /\ nxt \in Decoder
            \/ loads' = <<OutHead>> /\ tail /\ owner[Large] # OutHead
<1>1. nxt \in Decoder => ~tail
  <2>1. tail => Heading(idx) = 1 /\ idx = NDecoder - 1
    BY Zenon
  <2>2. NDecoder \in Nat /\ NDecoder \notin Decoder
    BY SourceAssumption, StreamAssumption DEF Decoder
  <2>3. tail => nxt = NDecoder
    BY <2>1, <2>2
  <2> QED BY <2>2, <2>3
<1>2. loads' = (IF nxt \in Decoder /\ owner[BufferOf(nxt)] # nxt THEN <<nxt>> ELSE <<>>) \o
               (IF tail THEN LargeLoad(OutHead) ELSE <<>>)
  BY DEF Advances
<1>3. CASE tail
  <2>1. loads' = LargeLoad(OutHead) /\ nxt \notin Decoder
    BY <1>1, <1>2, <1>3 DEF LargeLoad
  <2> QED BY <1>1, <1>3, <2>1 DEF LargeLoad, Advances, HostFree
<1>4. CASE ~tail
  <2>1. loads' = IF nxt \in Decoder /\ owner[BufferOf(nxt)] # nxt THEN <<nxt>> ELSE <<>>
    BY <1>2, <1>4
  <2> QED BY <1>1, <1>4, <2>1 DEF Advances, HostFree
<1> QED BY <1>3, <1>4

\* The large slot, once it holds the only vocabulary weight, is not filled again.
TiedStays ==
  Embed = OutHead /\ owner[Large] = OutHead => ~Refills(Large)

LoadsInv == LoadsInTurn /\ TiedStays

\* What an advance does to the layers in their buffers.
LEMMA AdvanceBrings ==
  ASSUME HostTyped, PoolTyped, LoadsInv, Advances,
         NEW idx \in Decoder, idx = LayerAt(stop), NEW nxt \in Int, nxt = idx + Heading(idx),
         NEW tail \in BOOLEAN, tail = (Heading(idx) = 1 /\ idx = NDecoder - 1 /\ ~tailDone)
  PROVE  /\ LoadsInv'
         /\ nxt \in Decoder => nxt \in Coming'
         /\ tail => OutHead \in Coming'
         /\ idx \in Coming => idx \in Coming'
         /\ nxt \notin Decoder => Coming \cap Decoder \subseteq Coming'
<1>1. UNCHANGED <<getter, want, loan, owner, copied, pass>> /\ pass # "rest" /\ getter = "idle"
  BY DEF Advances, HostTyped, WalkTyped, HostFree, vars, consumerVars, poolVars
<1>2. /\ nxt \in Decoder => ~tail
      /\ loads = <<>>
      /\ \/ loads' = <<>> /\ (nxt \in Decoder => owner[BufferOf(nxt)] = nxt)
                          /\ (tail => owner[Large] = OutHead)
         \/ loads' = <<nxt>> /\ nxt \in Decoder
         \/ loads' = <<OutHead>> /\ tail /\ owner[Large] # OutHead
  BY AdvancesAs
<1>3. loan = NoLoan /\ ~copied
  BY <1>2 DEF LoadsInv, LoadsInTurn
<1>4. \A l \in Layer : l \in Coming <=> owner[BufferOf(l)] = l
  BY <1>2 DEF Coming, Refills
<1>5. LoadsInTurn'
  BY <1>1, <1>2, <1>3 DEF LoadsInTurn
<1>6. /\ BufferOf(OutHead) = Large /\ OutHead \in Layer /\ Decoder \subseteq Layer
      /\ \A l \in Decoder : BufferOf(l) # Large
  <2>1. OutHead \notin Decoder
    BY SourceAssumption, StreamAssumption DEF Decoder
  <2> QED BY <2>1, DecoderLayersAreLayers, BufferIsBuffer
<1>7. TiedStays'
  BY <1>1, <1>2, <1>6 DEF TiedStays, Refills
<1>8. nxt \in Decoder => nxt \in Coming'
  BY <1>1, <1>2, <1>6 DEF Coming, Refills
<1>9. tail => OutHead \in Coming'
  BY <1>1, <1>2, <1>6 DEF Coming, Refills
<1>10. nxt \in Decoder => BufferOf(nxt) # BufferOf(idx)
  <2>1. Heading(idx) \in {-1, 1}
    BY DEF Heading, HostTyped
  <2> QED BY <2>1, NeighboursApart DEF Decoder
<1>11. idx \in Coming => idx \in Coming'
  BY <1>1, <1>2, <1>4, <1>6, <1>10 DEF Coming, Refills
<1>12. nxt \notin Decoder => Coming \cap Decoder \subseteq Coming'
  BY <1>1, <1>2, <1>4, <1>6 DEF Coming, Refills
<1> QED BY <1>5, <1>7, <1>8, <1>9, <1>11, <1>12 DEF LoadsInv

\* The layer the host is at is in its buffer.
LEMMA HereIsComing ==
  ASSUME HostTyped, WalkIsOnCourse, pass # "rest"
  PROVE  LayerAt(stop) \in Coming
<1>1. NDecoder \in Nat \ {0}
  BY SourceAssumption, StreamAssumption
<1>2. CASE pass = "forward"
  <2>1. InForward /\ stop \in Stop
    BY <1>2 DEF WalkIsOnCourse, HostTyped
  <2>2. CASE stop = 0 \/ stop = NDecoder + 1
    BY <2>1, <2>2, StopsAreLayers DEF InForward
  <2>3. CASE stop \in 1 .. NDecoder
    <3>1. LayerAt(stop) = stop - 1 /\ stop - 1 \in Decoder
      BY <2>1, <2>3, StopsAreLayers
    <3>2. CASE stop = NDecoder /\ phase = "kernel"
      BY <1>1, <2>1, <3>1, <3>2 DEF InForward, AtTheEnd
    <3> QED BY <1>1, <2>1, <2>3, <3>1, <3>2 DEF InForward
  <2> QED BY <1>1, <2>1, <2>2, <2>3 DEF Stop
<1>3. CASE pass = "backward"
  <2>1. stop - 1 \in Coming /\ stop \in 1 .. NDecoder
    BY <1>3 DEF WalkIsOnCourse, InBackward, HostTyped, WalkTyped
  <2> QED BY <2>1, StopsAreLayers DEF HostTyped
<1> QED BY <1>2, <1>3 DEF HostTyped

\* With no load to make, what is coming is there.
LEMMA ComingIsThere ==
  ASSUME loads = <<>>
  PROVE  \A l \in Coming : l \in Layer /\ owner[BufferOf(l)] = l
BY DEF Coming

\* The walk is on course as long as it stands still and no layer is lost.
LEMMA WalkStays ==
  ASSUME WalkIsOnCourse, UNCHANGED walkVars, Coming \subseteq Coming'
  PROVE  WalkIsOnCourse'
<1>1. AtTheEnd => AtTheEnd'
  BY DEF AtTheEnd, walkVars
<1>2. InForward => InForward'
  BY <1>1 DEF InForward, walkVars
<1>3. InBackward => InBackward'
  BY <1>1 DEF InBackward, walkVars
<1> QED BY <1>1, <1>2, <1>3 DEF WalkIsOnCourse, walkVars

LEMMA OneAfterAnother ==
  ASSUME NEW R, NEW a \in R, NEW b \in R
  PROVE  <<a>> \o <<b>> = <<a, b>>
<1>1. <<a>> \in Seq(R)
  OBVIOUS
<1>2. Append(<<a>>, b) = <<a>> \o <<b>>
  BY <1>1, AppendIsConcat
<1>3. Append(<<a>>, b) = <<a, b>>
  <2>1. PICK p \in Seq(R) : p = <<a>> /\ Len(p) = 1 /\ p[1] = a
    BY <1>1
  <2>2. PICK t \in Seq(R) : t = <<a, b>> /\ Len(t) = 2 /\ t[1] = a /\ t[2] = b
    <3>1. <<a, b>> \in Seq(R) /\ Len(<<a, b>>) = 2 /\ <<a, b>>[1] = a /\ <<a, b>>[2] = b
      OBVIOUS
    <3> QED BY <3>1
  <2>3. PICK s \in Seq(R) : s = Append(p, b) /\ Len(s) = 2 /\ s[1] = a /\ s[2] = b
    <3>1. /\ Append(p, b) \in Seq(R)
          /\ Len(Append(p, b)) = Len(p) + 1
          /\ \A i \in 1 .. Len(p) : Append(p, b)[i] = p[i]
          /\ Append(p, b)[Len(p) + 1] = b
      BY AppendProperties
    <3>2. PICK s \in Seq(R) : s = Append(p, b)
      BY <3>1
    <3>3. Len(s) = Len(p) + 1 /\ (\A i \in 1 .. Len(p) : s[i] = p[i]) /\ s[Len(p) + 1] = b
      BY <3>1, <3>2
    <3>4. Len(s) = 2 /\ s[1] = a /\ s[2] = b
      BY <2>1, <3>3
    <3> QED BY <3>2, <3>4
  <2>4. s = t
    <3>1. \A i \in 1 .. Len(s) : s[i] = t[i]
      BY <2>2, <2>3
    <3>2. Len(s) = Len(t)
      BY <2>2, <2>3
    <3> HIDE <2>2, <2>3
    <3> QED BY <3>1, <3>2, SeqEqual
  <2> QED BY <2>1, <2>2, <2>3, <2>4
<1> QED BY <1>2, <1>3

LEMMA BeginKeepsCourse ==
  ASSUME HostTyped, PoolTyped, LoadsInv, BeginForward
  PROVE  LoadsInv' /\ WalkIsOnCourse'
<1>1. /\ loads = <<>> /\ pass' = "forward" /\ stop' = 0 /\ phase' = "wait"
      /\ prev' = NoLayer /\ heading' = 1 /\ tailDone' = FALSE
      /\ loads' = LargeLoad(Embed) \o <<0>>
      /\ UNCHANGED <<getter, want, loan, owner, copied>> /\ getter = "idle"
  BY DEF BeginForward, HostFree, vars, consumerVars, poolVars
<1>2. loan = NoLoan /\ ~copied
  BY <1>1 DEF LoadsInv, LoadsInTurn
<1>3. \/ loads' = <<0>> /\ owner[Large] = Embed
      \/ loads' = <<Embed, 0>> /\ owner[Large] # Embed
  <2>1. CASE owner[Large] = Embed
    <3>1. loads' = <<>> \o <<0>>
      BY <1>1, <2>1 DEF LargeLoad
    <3> QED BY <2>1, <3>1
  <2>2. CASE owner[Large] # Embed
    <3>1. loads' = <<Embed>> \o <<0>>
      BY <1>1, <2>2 DEF LargeLoad
    <3> QED BY <2>2, <3>1, OneAfterAnother, DecoderLayersAreLayers
  <2> QED BY <2>1, <2>2
<1>4. /\ BufferOf(Embed) = Large /\ Embed \in Layer /\ 0 \in Layer /\ 0 \in Decoder
      /\ BufferOf(0) # Large
  <2>1. Embed \notin Decoder /\ 0 \in Decoder
    BY SourceAssumption, StreamAssumption DEF Decoder
  <2> QED BY <2>1, DecoderLayersAreLayers, BufferIsBuffer
<1>5. LoadsInTurn'
  <2>1. CASE loads' = <<0>>
    BY <1>1, <1>2, <2>1 DEF LoadsInTurn
  <2>2. CASE loads' = <<Embed, 0>>
    <3>1. Len(loads') = 2 /\ loads'[1] = Embed /\ loads'[2] = 0
      BY <2>2
    <3> QED BY <1>1, <1>2, <1>4, <3>1 DEF LoadsInTurn
  <2> QED BY <1>3, <2>1, <2>2
<1>6. TiedStays' /\ Embed \in Coming' /\ 0 \in Coming'
  <2>1. CASE loads' = <<0>> /\ owner[Large] = Embed
    <3>1. Len(loads') = 1 /\ loads'[1] = 0
      BY <2>1
    <3>2. ~Refills(Large)'
      BY <1>4, <3>1 DEF Refills
    <3>3. TiedStays' /\ Embed \in Coming'
      BY <1>1, <1>4, <2>1, <3>2 DEF TiedStays, Coming
    <3>4. 0 \in Coming'
      BY <1>4, <3>1 DEF Coming
    <3> QED BY <3>3, <3>4
  <2>2. CASE loads' = <<Embed, 0>> /\ owner[Large] # Embed
    <3>1. Len(loads') = 2 /\ loads'[1] = Embed /\ loads'[2] = 0
      BY <2>2
    <3> QED BY <1>1, <1>4, <2>2, <3>1 DEF TiedStays, Coming
  <2> QED BY <1>3, <2>1, <2>2
<1>7. WalkIsOnCourse'
  BY <1>1, <1>6, StreamAssumption, SourceAssumption DEF WalkIsOnCourse, InForward
<1> QED BY <1>5, <1>6, <1>7 DEF LoadsInv

\* A layer that waits finds its buffer its own.
LEMMA WaitKeepsCourse ==
  ASSUME HostTyped, WalkIsOnCourse, LayerWaits
  PROVE  WalkIsOnCourse' /\ failed' = failed
<1>1. loads = <<>> /\ pass # "rest" /\ phase = "wait"
  BY DEF LayerWaits, HostFree
<1>2. LayerAt(stop) \in Coming
  BY <1>1, HereIsComing
<1>3. owner[BufferOf(LayerAt(stop))] = LayerAt(stop)
  BY <1>1, <1>2, ComingIsThere
<1>4. /\ UNCHANGED <<failed, pass, stop, prev, heading, tailDone, graph, loads, owner>>
      /\ \/ phase' = "advance" /\ LayerAt(stop) \in Decoder
         \/ phase' = "kernel" /\ LayerAt(stop) \notin Decoder
  BY <1>3 DEF LayerWaits, poolVars
<1>5. Coming' = Coming
  BY <1>4 DEF Coming, Refills
<1>6. phase' # "kernel" <=> stop \in 1 .. NDecoder
  BY <1>4, StopsAreLayers DEF HostTyped
<1>7. AtTheEnd => AtTheEnd'
  BY <1>4, <1>5 DEF AtTheEnd
<1>8. NDecoder \in Nat \ {0} /\ stop \in Stop
  BY SourceAssumption, StreamAssumption DEF HostTyped
<1>9. InForward => InForward'
  <2> SUFFICES ASSUME InForward PROVE InForward'
    OBVIOUS
  <2>1. CASE stop = 0
    BY <1>1, <1>4, <1>5, <1>8, <2>1 DEF InForward
  <2>2. CASE stop \in 1 .. NDecoder
    BY <1>1, <1>4, <1>5, <1>6, <1>8, <2>2 DEF InForward
  <2>3. CASE stop = NDecoder + 1
    BY <1>1, <1>4, <1>5, <1>7, <1>8, <2>3 DEF InForward
  <2> QED BY <1>8, <2>1, <2>2, <2>3 DEF Stop
<1>10. pass = "backward" => (InBackward => InBackward')
  <2>1. pass = "backward" => stop \in 1 .. NDecoder
    BY DEF HostTyped, WalkTyped
  <2> QED BY <1>1, <1>4, <1>5, <1>6, <1>7, <2>1 DEF InBackward
<1> QED BY <1>1, <1>4, <1>9, <1>10 DEF WalkIsOnCourse

LEMMA AdvanceKeepsCourse ==
  ASSUME HostTyped, PoolTyped, LoadsInv, WalkIsOnCourse, Advances
  PROVE  LoadsInv' /\ WalkIsOnCourse'
<1>1. NDecoder \in Nat /\ stop \in 1 .. NDecoder /\ stop \in Stop
  BY SourceAssumption, StreamAssumption DEF HostTyped, WalkTyped, Advances
<1>2. PICK idx \in Decoder : idx = LayerAt(stop) /\ idx = stop - 1
  BY <1>1, StopsAreLayers
<1>3. Heading(idx) \in {-1, 1}
  BY DEF Heading, HostTyped
<1>4. PICK nxt \in Int : nxt = idx + Heading(idx)
  BY <1>2, <1>3 DEF Decoder
<1>5. PICK tail \in BOOLEAN : tail = (Heading(idx) = 1 /\ idx = NDecoder - 1 /\ ~tailDone)
  BY Zenon
<1>6. /\ LoadsInv'
      /\ nxt \in Decoder => nxt \in Coming'
      /\ tail => OutHead \in Coming'
      /\ idx \in Coming => idx \in Coming'
      /\ nxt \notin Decoder => Coming \cap Decoder \subseteq Coming'
  BY <1>2, <1>4, <1>5, AdvanceBrings
<1>7. /\ heading' = Heading(idx) /\ prev' = idx /\ tailDone' = (tailDone \/ tail)
      /\ phase = "advance" /\ phase' = "kernel" /\ UNCHANGED <<pass, stop, graph>>
  BY <1>2, <1>5 DEF Advances
<1>8. pass # "rest"
  BY <1>7 DEF HostTyped, WalkTyped
<1>9. idx \in Coming'
  BY <1>2, <1>6, <1>8, HereIsComing
<1>10. CASE pass = "forward"
  <2>1. InForward
    BY <1>10 DEF WalkIsOnCourse
  <2>2. Heading(idx) = 1 /\ nxt = stop
    BY <1>1, <1>2, <1>4, <1>7, <2>1 DEF InForward, Heading, NoLayer, Decoder
  <2>3. ~tailDone /\ (tail <=> stop = NDecoder)
    <3>1. ~tailDone
      BY <1>1, <1>7, <2>1 DEF InForward
    <3>2. stop = NDecoder <=> idx = NDecoder - 1
      BY <1>1, <1>2
    <3>3. tail <=> idx = NDecoder - 1
      BY <1>5, <2>2, <3>1, Zenon
    <3> QED BY <3>1, <3>2, <3>3
  <2>4. CASE stop < NDecoder
    <3>1. nxt \in Decoder
      BY <1>1, <2>2, <2>4 DEF Decoder
    <3>2. ~tailDone'
      <4>1. ~tail
        BY <1>1, <2>3, <2>4
      <4> QED BY <1>7, <2>3, <4>1, Zenon
    <3> QED BY <1>1, <1>2, <1>6, <1>7, <1>9, <1>10, <2>2, <2>4, <3>1, <3>2
            DEF WalkIsOnCourse, InForward
  <2>5. CASE stop = NDecoder
    <3>1. nxt \notin Decoder
      BY <1>1, <2>2, <2>5 DEF Decoder
    <3>2. tailDone' /\ OutHead \in Coming'
      BY <1>6, <1>7, <2>3, <2>5
    <3>3. \A l \in Decoder : l >= NDecoder - 2 => l \in Coming'
      BY <1>1, <1>2, <1>6, <1>7, <1>9, <2>1, <2>5, <3>1 DEF InForward, Decoder
    <3>4. AtTheEnd'
      BY <1>1, <1>2, <1>7, <2>2, <2>5, <3>2, <3>3 DEF AtTheEnd
    <3> QED BY <1>1, <1>2, <1>6, <1>7, <1>10, <2>2, <2>5, <3>2, <3>4
            DEF WalkIsOnCourse, InForward
  <2> QED BY <1>1, <2>4, <2>5
<1>11. CASE pass = "backward"
  <2>1. InBackward
    BY <1>11 DEF WalkIsOnCourse
  <2>2. stop > 1 => stop - 2 \in Coming'
    <3>1. CASE stop = NDecoder
      <4>1. AtTheEnd
        BY <1>7, <2>1, <3>1 DEF InBackward
      <4>2. nxt = NDecoder /\ nxt \notin Decoder
        BY <1>1, <1>2, <1>4, <3>1, <4>1 DEF AtTheEnd, Heading, Decoder
      <4> QED BY <1>1, <1>6, <3>1, <4>1, <4>2 DEF AtTheEnd, Decoder
    <3>2. CASE stop < NDecoder
      <4>1. prev = stop
        BY <1>7, <2>1, <3>2 DEF InBackward
      <4>2. nxt = stop - 2
        <5>1. idx < prev /\ prev # NoLayer
          BY <1>1, <1>2, <4>1 DEF NoLayer
        <5>2. Heading(idx) = -1
          BY <5>1 DEF Heading
        <5> QED BY <1>1, <1>2, <1>4, <5>2
      <4> QED BY <1>1, <1>6, <4>2 DEF Decoder
    <3> QED BY <1>1, <3>1, <3>2
  <2> QED BY <1>1, <1>2, <1>6, <1>7, <1>9, <1>11, <2>1, <2>2 DEF WalkIsOnCourse, InBackward
<1>12. pass = "forward" \/ pass = "backward"
  BY <1>8 DEF HostTyped
<1> QED BY <1>6, <1>10, <1>11, <1>12

LEMMA KernelKeepsCourse ==
  ASSUME HostTyped, WalkIsOnCourse, LayerComputes
  PROVE  WalkIsOnCourse'
<1>1. /\ loads = <<>> /\ phase = "kernel" /\ phase' = "wait"
      /\ UNCHANGED <<prev, heading, tailDone, loads, owner>>
  BY DEF LayerComputes, HostFree
<1>2. Coming' = Coming
  BY <1>1 DEF Coming, Refills
<1>3. AtTheEnd => AtTheEnd'
  BY <1>1, <1>2 DEF AtTheEnd
<1>4. NDecoder \in Nat \ {0} /\ stop \in Stop /\ pass # "rest"
  BY <1>1, SourceAssumption, StreamAssumption DEF HostTyped, WalkTyped
<1>5. CASE pass = "forward"
  <2>1. InForward
    BY <1>5 DEF WalkIsOnCourse
  <2>2. CASE stop = NDecoder + 1
    <3>1. pass' = "rest" /\ AtTheEnd'
      BY <1>3, <1>5, <2>1, <2>2 DEF LayerComputes, InForward
    <3> QED BY <3>1 DEF WalkIsOnCourse
  <2>3. CASE stop = NDecoder
    <3>1. pass' = "forward" /\ stop' = NDecoder + 1 /\ AtTheEnd' /\ OutHead \in Coming'
      BY <1>1, <1>2, <1>3, <1>4, <1>5, <2>1, <2>3 DEF LayerComputes, InForward
    <3> QED BY <1>1, <1>4, <2>1, <3>1 DEF WalkIsOnCourse, InForward
  <2>4. CASE stop \in 0 .. NDecoder - 1
    <3>1. /\ pass' = "forward" /\ stop' = stop + 1 /\ stop' \in 1 .. NDecoder
          /\ prev' = (IF stop' = 1 THEN NoLayer ELSE stop' - 2) /\ ~tailDone'
          /\ stop' - 1 \in Coming' /\ (stop # 0 => stop - 1 \in Coming')
      BY <1>1, <1>2, <1>4, <1>5, <2>1, <2>4 DEF LayerComputes, InForward
    <3>2. {stop' - 1, stop' - 2} \cap Decoder \subseteq Coming'
      BY <2>4, <3>1 DEF Decoder
    <3> QED BY <1>1, <1>4, <2>1, <3>1, <3>2 DEF WalkIsOnCourse, InForward
  <2> QED BY <1>4, <2>2, <2>3, <2>4 DEF Stop
<1>6. CASE pass = "backward"
  <2>1. InBackward /\ stop \in 1 .. NDecoder
    BY <1>6 DEF WalkIsOnCourse, HostTyped, WalkTyped
  <2>2. stop' = stop - 1 /\ pass' = (IF stop = 1 THEN "rest" ELSE pass) /\ graph' = graph
    BY <1>6 DEF LayerComputes
  <2> QED BY <1>1, <1>2, <1>4, <1>6, <2>1, <2>2 DEF WalkIsOnCourse, InBackward
<1> QED BY <1>4, <1>5, <1>6 DEF HostTyped

LEMMA BackwardKeepsCourse ==
  ASSUME HostTyped, WalkIsOnCourse, BeginBackward
  PROVE  WalkIsOnCourse'
<1>1. /\ pass = "rest" /\ graph /\ ~graph'
      /\ UNCHANGED <<phase, prev, heading, tailDone, loads, owner>>
      /\ \/ pass' = "backward" /\ stop' = NDecoder
         \/ pass' = "rest"
  BY DEF BeginBackward
<1>2. Coming' = Coming
  BY <1>1 DEF Coming, Refills
<1>3. AtTheEnd /\ phase = "wait"
  BY <1>1 DEF WalkIsOnCourse, HostTyped, WalkTyped
<1>4. AtTheEnd' /\ NDecoder - 1 \in Coming'
  BY <1>1, <1>2, <1>3, SourceAssumption, StreamAssumption DEF AtTheEnd, Decoder
<1>5. NDecoder \in Nat
  BY SourceAssumption, StreamAssumption
<1> QED BY <1>1, <1>3, <1>4, <1>5 DEF WalkIsOnCourse, InBackward

\* The loads of a prime or an advance are made one after the other, in their order.
LEMMA LoadsKeepTheirTurn ==
  ASSUME LoadsAreLayers, OneLoadAtATime, PoolTyped, HostTyped, LoadsInv, [LSNext]_streamVars
  PROVE  LoadsInv'
<1> USE DEF LoadsInv
<1>1. CASE UNCHANGED <<getter, want, loan, loads, owner, copied, pass>>
  BY <1>1 DEF LoadsInTurn, TiedStays, Refills
<1>2. CASE SourceStep
  <2>1. UNCHANGED <<loads, owner, copied, pass>>
    BY <1>2, SourceStepAs DEF walkVars
  <2>2. TiedStays'
    BY <2>1 DEF TiedStays, Refills
  <2>3. LoadsInTurn'
    BY <1>2, <2>1, SourceStepAs DEF LoadsInTurn
  <2> QED BY <2>2, <2>3
<1>3. CASE LoadAsks
  <2>1. /\ loads # <<>> /\ loan' = NoLoan /\ want' = Head(loads)
        /\ UNCHANGED <<loads, owner, copied, pass>>
        /\ ~copied
    BY <1>3 DEF LoadAsks, Ask, poolVars, runVars, walkVars, LoadsInTurn
  <2> QED BY <2>1 DEF LoadsInTurn, TiedStays, Refills
<1>4. CASE LoadCopies
  <2>1. loan # NoLoan /\ UNCHANGED <<getter, want, loan, loads, owner, pass>>
    BY <1>4 DEF LoadCopies, EnqueueCopy, consumerVars, walkVars
  <2> QED BY <2>1 DEF LoadsInTurn, TiedStays, Refills
<1>5. CASE LoadReleases
  <2>1. /\ loads # <<>> /\ loads[1] \in Layer
        /\ owner' = [owner EXCEPT ![BufferOf(loads[1])] = loads[1]]
        /\ \A i \in 1 .. Len(loads') : i + 1 \in 1 .. Len(loads) /\ loads'[i] = loads[i + 1]
        /\ \A b \in Buffer : Refills(b)' => Refills(b)
        /\ Len(loads') = Len(loads) - 1
    BY <1>5, ReleaseBringsTheLayer
  <2>2. /\ loan' = NoLoan /\ ~copied' /\ getter' = "idle" /\ pass' = pass
    BY <1>5 DEF LoadReleases, Release, walkVars
  <2>3. 1 \in 1 .. Len(loads) /\ Len(loads) \in Nat
    BY <2>1 DEF LoadsAreLayers
  <2>4. \A i, j \in 1 .. Len(loads') : i # j => BufferOf(loads'[i]) # BufferOf(loads'[j])
    <3>1. \A i, j \in 1 .. Len(loads') : i # j => i + 1 # j + 1
      BY <2>1, <2>3
    <3> QED BY <2>1, <3>1 DEF LoadsInTurn
  <2>5. LoadsInTurn'
    BY <2>1, <2>2, <2>4 DEF LoadsInTurn
  <2>6. TiedStays'
    <3>1. CASE BufferOf(loads[1]) = Large
      <4>1. \A i \in 1 .. Len(loads') : i + 1 # 1
        BY <2>3
      <4>2. \A i \in 1 .. Len(loads') : BufferOf(loads'[i]) # Large
        BY <2>1, <2>3, <3>1, <4>1 DEF LoadsInTurn
      <4> QED BY <4>2 DEF TiedStays, Refills
    <3>2. CASE BufferOf(loads[1]) # Large
      <4>1. Large \in Buffer
        BY StreamAssumption DEF Large, Buffer
      <4>2. owner'[Large] = owner[Large]
        BY <2>1, <3>2, <4>1 DEF PoolTyped
      <4> QED BY <2>1, <4>1, <4>2 DEF TiedStays
    <3> QED BY <3>1, <3>2
  <2> QED BY <2>5, <2>6
<1>6. CASE BeginForward
  BY <1>6, BeginKeepsCourse
<1>7. CASE Advances
  <2>1. NDecoder \in Nat /\ stop \in 1 .. NDecoder /\ stop \in Stop
    BY <1>7, SourceAssumption, StreamAssumption DEF HostTyped, WalkTyped, Advances
  <2>2. PICK idx \in Decoder : idx = LayerAt(stop)
    BY <2>1, StopsAreLayers
  <2>3. Heading(idx) \in {-1, 1}
    BY DEF Heading, HostTyped
  <2>4. PICK nxt \in Int : nxt = idx + Heading(idx)
    BY <2>2, <2>3 DEF Decoder
  <2>5. PICK tail \in BOOLEAN : tail = (Heading(idx) = 1 /\ idx = NDecoder - 1 /\ ~tailDone)
    BY Zenon
  <2> QED BY <1>7, <2>2, <2>4, <2>5, AdvanceBrings
<1>8. CASE LayerComputes \/ BeginBackward
  <2>1. loads = <<>> /\ UNCHANGED <<getter, want, loan, loads, owner, copied>>
    BY <1>8 DEF LayerComputes, BeginBackward, HostFree, vars, consumerVars
  <2> QED BY <2>1 DEF LoadsInTurn, TiedStays, Refills
<1>9. CASE LoadFails \/ LayerWaits \/ SideExecutes \/ KernelExecutes \/ RuntimeCloses
  <2>1. UNCHANGED <<getter, want, loan, loads, owner, copied, pass>>
    BY <1>9 DEF LoadFails, LayerWaits, SideExecutes, CopyExecutes, KernelExecutes,
         RuntimeCloses, CloseBegins, CloseEnds, vars, consumerVars, poolVars, runVars, walkVars
  <2> QED BY <2>1, <1>1
<1>10. CASE UNCHANGED streamVars
  BY <1>1, <1>10 DEF streamVars, vars, poolVars, runVars, walkVars
<1> QED BY <1>2, <1>3, <1>4, <1>5, <1>6, <1>7, <1>8, <1>9, <1>10
        DEF LSNext, HostStep, PassStep

\* The walk stays on course, so the ownership tripwire is never touched.
LEMMA CourseIsKept ==
  ASSUME LoadsAreLayers, OneLoadAtATime, PoolTyped, HostTyped, LoadsInv, WalkIsOnCourse,
         [LSNext]_streamVars
  PROVE  WalkIsOnCourse' /\ (failed' = "scheduler" => failed = "scheduler")
<1>1. ASSUME UNCHANGED <<walkVars, loads, owner>>
      PROVE  WalkIsOnCourse'
  <2>1. Coming' = Coming
    BY <1>1 DEF Coming, Refills
  <2> QED BY <1>1, <2>1, WalkStays
<1>2. CASE SourceStep
  BY <1>1, <1>2, SourceStepAs
<1>3. CASE LoadReleases
  <2>1. Coming \subseteq Coming'
    BY <1>3, ReleaseBringsTheLayer DEF LoadsInv
  <2>2. UNCHANGED walkVars /\ failed' = failed
    BY <1>3 DEF LoadReleases
  <2> QED BY <2>1, <2>2, WalkStays
<1>4. CASE BeginForward
  BY <1>4, BeginKeepsCourse DEF BeginForward
<1>5. CASE Advances
  BY <1>5, AdvanceKeepsCourse DEF Advances
<1>6. CASE LayerWaits
  BY <1>6, WaitKeepsCourse
<1>7. CASE LayerComputes
  BY <1>7, KernelKeepsCourse DEF LayerComputes
<1>8. CASE BeginBackward
  BY <1>8, BackwardKeepsCourse DEF BeginBackward
<1>9. CASE LoadAsks \/ LoadFails \/ LoadCopies \/ SideExecutes \/ KernelExecutes \/ RuntimeCloses
           \/ UNCHANGED streamVars
  <2>1. UNCHANGED <<walkVars, loads, owner>> /\ failed' \in {failed, "source"}
    BY <1>9 DEF LoadAsks, LoadFails, LoadCopies, SideExecutes, KernelExecutes, RuntimeCloses,
         streamVars, poolVars, runVars
  <2> QED BY <1>1, <2>1
<1> QED BY <1>2, <1>3, <1>4, <1>5, <1>6, <1>7, <1>8, <1>9 DEF LSNext, HostStep, PassStep

-----------------------------------------------------------------------------
(* The device.                                                             *)

\* The buffers b that hold the bytes of a layer l, or will once the last copy into
\* them is made, for which their event waits.
Settled ==
  {p \in Buffer \X Layer :
     \/ device[p[1]] = p[2] /\ \A k \in 1 .. Len(sideTo) : sideTo[k].buffer # p[1]
     \/ \E j \in 1 .. Len(sideTo) :
          /\ sideTo[j].buffer = p[1] /\ stream[j].layer = p[2] /\ event[p[1]] >= j
          /\ \A k \in j + 1 .. Len(sideTo) : sideTo[k].buffer # p[1]}

LEMMA SettledPairs == \A p \in Settled : \E b \in Buffer, l \in Layer : p = <<b, l>>
BY DEF Settled

\* A buffer is settled for its owner, or for the layer whose load has been copied.
BuffersSettle ==
  /\ Len(sideTo) = Len(stream)
  /\ copied => <<BufferOf(loan.layer), loan.layer>> \in Settled
  /\ \A b \in Buffer :
       owner[b] # NoLayer => <<b, owner[b]>> \in Settled \/ (copied /\ b = BufferOf(loan.layer))

\* Why the i-th kernel will find its layer: the layer is there, or a copy the
\* kernel waits for brings it; and every later copy into its buffer waits for it.
KernelIsFed(i) ==
  LET l == compute[i].layer
      b == BufferOf(l)
  IN  \/ /\ device[b] = l
         /\ \A k \in 1 .. Len(sideTo) : sideTo[k].buffer = b => sideTo[k].after >= i
      \/ \E j \in 1 .. Len(sideTo) :
           /\ sideTo[j].buffer = b /\ stream[j].layer = l
           /\ \E m \in 1 .. i : compute[m].after >= j
           /\ \A k \in j + 1 .. Len(sideTo) : sideTo[k].buffer = b => sideTo[k].after >= i

KernelsAreFed == \A i \in 1 .. Len(compute) : KernelIsFed(i)

\* The weight autograd holds a view of stays in the large slot, and a kernel is
\* there that waits for every copy into it.
ViewIsKept ==
  graph /\ ~NeedsPrivateWeight =>
    /\ ~RefillBeforeBackward => pass = "rest"
    /\ ~refilled
    /\ owner[Large] = OutHead
    /\ ~Refills(Large)
    /\ \A j \in 1 .. Len(sideTo) :
         sideTo[j].buffer = Large => \E m \in 1 .. Len(compute) : compute[m].after >= j

DeviceInv == BuffersSettle /\ KernelsAreFed /\ ViewIsKept

\* The first copy of the side stream leaves its queue: the others move up, and what
\* waits for them is one copy nearer.
LEMMA SideExecutesAs ==
  ASSUME SafetyInv, PoolTyped, Len(sideTo) = Len(stream), SideExecutes
  PROVE  /\ 1 \in 1 .. Len(sideTo) /\ sideTo[1].after = 0 /\ sideTo[1].buffer \in Buffer
         /\ device' = [device EXCEPT ![sideTo[1].buffer] = stream[1].layer]
         /\ Len(sideTo') = Len(sideTo) - 1 /\ Len(stream') = Len(sideTo')
         /\ \A k \in 1 .. Len(sideTo') : /\ k + 1 \in 1 .. Len(sideTo)
                                         /\ sideTo'[k] = sideTo[k + 1]
                                         /\ stream'[k] = stream[k + 1]
         /\ \A b \in Buffer : event'[b] = Nearer(event[b])
         /\ Len(compute') = Len(compute)
         /\ \A i \in 1 .. Len(compute) :
              compute'[i].layer = compute[i].layer /\ compute'[i].after = Nearer(compute[i].after)
         /\ UNCHANGED <<owner, runVars, loan>>
<1>1. sideTo # <<>> /\ stream # <<>> /\ sideTo' = Tail(sideTo) /\ stream' = Tail(stream)
        /\ Head(sideTo).after = 0 /\ UNCHANGED <<owner, runVars, loan>>
  BY DEF SideExecutes, CopyExecutes, consumerVars
<1>2. sideTo \in Seq([buffer : Buffer, after : Nat]) /\ stream \in Seq(Loan)
  BY DEF PoolTyped, SafetyInv, TypeInv, TypeOK
<1>3. /\ 1 \in 1 .. Len(sideTo) /\ Head(sideTo) = sideTo[1] /\ Head(stream) = stream[1]
      /\ Len(sideTo') = Len(sideTo) - 1 /\ Len(stream') = Len(sideTo')
      /\ \A k \in 1 .. Len(sideTo') : /\ k + 1 \in 1 .. Len(sideTo)
                                      /\ sideTo'[k] = sideTo[k + 1]
                                      /\ stream'[k] = stream[k + 1]
  BY <1>1, <1>2
<1>4. sideTo[1].buffer \in Buffer
  <2>1. sideTo[1] \in [buffer : Buffer, after : Nat]
    BY <1>2, <1>3, SequenceElements, Zenon
  <2> QED BY <2>1
<1>5. region[stream[1].slot] = stream[1].layer
  BY <1>3 DEF SafetyInv, StagingInv, CopiesAreGuarded, CopyIsGuarded
<1>6. device' = [device EXCEPT ![sideTo[1].buffer] = stream[1].layer]
  BY <1>3, <1>5 DEF SideExecutes
<1>7. \A b \in Buffer : event'[b] = Nearer(event[b])
  BY DEF SideExecutes
<1>8. compute \in Seq([layer : Layer, after : Nat])
  BY DEF PoolTyped
<1>9. PICK n \in Nat : n = Len(compute) /\ DOMAIN compute = 1 .. n
  BY <1>8, SequenceElements
<1>10. \A i \in 1 .. n : compute[i] \in [layer : Layer, after : Nat]
  BY <1>8, <1>9, SequenceElements, Zenon
<1>11. compute' = [i \in 1 .. n |-> [compute[i] EXCEPT !.after = Nearer(@)]]
  BY <1>9 DEF SideExecutes
<1>12. compute' \in [1 .. n -> [layer : Layer, after : Nat]]
  BY <1>10, <1>11, WaitsShorten
<1>13. Len(compute') = n
  BY <1>9, <1>12, FunctionsAreSequences
<1>14. \A i \in 1 .. n :
         compute'[i].layer = compute[i].layer /\ compute'[i].after = Nearer(compute[i].after)
  BY <1>10, <1>11
<1> QED BY <1>1, <1>3, <1>4, <1>6, <1>7, <1>9, <1>13, <1>14

LEMMA KernelExecutesAs ==
  ASSUME PoolTyped, KernelExecutes
  PROVE  /\ 1 \in 1 .. Len(compute) /\ compute[1].after = 0
         /\ Len(compute') = Len(compute) - 1
         /\ \A i \in 1 .. Len(compute') : /\ i + 1 \in 1 .. Len(compute)
                                          /\ compute'[i] = compute[i + 1]
         /\ Len(sideTo') = Len(sideTo)
         /\ \A k \in 1 .. Len(sideTo) :
              sideTo'[k].buffer = sideTo[k].buffer /\ sideTo'[k].after = Nearer(sideTo[k].after)
         /\ UNCHANGED <<device, owner, event, runVars, loan, stream>>
<1>1. compute # <<>> /\ compute' = Tail(compute) /\ Head(compute).after = 0
        /\ UNCHANGED <<device, owner, event, runVars, loan, stream>>
  BY DEF KernelExecutes, vars, consumerVars
<1>2. compute \in Seq([layer : Layer, after : Nat])
  BY DEF PoolTyped
<1>3. /\ 1 \in 1 .. Len(compute) /\ Head(compute) = compute[1]
      /\ Len(compute') = Len(compute) - 1
      /\ \A i \in 1 .. Len(compute') : /\ i + 1 \in 1 .. Len(compute)
                                       /\ compute'[i] = compute[i + 1]
  BY <1>1, <1>2
<1>8. sideTo \in Seq([buffer : Buffer, after : Nat])
  BY DEF PoolTyped
<1>9. PICK n \in Nat : n = Len(sideTo) /\ DOMAIN sideTo = 1 .. n
  BY <1>8, SequenceElements
<1>10. \A i \in 1 .. n : sideTo[i] \in [buffer : Buffer, after : Nat]
  BY <1>8, <1>9, SequenceElements, Zenon
<1>11. sideTo' = [i \in 1 .. n |-> [sideTo[i] EXCEPT !.after = Nearer(@)]]
  BY <1>9 DEF KernelExecutes
<1>12. sideTo' \in [1 .. n -> [buffer : Buffer, after : Nat]]
  BY <1>10, <1>11, WaitsShorten
<1>13. Len(sideTo') = n
  BY <1>9, <1>12, FunctionsAreSequences
<1>14. \A i \in 1 .. n :
         sideTo'[i].buffer = sideTo[i].buffer /\ sideTo'[i].after = Nearer(sideTo[i].after)
  BY <1>10, <1>11
<1> QED BY <1>1, <1>3, <1>9, <1>13, <1>14

\* The types of the queues, element by element.
LEMMA QueueTypes ==
  ASSUME PoolTyped
  PROVE  /\ Len(sideTo) \in Nat /\ Len(compute) \in Nat
         /\ \A k \in 1 .. Len(sideTo) : sideTo[k].buffer \in Buffer /\ sideTo[k].after \in Nat
         /\ \A i \in 1 .. Len(compute) : /\ compute[i].layer \in Layer /\ compute[i].after \in Nat
                                         /\ BufferOf(compute[i].layer) \in Buffer
<1>1. /\ sideTo \in Seq([buffer : Buffer, after : Nat])
      /\ compute \in Seq([layer : Layer, after : Nat])
  BY DEF PoolTyped
<1>2. /\ Len(sideTo) \in Nat /\ Len(compute) \in Nat
      /\ \A k \in 1 .. Len(sideTo) : sideTo[k] \in [buffer : Buffer, after : Nat]
      /\ \A i \in 1 .. Len(compute) : compute[i] \in [layer : Layer, after : Nat]
  BY <1>1, SequenceElements, Zenon
<1> QED BY <1>2, BufferIsBuffer

\* A copy whose turn it is has waited for every kernel that was to read its buffer.
LEMMA SideFeedsKernels ==
  ASSUME SafetyInv, PoolTyped, BuffersSettle, KernelsAreFed, SideExecutes
  PROVE  KernelsAreFed'
<1> SUFFICES ASSUME NEW i \in 1 .. Len(compute') PROVE KernelIsFed(i)'
  BY DEF KernelsAreFed
<1>1. /\ 1 \in 1 .. Len(sideTo) /\ sideTo[1].after = 0 /\ sideTo[1].buffer \in Buffer
      /\ device' = [device EXCEPT ![sideTo[1].buffer] = stream[1].layer]
      /\ Len(sideTo') = Len(sideTo) - 1 /\ Len(stream') = Len(sideTo')
      /\ \A k \in 1 .. Len(sideTo') : /\ k + 1 \in 1 .. Len(sideTo)
                                      /\ sideTo'[k] = sideTo[k + 1]
                                      /\ stream'[k] = stream[k + 1]
      /\ Len(compute') = Len(compute)
      /\ \A n \in 1 .. Len(compute) :
           compute'[n].layer = compute[n].layer /\ compute'[n].after = Nearer(compute[n].after)
  BY SideExecutesAs DEF BuffersSettle
<1>2. /\ Len(sideTo) \in Nat /\ Len(compute) \in Nat
      /\ \A k \in 1 .. Len(sideTo) : sideTo[k].buffer \in Buffer /\ sideTo[k].after \in Nat
      /\ \A n \in 1 .. Len(compute) : /\ compute[n].layer \in Layer /\ compute[n].after \in Nat
                                      /\ BufferOf(compute[n].layer) \in Buffer
  BY QueueTypes
<1>3. i \in 1 .. Len(compute) /\ KernelIsFed(i)
  BY <1>1 DEF KernelsAreFed
<1>4. PICK l \in Layer, b \in Buffer : l = compute[i].layer /\ b = BufferOf(l)
  BY <1>2, <1>3
<1>5. compute'[i].layer = l
  BY <1>1, <1>3, <1>4
<1>6. CASE /\ device[b] = l
           /\ \A k \in 1 .. Len(sideTo) : sideTo[k].buffer = b => sideTo[k].after >= i
  <2>1. sideTo[1].buffer # b
    BY <1>1, <1>3, <1>6
  <2>2. device'[b] = l
    BY <1>1, <1>6, <2>1 DEF PoolTyped
  <2>3. \A k \in 1 .. Len(sideTo') : sideTo'[k].buffer = b => sideTo'[k].after >= i
    BY <1>1, <1>6
  <2> QED BY <1>4, <1>5, <2>2, <2>3 DEF KernelIsFed
<1>7. CASE \E j \in 1 .. Len(sideTo) :
             /\ sideTo[j].buffer = b /\ stream[j].layer = l
             /\ \E m \in 1 .. i : compute[m].after >= j
             /\ \A k \in j + 1 .. Len(sideTo) : sideTo[k].buffer = b => sideTo[k].after >= i
  <2>1. PICK j \in 1 .. Len(sideTo) :
          /\ sideTo[j].buffer = b /\ stream[j].layer = l
          /\ \E m \in 1 .. i : compute[m].after >= j
          /\ \A k \in j + 1 .. Len(sideTo) : sideTo[k].buffer = b => sideTo[k].after >= i
    BY <1>7
  <2>2. PICK m \in 1 .. i : compute[m].after >= j
    BY <2>1
  <2>3. CASE j = 1
    <3>1. device'[b] = l
      BY <1>1, <2>1, <2>3 DEF PoolTyped
    <3>2. \A k \in 1 .. Len(sideTo') : sideTo'[k].buffer = b => sideTo'[k].after >= i
      <4>1. \A k \in 2 .. Len(sideTo) : sideTo[k].buffer = b => sideTo[k].after >= i
        BY <2>1, <2>3
      <4>2. \A k \in 1 .. Len(sideTo') : k + 1 \in 2 .. Len(sideTo)
        BY <1>1, <1>2
      <4>3. \A k \in 1 .. Len(sideTo') : sideTo'[k] = sideTo[k + 1]
        BY <1>1
      <4> QED BY <4>1, <4>2, <4>3
    <3> QED BY <1>4, <1>5, <3>1, <3>2 DEF KernelIsFed
  <2>4. CASE j > 1
    <3>1. j - 1 \in 1 .. Len(sideTo') /\ sideTo'[j - 1] = sideTo[j] /\ stream'[j - 1] = stream[j]
      <4>1. j - 1 \in 1 .. Len(sideTo') /\ (j - 1) + 1 = j
        BY <1>1, <1>2, <2>4
      <4> QED BY <1>1, <4>1
    <3>2. compute'[m].after >= j - 1
      <4>1. m \in 1 .. Len(compute) /\ compute[m].after \in Nat
        BY <1>2, <1>3
      <4> QED BY <1>1, <2>2, <2>4, <4>1 DEF Nearer
    <3>3. \A k \in (j - 1) + 1 .. Len(sideTo') :
            sideTo'[k].buffer = b => sideTo'[k].after >= i
      BY <1>1, <1>2, <2>1, <2>4
    <3> QED BY <1>4, <1>5, <2>1, <3>1, <3>2, <3>3 DEF KernelIsFed
  <2> QED BY <2>3, <2>4
<1> QED BY <1>3, <1>4, <1>6, <1>7 DEF KernelIsFed

\* The first kernel leaves: the copies that waited for others are one kernel nearer.
LEMMA KernelFeedsTheRest ==
  ASSUME PoolTyped, KernelsAreFed, KernelExecutes
  PROVE  KernelsAreFed'
<1> SUFFICES ASSUME NEW i \in 1 .. Len(compute') PROVE KernelIsFed(i)'
  BY DEF KernelsAreFed
<1>1. /\ 1 \in 1 .. Len(compute) /\ compute[1].after = 0
      /\ Len(compute') = Len(compute) - 1
      /\ \A n \in 1 .. Len(compute') : /\ n + 1 \in 1 .. Len(compute)
                                       /\ compute'[n] = compute[n + 1]
      /\ Len(sideTo') = Len(sideTo)
      /\ \A k \in 1 .. Len(sideTo) :
           sideTo'[k].buffer = sideTo[k].buffer /\ sideTo'[k].after = Nearer(sideTo[k].after)
      /\ UNCHANGED <<device, stream>>
  BY KernelExecutesAs
<1>2. /\ Len(sideTo) \in Nat /\ Len(compute) \in Nat
      /\ \A k \in 1 .. Len(sideTo) : sideTo[k].buffer \in Buffer /\ sideTo[k].after \in Nat
      /\ \A n \in 1 .. Len(compute) : /\ compute[n].layer \in Layer /\ compute[n].after \in Nat
                                      /\ BufferOf(compute[n].layer) \in Buffer
  BY QueueTypes
<1>3. i + 1 \in 1 .. Len(compute) /\ KernelIsFed(i + 1)
  BY <1>1 DEF KernelsAreFed
<1>4. PICK l \in Layer, b \in Buffer : l = compute[i + 1].layer /\ b = BufferOf(l)
  BY <1>2, <1>3
<1>5. compute'[i].layer = l
  BY <1>1, <1>4
<1>6. \A k \in 1 .. Len(sideTo) :
        (sideTo[k].buffer = b => sideTo[k].after >= i + 1) =>
        (sideTo'[k].buffer = b => sideTo'[k].after >= i)
  <2>1. \A a \in Nat : a >= i + 1 => Nearer(a) >= i
    BY <1>1, <1>2 DEF Nearer
  <2> QED BY <1>1, <1>2, <2>1
<1>7. CASE /\ device[b] = l
           /\ \A k \in 1 .. Len(sideTo) : sideTo[k].buffer = b => sideTo[k].after >= i + 1
  BY <1>1, <1>4, <1>5, <1>6, <1>7 DEF KernelIsFed
<1>8. CASE \E j \in 1 .. Len(sideTo) :
             /\ sideTo[j].buffer = b /\ stream[j].layer = l
             /\ \E m \in 1 .. i + 1 : compute[m].after >= j
             /\ \A k \in j + 1 .. Len(sideTo) : sideTo[k].buffer = b => sideTo[k].after >= i + 1
  <2>1. PICK j \in 1 .. Len(sideTo) :
          /\ sideTo[j].buffer = b /\ stream[j].layer = l
          /\ \E m \in 1 .. i + 1 : compute[m].after >= j
          /\ \A k \in j + 1 .. Len(sideTo) : sideTo[k].buffer = b => sideTo[k].after >= i + 1
    BY <1>8
  <2>2. PICK m \in 1 .. i + 1 : compute[m].after >= j
    BY <2>1
  <2>3. m # 1
    BY <1>1, <2>2
  <2>4. m - 1 \in 1 .. i /\ m - 1 \in 1 .. Len(compute') /\ (m - 1) + 1 = m
    BY <1>1, <1>2, <1>3, <2>3
  <2>5. compute'[m - 1].after >= j
    BY <1>1, <2>2, <2>4
  <2>6. \A k \in j + 1 .. Len(sideTo') : sideTo'[k].buffer = b => sideTo'[k].after >= i
    BY <1>1, <1>2, <1>6, <2>1
  <2> QED BY <1>1, <1>4, <1>5, <2>1, <2>4, <2>5, <2>6 DEF KernelIsFed
<1> QED BY <1>3, <1>4, <1>7, <1>8 DEF KernelIsFed

\* A copy is enqueued behind every kernel that is still to read its buffer.
LEMMA CopyFeedsKernels ==
  ASSUME SafetyInv, PoolTyped, BuffersSettle, KernelsAreFed, LoadCopies
  PROVE  /\ KernelsAreFed' /\ BuffersSettle'
         /\ Len(sideTo') = Len(sideTo) + 1
         /\ \A k \in 1 .. Len(sideTo) : sideTo'[k] = sideTo[k]
         /\ sideTo'[Len(sideTo) + 1].buffer = BufferOf(loan.layer)
<1>1. loan.layer \in Layer /\ loan \in Loan
  BY DEF LoadCopies, SafetyInv, TypeInv, TypeOK, Loan
<1>2. PICK b \in Buffer, l \in Layer : b = BufferOf(loan.layer) /\ l = loan.layer
  BY <1>1, BufferIsBuffer
<1>3. PICK n \in Nat : n = Len(sideTo) /\ n = Len(stream)
  BY QueueTypes DEF BuffersSettle
<1>4. PICK c \in Nat : c = Len(compute)
  BY QueueTypes
<1>5. /\ stream' = Append(stream, loan)
      /\ sideTo' = Append(sideTo, [buffer |-> b, after |-> c])
      /\ event' = [event EXCEPT ![b] = Len(stream')]
      /\ copied' /\ ~copied
      /\ UNCHANGED <<device, owner, compute, loan>>
  BY <1>2, <1>4 DEF LoadCopies, EnqueueCopy, KernelsAhead, consumerVars
<1>6. [buffer |-> b, after |-> c] \in [buffer : Buffer, after : Nat]
  OBVIOUS
<1>7. /\ Len(sideTo') = n + 1 /\ Len(stream') = n + 1
      /\ \A k \in 1 .. n : sideTo'[k] = sideTo[k] /\ stream'[k] = stream[k]
      /\ sideTo'[n + 1] = [buffer |-> b, after |-> c] /\ stream'[n + 1] = loan
  <2>1. sideTo \in Seq([buffer : Buffer, after : Nat]) /\ stream \in Seq(Loan)
    BY DEF PoolTyped, SafetyInv, TypeInv, TypeOK
  <2>2. PICK r \in [buffer : Buffer, after : Nat] : r = [buffer |-> b, after |-> c]
    BY <1>6
  <2>3. /\ Len(Append(sideTo, r)) = Len(sideTo) + 1
        /\ \A k \in 1 .. Len(sideTo) : Append(sideTo, r)[k] = sideTo[k]
        /\ Append(sideTo, r)[Len(sideTo) + 1] = r
    BY <2>1, AppendProperties
  <2>4. /\ Len(Append(stream, loan)) = Len(stream) + 1
        /\ \A k \in 1 .. Len(stream) : Append(stream, loan)[k] = stream[k]
        /\ Append(stream, loan)[Len(stream) + 1] = loan
    BY <1>1, <2>1, AppendProperties
  <2> QED BY <1>3, <1>5, <2>2, <2>3, <2>4
<1>8. sideTo'[n + 1].buffer = b /\ sideTo'[n + 1].after = c /\ stream'[n + 1].layer = l
  BY <1>2, <1>7
<1>9. event'[b] = n + 1 /\ \A d \in Buffer : d # b => event'[d] = event[d]
  BY <1>5, <1>7 DEF PoolTyped
<1>10. <<b, l>> \in Settled'
  <2>1. \A k \in (n + 1) + 1 .. Len(sideTo') : sideTo'[k].buffer # b
    BY <1>7
  <2>2. n + 1 \in 1 .. Len(sideTo')
    BY <1>7
  <2> QED BY <1>8, <1>9, <2>1, <2>2 DEF Settled
<1>11. ASSUME NEW d \in Buffer, d # b, NEW m \in Layer, <<d, m>> \in Settled
       PROVE  <<d, m>> \in Settled'
  <2>1. \A k \in 1 .. Len(sideTo') : k \in 1 .. n \/ (k = n + 1 /\ sideTo'[k].buffer # d)
    BY <1>7, <1>8, <1>11
  <2>2. CASE device[d] = m /\ \A k \in 1 .. Len(sideTo) : sideTo[k].buffer # d
    BY <1>3, <1>5, <1>7, <2>1, <2>2 DEF Settled
  <2>3. CASE \E j \in 1 .. Len(sideTo) :
               /\ sideTo[j].buffer = d /\ stream[j].layer = m /\ event[d] >= j
               /\ \A k \in j + 1 .. Len(sideTo) : sideTo[k].buffer # d
    <3>1. PICK j \in 1 .. n :
               /\ sideTo[j].buffer = d /\ stream[j].layer = m /\ event[d] >= j
               /\ \A k \in j + 1 .. n : sideTo[k].buffer # d
      BY <1>3, <2>3
    <3>2. \A k \in j + 1 .. Len(sideTo') : sideTo'[k].buffer # d
      BY <1>7, <1>8, <1>11, <3>1
    <3>3. j \in 1 .. Len(sideTo') /\ sideTo'[j].buffer = d /\ stream'[j].layer = m
            /\ event'[d] >= j
      BY <1>7, <1>9, <1>11, <3>1
    <3> QED BY <3>2, <3>3 DEF Settled
  <2> QED BY <1>11, <2>2, <2>3 DEF Settled
<1>12. BuffersSettle'
  <2>1. ASSUME NEW d \in Buffer, owner'[d] # NoLayer, d # b
        PROVE  <<d, owner'[d]>> \in Settled'
    <3>1. PICK m \in Layer : m = owner[d] /\ m = owner'[d]
      BY <1>5, <2>1 DEF PoolTyped
    <3>2. <<d, m>> \in Settled
      BY <1>5, <2>1, <3>1 DEF BuffersSettle
    <3> QED BY <1>11, <2>1, <3>1, <3>2
  <2>2. <<BufferOf(loan'.layer), loan'.layer>> \in Settled'
    BY <1>2, <1>5, <1>10
  <2> QED BY <1>2, <1>5, <1>7, <2>1, <2>2 DEF BuffersSettle
<1>13. ASSUME NEW i \in 1 .. c
       PROVE  KernelIsFed(i)'
  <2>1. KernelIsFed(i) /\ compute' = compute
    BY <1>4, <1>5 DEF KernelsAreFed
  <2>2. PICK q \in Layer, d \in Buffer : q = compute[i].layer /\ d = BufferOf(q)
    BY <1>4, QueueTypes
  <2>3. CASE /\ device[d] = q
             /\ \A k \in 1 .. Len(sideTo) : sideTo[k].buffer = d => sideTo[k].after >= i
    <3>1. \A k \in 1 .. Len(sideTo') : sideTo'[k].buffer = d => sideTo'[k].after >= i
      <4>1. \A k \in 1 .. Len(sideTo') : k \in 1 .. n \/ k = n + 1
        BY <1>7
      <4> QED BY <1>3, <1>7, <1>8, <2>3, <4>1
    <3> QED BY <1>5, <2>1, <2>2, <2>3, <3>1 DEF KernelIsFed
  <2>4. CASE \E j \in 1 .. Len(sideTo) :
             /\ sideTo[j].buffer = d /\ stream[j].layer = q
             /\ \E m \in 1 .. i : compute[m].after >= j
             /\ \A k \in j + 1 .. Len(sideTo) : sideTo[k].buffer = d => sideTo[k].after >= i
    <3>1. PICK j \in 1 .. n :
             /\ sideTo[j].buffer = d /\ stream[j].layer = q
             /\ \E m \in 1 .. i : compute[m].after >= j
             /\ \A k \in j + 1 .. n : sideTo[k].buffer = d => sideTo[k].after >= i
      BY <1>3, <2>4
    <3>2. \A k \in j + 1 .. Len(sideTo') : sideTo'[k].buffer = d => sideTo'[k].after >= i
      <4>1. \A k \in j + 1 .. Len(sideTo') : k \in j + 1 .. n \/ k = n + 1
        BY <1>7
      <4>2. \A k \in j + 1 .. n : k \in 1 .. n
        BY <3>1
      <4> QED BY <1>7, <1>8, <3>1, <4>1, <4>2
    <3>3. j \in 1 .. Len(sideTo') /\ sideTo'[j].buffer = d /\ stream'[j].layer = q
      BY <1>7, <3>1
    <3> QED BY <2>1, <2>2, <3>1, <3>2, <3>3 DEF KernelIsFed
  <2> QED BY <2>1, <2>2, <2>3, <2>4 DEF KernelIsFed
<1>14. KernelsAreFed'
  BY <1>4, <1>5, <1>13 DEF KernelsAreFed
<1> QED BY <1>2, <1>3, <1>7, <1>8, <1>12, <1>14

\* A kernel more, which finds its buffer settled and waits for its event.
LEMMA NewKernelIsFed ==
  ASSUME PoolTyped, BuffersSettle, KernelsAreFed, UNCHANGED <<device, sideTo, stream>>,
         NEW r \in [layer : Layer, after : Nat], compute' = Append(compute, r),
         \/ <<BufferOf(r.layer), r.layer>> \in Settled /\ r.after = event[BufferOf(r.layer)]
         \/ /\ <<BufferOf(r.layer), r.layer>> \in Settled
            /\ \A j \in 1 .. Len(sideTo) : sideTo[j].buffer = BufferOf(r.layer) =>
                 \E m \in 1 .. Len(compute) : compute[m].after >= j
  PROVE  /\ KernelsAreFed'
         /\ Len(compute') = Len(compute) + 1
         /\ \A i \in 1 .. Len(compute) : compute'[i] = compute[i]
         /\ compute'[Len(compute) + 1] = r
<1>1. PICK c \in Nat : c = Len(compute)
  BY QueueTypes
<1>2. /\ Len(compute') = c + 1
      /\ \A i \in 1 .. c : compute'[i] = compute[i]
      /\ compute'[c + 1] = r
  <2>1. compute \in Seq([layer : Layer, after : Nat])
    BY DEF PoolTyped
  <2> QED BY <1>1, <2>1, AppendProperties
<1>3. PICK l \in Layer, b \in Buffer : l = r.layer /\ b = BufferOf(l)
  BY BufferIsBuffer
<1>4. ASSUME NEW i \in 1 .. c
      PROVE  KernelIsFed(i)'
  <2>1. KernelIsFed(i)
    BY <1>1 DEF KernelsAreFed
  <2>2. compute'[i] = compute[i] /\ \A m \in 1 .. i : compute'[m] = compute[m]
    BY <1>2
  <2>3. \A j : (\E m \in 1 .. i : compute[m].after >= j)
                => \E m \in 1 .. i : compute'[m].after >= j
    BY <2>2
  <2>4. PICK l2 \in Layer, b2 \in Buffer : l2 = compute[i].layer /\ b2 = BufferOf(l2)
    BY <1>1, QueueTypes
  <2>5. CASE /\ device[b2] = l2
             /\ \A k \in 1 .. Len(sideTo) : sideTo[k].buffer = b2 => sideTo[k].after >= i
    BY <2>2, <2>4, <2>5 DEF KernelIsFed
  <2>6. CASE \E j \in 1 .. Len(sideTo) :
             /\ sideTo[j].buffer = b2 /\ stream[j].layer = l2
             /\ \E m \in 1 .. i : compute[m].after >= j
             /\ \A k \in j + 1 .. Len(sideTo) : sideTo[k].buffer = b2 => sideTo[k].after >= i
    <3>1. PICK j \in 1 .. Len(sideTo) :
             /\ sideTo[j].buffer = b2 /\ stream[j].layer = l2
             /\ \E m \in 1 .. i : compute[m].after >= j
             /\ \A k \in j + 1 .. Len(sideTo) : sideTo[k].buffer = b2 => sideTo[k].after >= i
      BY <2>6
    <3>2. \E m \in 1 .. i : compute'[m].after >= j
      BY <2>3, <3>1
    <3>3. /\ j \in 1 .. Len(sideTo')
          /\ sideTo'[j].buffer = b2 /\ stream'[j].layer = l2
          /\ \A k \in j + 1 .. Len(sideTo') : sideTo'[k].buffer = b2 => sideTo'[k].after >= i
      BY <3>1
    <3>4. compute'[i].layer = l2
      BY <2>2, <2>4
    <3>5. b2 = BufferOf(compute'[i].layer)
      BY <2>4, <3>4
    <3>6. \E n \in 1 .. Len(sideTo') :
            /\ sideTo'[n].buffer = BufferOf(compute'[i].layer)
            /\ stream'[n].layer = compute'[i].layer
            /\ \E m \in 1 .. i : compute'[m].after >= n
            /\ \A k \in n + 1 .. Len(sideTo') :
                 sideTo'[k].buffer = BufferOf(compute'[i].layer) => sideTo'[k].after >= i
      BY <3>2, <3>3, <3>4, <3>5
    <3> HIDE <3>2, <3>3, <3>4, <3>5
    <3> QED BY <3>6 DEF KernelIsFed
  <2> QED BY <2>1, <2>4, <2>5, <2>6 DEF KernelIsFed
<1>5. KernelIsFed(c + 1)'
  <2>1. CASE device[b] = l /\ \A k \in 1 .. Len(sideTo) : sideTo[k].buffer # b
    BY <1>2, <1>3, <2>1 DEF KernelIsFed
  <2>2. CASE \E j \in 1 .. Len(sideTo) :
               /\ sideTo[j].buffer = b /\ stream[j].layer = l /\ event[b] >= j
               /\ \A k \in j + 1 .. Len(sideTo) : sideTo[k].buffer # b
    <3>1. PICK j \in 1 .. Len(sideTo) :
               /\ sideTo[j].buffer = b /\ stream[j].layer = l /\ event[b] >= j
               /\ \A k \in j + 1 .. Len(sideTo) : sideTo[k].buffer # b
      BY <2>2
    <3>2. \E m \in 1 .. c + 1 : compute'[m].after >= j
      <4>1. CASE r.after = event[b]
        <5>1. c + 1 \in 1 .. c + 1 /\ compute'[c + 1].after >= j
          BY <1>2, <3>1, <4>1
        <5> QED BY <5>1
      <4>2. CASE \E m \in 1 .. c : compute[m].after >= j
        <5>1. PICK m \in 1 .. c : compute[m].after >= j
          BY <4>2
        <5>2. m \in 1 .. c + 1 /\ compute'[m].after >= j
          BY <1>2, <5>1
        <5> QED BY <5>2
      <4> QED BY <1>1, <1>3, <3>1, <4>1, <4>2
    <3>3. compute'[c + 1].layer = l /\ b = BufferOf(l)
      BY <1>2, <1>3
    <3>4. /\ j \in 1 .. Len(sideTo')
          /\ sideTo'[j].buffer = b /\ stream'[j].layer = l
          /\ \A k \in j + 1 .. Len(sideTo') : sideTo'[k].buffer = b => sideTo'[k].after >= c + 1
      BY <3>1
    <3>5. \E n \in 1 .. Len(sideTo') :
            /\ sideTo'[n].buffer = BufferOf(compute'[c + 1].layer)
            /\ stream'[n].layer = compute'[c + 1].layer
            /\ \E m \in 1 .. c + 1 : compute'[m].after >= n
            /\ \A k \in n + 1 .. Len(sideTo') :
                 sideTo'[k].buffer = BufferOf(compute'[c + 1].layer) => sideTo'[k].after >= c + 1
      BY <3>2, <3>3, <3>4
    <3> HIDE <3>2, <3>3, <3>4
    <3> QED BY <3>5 DEF KernelIsFed
  <2>3. <<b, l>> \in Settled
    BY <1>3
  <2>4. \/ device[b] = l /\ \A k \in 1 .. Len(sideTo) : sideTo[k].buffer # b
        \/ \E j \in 1 .. Len(sideTo) :
             /\ sideTo[j].buffer = b /\ stream[j].layer = l /\ event[b] >= j
             /\ \A k \in j + 1 .. Len(sideTo) : sideTo[k].buffer # b
    BY <2>3 DEF Settled
  <2> QED BY <2>1, <2>2, <2>4
<1>6. \A i \in 1 .. Len(compute') : i \in 1 .. c \/ i = c + 1
  BY <1>2
<1>7. KernelsAreFed'
  BY <1>4, <1>5, <1>6 DEF KernelsAreFed
<1> QED BY <1>1, <1>2, <1>7

\* The buffers of a step that copies nothing.
LEMMA BuffersStay ==
  ASSUME BuffersSettle, UNCHANGED <<device, owner, event, sideTo, stream, copied>>,
         copied => loan' = loan
  PROVE  BuffersSettle'
<1>1. Settled' = Settled
  BY DEF Settled
<1> QED BY <1>1 DEF BuffersSettle

\* A load ends: the buffer belongs to the layer that was copied into it.
LEMMA ReleaseSettles ==
  ASSUME LoadsAreLayers, SafetyInv, PoolTyped, LoadsInv, BuffersSettle, LoadReleases
  PROVE  BuffersSettle'
<1>1. /\ loan.layer \in Layer /\ copied /\ ~copied'
      /\ owner' = [owner EXCEPT ![BufferOf(loan.layer)] = loan.layer]
      /\ UNCHANGED <<device, event, sideTo, stream>>
  BY DEF LoadReleases, Release, SafetyInv, TypeInv, TypeOK, Loan
<1>2. PICK b \in Buffer, l \in Layer : b = BufferOf(loan.layer) /\ l = loan.layer
  BY <1>1, BufferIsBuffer
<1>3. Settled' = Settled
  BY <1>1 DEF Settled
<1>4. <<b, l>> \in Settled
  BY <1>1, <1>2 DEF BuffersSettle
<1>5. ASSUME NEW d \in Buffer, owner'[d] # NoLayer
      PROVE  <<d, owner'[d]>> \in Settled
  <2>1. CASE d = b
    BY <1>1, <1>2, <1>4, <2>1 DEF PoolTyped
  <2>2. CASE d # b
    <3>1. owner'[d] = owner[d]
      BY <1>1, <1>2, <2>2 DEF PoolTyped
    <3> QED BY <1>2, <1>5, <2>2, <3>1 DEF BuffersSettle
  <2> QED BY <2>1, <2>2
<1>6. Len(sideTo') = Len(stream')
  BY <1>1 DEF BuffersSettle
<1> QED BY <1>1, <1>3, <1>5, <1>6 DEF BuffersSettle

\* The side stream makes its oldest copy.
LEMMA SideSettles ==
  ASSUME SafetyInv, PoolTyped, BuffersSettle, SideExecutes
  PROVE  BuffersSettle'
<1>1. /\ 1 \in 1 .. Len(sideTo) /\ sideTo[1].buffer \in Buffer
      /\ device' = [device EXCEPT ![sideTo[1].buffer] = stream[1].layer]
      /\ Len(sideTo') = Len(sideTo) - 1 /\ Len(stream') = Len(sideTo')
      /\ \A k \in 1 .. Len(sideTo') : /\ k + 1 \in 1 .. Len(sideTo)
                                      /\ sideTo'[k] = sideTo[k + 1]
                                      /\ stream'[k] = stream[k + 1]
      /\ \A b \in Buffer : event'[b] = Nearer(event[b])
      /\ UNCHANGED <<owner, copied, loan>>
  BY SideExecutesAs DEF BuffersSettle, runVars
<1>2. Len(sideTo) \in Nat
  BY QueueTypes
<1>3. ASSUME NEW b \in Buffer, NEW l \in Layer, <<b, l>> \in Settled
      PROVE  <<b, l>> \in Settled'
  <2>1. CASE device[b] = l /\ \A k \in 1 .. Len(sideTo) : sideTo[k].buffer # b
    <3>1. device'[b] = l
      BY <1>1, <2>1 DEF PoolTyped
    <3>2. \A k \in 1 .. Len(sideTo') : sideTo'[k].buffer # b
      BY <1>1, <2>1
    <3> QED BY <3>1, <3>2 DEF Settled
  <2>2. CASE \E j \in 1 .. Len(sideTo) :
               /\ sideTo[j].buffer = b /\ stream[j].layer = l /\ event[b] >= j
               /\ \A k \in j + 1 .. Len(sideTo) : sideTo[k].buffer # b
    <3>1. PICK j \in 1 .. Len(sideTo) :
               /\ sideTo[j].buffer = b /\ stream[j].layer = l /\ event[b] >= j
               /\ \A k \in j + 1 .. Len(sideTo) : sideTo[k].buffer # b
      BY <2>2
    <3>2. \A k \in 1 .. Len(sideTo') : k >= j => sideTo'[k].buffer # b
      BY <1>1, <1>2, <3>1
    <3>3. CASE j = 1
      <4>1. device'[b] = l
        BY <1>1, <3>1, <3>3 DEF PoolTyped
      <4> QED BY <3>2, <3>3, <4>1 DEF Settled
    <3>4. CASE j > 1
      <4>1. j - 1 \in 1 .. Len(sideTo') /\ (j - 1) + 1 = j
        BY <1>1, <1>2, <3>4
      <4>2. sideTo'[j - 1].buffer = b /\ stream'[j - 1].layer = l
        BY <1>1, <3>1, <4>1
      <4>3. event'[b] >= j - 1
        <5>1. event[b] \in Nat /\ event'[b] = Nearer(event[b])
          BY <1>1 DEF PoolTyped
        <5> QED BY <3>1, <3>4, <5>1 DEF Nearer
      <4>4. \A k \in (j - 1) + 1 .. Len(sideTo') : sideTo'[k].buffer # b
        BY <3>2, <4>1
      <4> QED BY <4>1, <4>2, <4>3, <4>4 DEF Settled
    <3> QED BY <3>3, <3>4
  <2> QED BY <1>3, <2>1, <2>2 DEF Settled
<1>4. Settled \subseteq Settled'
  BY <1>3, SettledPairs
<1> QED BY <1>1, <1>4 DEF BuffersSettle

\* The compute stream runs its oldest kernel.
LEMMA KernelLeavesSettled ==
  ASSUME PoolTyped, BuffersSettle, KernelExecutes
  PROVE  BuffersSettle'
<1>1. /\ Len(sideTo') = Len(sideTo)
      /\ \A k \in 1 .. Len(sideTo) : sideTo'[k].buffer = sideTo[k].buffer
      /\ UNCHANGED <<device, owner, event, copied, loan, stream>>
  BY KernelExecutesAs DEF runVars
<1>2. Len(sideTo) \in Nat
  BY QueueTypes
<1>3. ASSUME NEW b \in Buffer, NEW l \in Layer, <<b, l>> \in Settled
      PROVE  <<b, l>> \in Settled'
  <2>1. CASE device[b] = l /\ \A k \in 1 .. Len(sideTo) : sideTo[k].buffer # b
    BY <1>1, <2>1 DEF Settled
  <2>2. CASE \E j \in 1 .. Len(sideTo) :
               /\ sideTo[j].buffer = b /\ stream[j].layer = l /\ event[b] >= j
               /\ \A k \in j + 1 .. Len(sideTo) : sideTo[k].buffer # b
    <3>1. PICK j \in 1 .. Len(sideTo) :
               /\ sideTo[j].buffer = b /\ stream[j].layer = l /\ event[b] >= j
               /\ \A k \in j + 1 .. Len(sideTo) : sideTo[k].buffer # b
      BY <2>2
    <3>2. \A k \in j + 1 .. Len(sideTo') : sideTo'[k].buffer # b
      BY <1>1, <1>2, <3>1
    <3> QED BY <1>1, <3>1, <3>2 DEF Settled
  <2> QED BY <1>3, <2>1, <2>2 DEF Settled
<1>4. Settled \subseteq Settled'
  BY <1>3, SettledPairs
<1> QED BY <1>1, <1>4 DEF BuffersSettle

\* With no load under way, a layer in its buffer is settled there.
LEMMA OwnedIsSettled ==
  ASSUME PoolTyped, LoadsInv, BuffersSettle, loads = <<>>, NEW l \in Layer,
         owner[BufferOf(l)] = l
  PROVE  <<BufferOf(l), l>> \in Settled
<1>1. ~copied
  BY DEF LoadsInv, LoadsInTurn
<1>2. BufferOf(l) \in Buffer /\ l # NoLayer
  BY BufferIsBuffer, SourceAssumption DEF Layer, NoLayer
<1> QED BY <1>1, <1>2 DEF BuffersSettle

\* Every step leaves the buffers settled.
LEMMA BuffersKeepSettled ==
  ASSUME LoadsAreLayers, SafetyInv, OneLoadAtATime, PoolTyped, LoadsInv, BuffersSettle,
         KernelsAreFed, [LSNext]_streamVars
  PROVE  BuffersSettle'
<1>1. copied => loan # NoLoan
  BY DEF LoadsInv, LoadsInTurn
<1>2. CASE SourceStep
  <2>1. /\ UNCHANGED <<device, owner, event, sideTo, stream, copied>>
        /\ getter = "idle" => loan' = loan
        /\ getter # "idle" => loan = NoLoan
    BY <1>2, SourceStepAs
  <2> QED BY <1>1, <2>1, BuffersStay
<1>3. CASE LoadAsks
  <2>1. UNCHANGED <<device, owner, event, sideTo, stream, copied>> /\ loan = NoLoan
    BY <1>3 DEF LoadAsks, Ask, poolVars, runVars
  <2> QED BY <1>1, <2>1, BuffersStay
<1>4. CASE LoadCopies
  BY <1>4, CopyFeedsKernels
<1>5. CASE LoadReleases
  BY <1>5, ReleaseSettles
<1>6. CASE SideExecutes
  BY <1>6, SideSettles
<1>7. CASE KernelExecutes
  BY <1>7, KernelLeavesSettled
<1>8. CASE LoadFails \/ LayerWaits \/ Advances \/ LayerComputes \/ BeginForward \/ BeginBackward
           \/ RuntimeCloses \/ UNCHANGED streamVars
  <2>1. UNCHANGED <<device, owner, event, sideTo, stream, copied, loan>>
    BY <1>8 DEF LoadFails, LayerWaits, Advances, LayerComputes, BeginForward, BeginBackward,
         RuntimeCloses, CloseBegins, CloseEnds, streamVars, vars, consumerVars, poolVars, runVars
  <2> QED BY <2>1, BuffersStay
<1> QED BY <1>2, <1>3, <1>4, <1>5, <1>6, <1>7, <1>8 DEF LSNext, HostStep, PassStep

\* The output weight goes to the large slot.
LEMMA VocabularyIsLarge ==
  /\ OutHead \in Layer /\ BufferOf(OutHead) = Large /\ Large \in Buffer
BY DecoderLayersAreLayers, BufferIsBuffer, SourceAssumption, StreamAssumption
   DEF Decoder, Large, Buffer

\* Every step leaves each kernel a reason to find its layer.
LEMMA KernelsKeepFed ==
  ASSUME LoadsAreLayers, SafetyInv, OneLoadAtATime, PoolTyped, HostTyped, LoadsInv,
         WalkIsOnCourse, DeviceInv, [LSNext]_streamVars
  PROVE  KernelsAreFed'
<1> USE DEF DeviceInv
<1>1. CASE UNCHANGED <<device, sideTo, stream, compute>>
  BY <1>1 DEF KernelsAreFed, KernelIsFed
<1>2. CASE LoadCopies
  BY <1>2, CopyFeedsKernels
<1>3. CASE SideExecutes
  BY <1>3, SideFeedsKernels
<1>4. CASE KernelExecutes
  BY <1>4, KernelFeedsTheRest
<1>5. CASE LayerComputes
  <2>1. /\ pass # "rest" /\ loads = <<>> /\ stop \in Stop
        /\ UNCHANGED <<device, sideTo, stream>>
        /\ compute' = Append(compute, Kernel(LayerAt(stop)))
    BY <1>5 DEF LayerComputes, HostFree, HostTyped, WalkTyped, vars
  <2>2. PICK l \in Layer : l = LayerAt(stop) /\ owner[BufferOf(l)] = l
    BY <2>1, HereIsComing, ComingIsThere
  <2>3. event[BufferOf(l)] \in Nat
    BY BufferIsBuffer DEF PoolTyped
  <2>4. <<BufferOf(l), l>> \in Settled
    BY <2>1, <2>2, OwnedIsSettled
  <2>5. PICK r \in [layer : Layer, after : Nat] :
          r = Kernel(l) /\ r.layer = l /\ r.after = event[BufferOf(l)]
    <3>1. Kernel(l) \in [layer : Layer, after : Nat]
      BY <2>3 DEF Kernel
    <3>2. Kernel(l).layer = l /\ Kernel(l).after = event[BufferOf(l)]
      BY DEF Kernel
    <3> QED BY <3>1, <3>2
  <2> QED BY <2>1, <2>2, <2>4, <2>5, NewKernelIsFed
<1>6. CASE BeginBackward
  <2>1. UNCHANGED <<device, sideTo, stream>> /\ graph /\ loads = <<>>
    BY <1>6 DEF BeginBackward, HostFree, vars
  <2>2. CASE NeedsPrivateWeight
    <3>1. compute' = compute
      BY <1>6, <2>2 DEF BeginBackward
    <3> QED BY <1>1, <2>1, <3>1
  <2>3. CASE ~NeedsPrivateWeight
    <3>1. compute' = Append(compute, [layer |-> OutHead, after |-> 0])
      BY <1>6, <2>3 DEF BeginBackward
    <3>2. PICK r \in [layer : Layer, after : Nat] :
            r = [layer |-> OutHead, after |-> 0] /\ r.layer = OutHead
      <4>1. [layer |-> OutHead, after |-> 0] \in [layer : Layer, after : Nat]
        BY VocabularyIsLarge
      <4> QED BY <4>1
    <3>3. /\ owner[Large] = OutHead
          /\ \A j \in 1 .. Len(sideTo) :
               sideTo[j].buffer = Large => \E m \in 1 .. Len(compute) : compute[m].after >= j
      BY <2>1, <2>3 DEF ViewIsKept
    <3>4. <<Large, OutHead>> \in Settled
      BY <2>1, <3>3, OwnedIsSettled, VocabularyIsLarge
    <3> QED BY <2>1, <3>1, <3>2, <3>3, <3>4, NewKernelIsFed, VocabularyIsLarge
  <2> QED BY <2>2, <2>3
<1>7. CASE SourceStep
  BY <1>1, <1>7, SourceStepAs
<1>8. CASE LoadAsks \/ LoadFails \/ LoadReleases \/ LayerWaits \/ Advances \/ BeginForward
           \/ RuntimeCloses \/ UNCHANGED streamVars
  <2>1. UNCHANGED <<device, sideTo, stream, compute>>
    BY <1>8 DEF LoadAsks, Ask, LoadFails, LoadReleases, Release, LayerWaits, Advances,
         BeginForward, RuntimeCloses, CloseBegins, CloseEnds, streamVars, vars, poolVars
  <2> QED BY <1>1, <2>1
<1> QED BY <1>2, <1>3, <1>4, <1>5, <1>6, <1>7, <1>8 DEF LSNext, HostStep, PassStep

\* A view of the weight is kept through every step, the second forward of a
\* preference loss included.
LEMMA ViewStays ==
  ASSUME LoadsAreLayers, SafetyInv, OneLoadAtATime, PoolTyped, HostTyped, LoadsInv, LoadsInv',
         WalkIsOnCourse, DeviceInv, [LSNext]_streamVars
  PROVE  ViewIsKept'
<1> USE DEF DeviceInv
<1>1. CASE UNCHANGED <<graph, pass, refilled, owner, loads, sideTo, compute>>
  BY <1>1 DEF ViewIsKept, Refills
<1> SUFFICES ASSUME graph', ~NeedsPrivateWeight PROVE ViewIsKept'
  BY DEF ViewIsKept, NeedsPrivateWeight
<1>2. RefillBeforeBackward => Embed = OutHead
  BY DEF NeedsPrivateWeight
<1>3. /\ Len(sideTo) \in Nat /\ Len(compute) \in Nat
      /\ \A i \in 1 .. Len(compute) : compute[i].after \in Nat
  BY QueueTypes
<1>5. CASE LoadCopies
  <2>1. /\ UNCHANGED <<graph, pass, owner, loads, compute>>
        /\ refilled' = (refilled \/ BufferOf(loan.layer) = Large)
        /\ loads # <<>> /\ loan.layer = Head(loads)
        /\ Len(sideTo') = Len(sideTo) + 1
        /\ \A k \in 1 .. Len(sideTo) : sideTo'[k] = sideTo[k]
        /\ sideTo'[Len(sideTo) + 1].buffer = BufferOf(loan.layer)
    BY <1>5, CopyFeedsKernels DEF LoadCopies, LoadsInv, LoadsInTurn, walkVars
  <2>2. 1 \in 1 .. Len(loads) /\ Head(loads) = loads[1]
    BY <2>1 DEF LoadsAreLayers
  <2>3. BufferOf(loan.layer) # Large
    BY <2>1, <2>2 DEF ViewIsKept, Refills
  <2>4. \A j \in 1 .. Len(sideTo') : sideTo'[j].buffer = Large =>
          j \in 1 .. Len(sideTo) /\ sideTo[j].buffer = Large
    BY <1>3, <2>1, <2>3
  <2> QED BY <2>1, <2>3, <2>4 DEF ViewIsKept, Refills
<1>6. CASE LoadReleases
  <2>1. /\ loads # <<>>
        /\ owner' = [owner EXCEPT ![BufferOf(loads[1])] = loads[1]]
        /\ \A b \in Buffer : Refills(b)' => Refills(b)
        /\ UNCHANGED <<graph, pass, refilled, sideTo, compute>>
    BY <1>6, ReleaseBringsTheLayer DEF LoadReleases, LoadsInv, walkVars
  <2>2. 1 \in 1 .. Len(loads)
    BY <2>1 DEF LoadsAreLayers
  <2>3. BufferOf(loads[1]) # Large
    BY <2>1, <2>2 DEF ViewIsKept, Refills
  <2>4. owner'[Large] = owner[Large] /\ ~Refills(Large)'
    BY <2>1, <2>3, VocabularyIsLarge DEF PoolTyped, ViewIsKept
  <2> QED BY <2>1, <2>4 DEF ViewIsKept
<1>7. CASE BeginForward
  <2>1. graph /\ RefillBeforeBackward /\ UNCHANGED <<refilled, owner, sideTo, compute>>
    BY <1>7 DEF BeginForward, poolVars
  <2>2. ~Refills(Large)'
    BY <1>2, <2>1 DEF ViewIsKept, LoadsInv, TiedStays
  <2> QED BY <2>1, <2>2 DEF ViewIsKept
<1>8. CASE Advances
  <2>1. /\ graph /\ UNCHANGED <<graph, pass, refilled, owner, sideTo, compute>>
        /\ pass # "rest"
    BY <1>8 DEF Advances, poolVars, HostTyped, WalkTyped
  <2>2. RefillBeforeBackward
    BY <2>1 DEF ViewIsKept, StreamAssumption
  <2>3. ~Refills(Large)'
    BY <1>2, <2>1, <2>2 DEF ViewIsKept, LoadsInv, TiedStays
  <2> QED BY <2>1, <2>3 DEF ViewIsKept
<1>9. CASE LayerComputes
  <2>1. /\ pass # "rest" /\ loads = <<>> /\ stop \in Stop
        /\ UNCHANGED <<owner, loads, sideTo>>
        /\ compute' = Append(compute, Kernel(LayerAt(stop)))
    BY <1>9 DEF LayerComputes, HostFree, HostTyped, WalkTyped
  <2>2. PICK l \in Layer : l = LayerAt(stop) /\ owner[BufferOf(l)] = l
    BY <2>1, HereIsComing, ComingIsThere
  <2>3. PICK a \in Nat : a = event[BufferOf(l)]
    BY BufferIsBuffer DEF PoolTyped
  <2>4. /\ Len(compute') = Len(compute) + 1
        /\ \A i \in 1 .. Len(compute) : compute'[i] = compute[i]
        /\ compute'[Len(compute) + 1].after = a
    <3>1. PICK r \in [layer : Layer, after : Nat] : r = Kernel(l) /\ r.after = a
      <4>1. Kernel(l) \in [layer : Layer, after : Nat] /\ Kernel(l).after = a
        BY <2>3 DEF Kernel
      <4> QED BY <4>1
    <3>2. compute \in Seq([layer : Layer, after : Nat])
      BY DEF PoolTyped
    <3> QED BY <2>1, <2>2, <3>1, <3>2, AppendProperties
  <2>5. pass = "forward"
    <3>1. pass = "backward" => ~graph /\ graph' = graph
      BY <1>9 DEF LayerComputes, WalkIsOnCourse, InBackward
    <3> QED BY <2>1, <3>1 DEF HostTyped
  <2>6. /\ graph' = (graph \/ (grad /\ stop = NDecoder + 1))
        /\ refilled' = (refilled /\ ~(grad /\ stop = NDecoder + 1))
        /\ pass' = IF stop = NDecoder + 1 THEN "rest" ELSE pass
    BY <1>9, <2>5 DEF LayerComputes
  <2>7. ~Refills(Large)'
    BY <2>1 DEF Refills
  <2>8. CASE grad /\ stop = NDecoder + 1
    <3>1. pass' = "rest" /\ ~refilled'
      BY <2>6, <2>8
    <3>2. l = OutHead /\ owner'[Large] = OutHead
      BY <2>1, <2>2, <2>8, StopsAreLayers, VocabularyIsLarge
    <3>3. <<Large, OutHead>> \in Settled
      BY <2>1, <2>2, <3>2, OwnedIsSettled, VocabularyIsLarge
    <3>4. \A j \in 1 .. Len(sideTo) : sideTo[j].buffer = Large => event[Large] >= j
      <4>1. CASE \A k \in 1 .. Len(sideTo) : sideTo[k].buffer # Large
        BY <4>1
      <4>2. CASE \E j \in 1 .. Len(sideTo) :
                   /\ event[Large] >= j
                   /\ \A k \in j + 1 .. Len(sideTo) : sideTo[k].buffer # Large
        <5>1. PICK j \in 1 .. Len(sideTo) :
                   /\ event[Large] >= j
                   /\ \A k \in j + 1 .. Len(sideTo) : sideTo[k].buffer # Large
          BY <4>2
        <5>2. \A k \in 1 .. Len(sideTo) : k <= j \/ k \in j + 1 .. Len(sideTo)
          BY <1>3
        <5>3. event[Large] \in Nat
          BY VocabularyIsLarge DEF PoolTyped
        <5>4. \A k \in 1 .. Len(sideTo) : k <= j => event[Large] >= k
          BY <1>3, <5>1, <5>3
        <5> QED BY <5>1, <5>2, <5>4
      <4> QED BY <3>3, <4>1, <4>2 DEF Settled
    <3>5. Len(compute) + 1 \in 1 .. Len(compute') /\ compute'[Len(compute) + 1].after = event[Large]
      BY <1>3, <2>3, <2>4, <3>2, VocabularyIsLarge
    <3>6. \A j \in 1 .. Len(sideTo') :
            sideTo'[j].buffer = Large => \E m \in 1 .. Len(compute') : compute'[m].after >= j
      BY <2>1, <3>4, <3>5
    <3> QED BY <2>7, <3>1, <3>2, <3>6 DEF ViewIsKept
  <2>9. CASE ~(grad /\ stop = NDecoder + 1)
    <3>1. graph /\ ~refilled'
      BY <2>6, <2>9 DEF ViewIsKept
    <3>2. RefillBeforeBackward
      BY <2>1, <3>1 DEF ViewIsKept
    <3>3. 1 .. Len(compute) \subseteq 1 .. Len(compute')
      BY <1>3, <2>4
    <3>4. \A j \in 1 .. Len(sideTo') :
            sideTo'[j].buffer = Large => \E m \in 1 .. Len(compute') : compute'[m].after >= j
      BY <2>1, <2>4, <3>1, <3>3 DEF ViewIsKept
    <3> QED BY <2>1, <2>7, <3>1, <3>2, <3>4 DEF ViewIsKept
  <2> QED BY <2>8, <2>9
<1>10. CASE BeginBackward
  BY <1>10 DEF BeginBackward
<1>11. CASE SideExecutes
  <2>1. /\ Len(sideTo') = Len(sideTo) - 1
        /\ \A k \in 1 .. Len(sideTo') : k + 1 \in 1 .. Len(sideTo) /\ sideTo'[k] = sideTo[k + 1]
        /\ Len(compute') = Len(compute)
        /\ \A i \in 1 .. Len(compute) : compute'[i].after = Nearer(compute[i].after)
        /\ UNCHANGED <<owner, graph, pass, refilled, loads>>
    BY <1>11, SideExecutesAs DEF BuffersSettle, runVars, walkVars
  <2>2. ASSUME NEW j \in 1 .. Len(sideTo'), sideTo'[j].buffer = Large
        PROVE  \E m \in 1 .. Len(compute') : compute'[m].after >= j
    <3>1. j + 1 \in 1 .. Len(sideTo) /\ sideTo[j + 1].buffer = Large
      BY <2>1, <2>2
    <3>2. PICK m \in 1 .. Len(compute) : compute[m].after >= j + 1
      BY <2>1, <3>1 DEF ViewIsKept
    <3>3. compute[m].after \in Nat /\ compute'[m].after = Nearer(compute[m].after)
      BY <1>3, <2>1
    <3>4. Nearer(compute[m].after) >= j
      BY <3>2, <3>3 DEF Nearer
    <3> QED BY <2>1, <3>3, <3>4
  <2> QED BY <2>1, <2>2 DEF ViewIsKept, Refills
<1>12. CASE KernelExecutes
  <2>1. /\ 1 \in 1 .. Len(compute) /\ compute[1].after = 0
        /\ Len(compute') = Len(compute) - 1
        /\ \A i \in 1 .. Len(compute') : compute'[i] = compute[i + 1]
        /\ Len(sideTo') = Len(sideTo)
        /\ \A k \in 1 .. Len(sideTo) : sideTo'[k].buffer = sideTo[k].buffer
        /\ UNCHANGED <<owner, graph, pass, refilled, loads>>
    BY <1>12, KernelExecutesAs DEF runVars, walkVars
  <2>2. ASSUME NEW j \in 1 .. Len(sideTo'), sideTo'[j].buffer = Large
        PROVE  \E m \in 1 .. Len(compute') : compute'[m].after >= j
    <3>1. PICK m \in 1 .. Len(compute) : compute[m].after >= j
      BY <2>1, <2>2 DEF ViewIsKept
    <3>2. m # 1
      BY <2>1, <3>1
    <3>3. m - 1 \in 1 .. Len(compute') /\ (m - 1) + 1 = m
      BY <1>3, <2>1, <3>2
    <3> QED BY <2>1, <3>1, <3>3
  <2> QED BY <2>1, <2>2 DEF ViewIsKept, Refills
<1>13. CASE SourceStep
  BY <1>1, <1>13, SourceStepAs DEF walkVars
<1>14. CASE LoadAsks \/ LoadFails \/ LayerWaits \/ RuntimeCloses \/ UNCHANGED streamVars
  <2>1. UNCHANGED <<graph, pass, refilled, owner, loads, sideTo, compute>>
    BY <1>14 DEF LoadAsks, LoadFails, LayerWaits, RuntimeCloses, streamVars, poolVars, runVars,
         walkVars
  <2> QED BY <1>1, <2>1
<1> QED BY <1>5, <1>6, <1>7, <1>8, <1>9, <1>10, <1>11, <1>12, <1>13, <1>14
        DEF LSNext, HostStep, PassStep

\* Autograd finds the view it saved.
LEMMA NoViewIsLost ==
  ASSUME ViewIsKept, [LSNext]_streamVars
  PROVE  failed' = "autograd" => failed = "autograd"
<1>1. CASE BeginBackward
  BY <1>1 DEF BeginBackward, ViewIsKept
<1>2. CASE LSNext /\ ~BeginBackward
  BY <1>2 DEF LSNext, HostStep, PassStep, SourceStep, LoadAsks, LoadFails, LoadCopies,
       LoadReleases, LayerWaits, Advances, LayerComputes, BeginForward, SideExecutes,
       KernelExecutes, RuntimeCloses, runVars
<1> QED BY <1>1, <1>2 DEF streamVars, runVars

\* The inductive invariant of the runtime.
StreamInv == LoadsInv /\ WalkIsOnCourse /\ DeviceInv /\ ScheduleIsSound

LEMMA StreamInvInit == LSInit => StreamInv
<1> SUFFICES ASSUME LSInit PROVE StreamInv
  OBVIOUS
<1>1. /\ loads = <<>> /\ getter = "idle" /\ loan = NoLoan /\ ~copied /\ pass = "rest" /\ ~graph
      /\ sideTo = <<>> /\ compute = <<>> /\ stream = <<>> /\ failed = "no"
      /\ \A b \in Buffer : owner[b] = NoLayer
  BY DEF LSInit, Init
<1>2. LoadsInv
  BY <1>1 DEF LoadsInv, LoadsInTurn, TiedStays, Refills
<1>3. WalkIsOnCourse
  BY <1>1 DEF WalkIsOnCourse
<1>4. BuffersSettle
  BY <1>1 DEF BuffersSettle
<1>5. KernelsAreFed /\ ViewIsKept
  BY <1>1 DEF KernelsAreFed, ViewIsKept
<1> QED BY <1>1, <1>2, <1>3, <1>4, <1>5 DEF StreamInv, DeviceInv, ScheduleIsSound

LEMMA StreamInvKept ==
  ASSUME LoadsAreLayers, SafetyInv, OneLoadAtATime, PoolTyped, HostTyped, StreamInv,
         [LSNext]_streamVars, failed' \in {"no", "source", "scheduler", "autograd"}
  PROVE  StreamInv'
<1>1. LoadsInv'
  BY LoadsKeepTheirTurn DEF StreamInv
<1>2. WalkIsOnCourse' /\ (failed' = "scheduler" => failed = "scheduler")
  BY CourseIsKept DEF StreamInv
<1>3. BuffersSettle' /\ KernelsAreFed'
  BY BuffersKeepSettled, KernelsKeepFed DEF StreamInv, DeviceInv
<1>4. ViewIsKept' /\ (failed' = "autograd" => failed = "autograd")
  BY <1>1, ViewStays, NoViewIsLost DEF StreamInv, DeviceInv
<1> QED BY <1>1, <1>2, <1>3, <1>4 DEF StreamInv, DeviceInv, ScheduleIsSound

LEMMA StreamAlways == LSSpec => []StreamInv
<1>1. /\ LoadsAreLayers /\ SafetyInv /\ OneLoadAtATime /\ PoolTyped /\ HostTyped
      /\ HostTyped' /\ StreamInv /\ [LSNext]_streamVars
      => StreamInv'
  BY StreamInvKept DEF HostTyped
<1> QED BY <1>1, StreamInvInit, StreamBasics, PTL DEF LSSpec

\* Whatever the interleaving of host, reader and device, no wait finds a buffer
\* that holds another layer, and no backward a weight refilled since it was saved.
THEOREM ScheduleStaysSound == LSSpec => []ScheduleIsSound
<1>1. StreamInv => ScheduleIsSound
  BY DEF StreamInv
<1> QED BY <1>1, StreamAlways, PTL

\* A kernel whose turn it is waits for nothing more, so the copy that brought its
\* layer has been made, and no later copy overtook it.
LEMMA FirstKernelReads ==
  ASSUME PoolTyped, KernelsAreFed
  PROVE  KernelsReadTheirLayer
<1> SUFFICES ASSUME compute # <<>>, Head(compute).after = 0
             PROVE  device[BufferOf(Head(compute).layer)] = Head(compute).layer
  BY DEF KernelsReadTheirLayer
<1>1. compute \in Seq([layer : Layer, after : Nat])
  BY DEF PoolTyped
<1>2. 1 \in 1 .. Len(compute) /\ Head(compute) = compute[1]
  BY <1>1
<1>3. KernelIsFed(1)
  BY <1>2 DEF KernelsAreFed
<1>4. Len(sideTo) \in Nat
  BY QueueTypes
<1>5. ~(\E j \in 1 .. Len(sideTo) : \E m \in 1 .. 1 : compute[m].after >= j)
  BY <1>2, <1>4
<1> QED BY <1>2, <1>3, <1>5 DEF KernelIsFed

\* Every kernel of a forward or a recompute reads the layer it was enqueued for.
THEOREM KernelsAlwaysReadTheirLayer == LSSpec => []KernelsReadTheirLayer
<1>1. StreamInv => KernelsAreFed
  BY DEF StreamInv, DeviceInv
<1> QED BY <1>1, FirstKernelReads, StreamAlways, StreamBasics, PTL

-----------------------------------------------------------------------------
(* Reading ahead.                                                          *)

\* The shapes of the models the source is written for: the decoder layers are of one
\* shape, and each vocabulary weight is the only layer of its own
\* (utils/async_disk_source.py:471).
OneShape ==
  /\ \A l, m \in Decoder : GroupOf[l] = GroupOf[m]
  /\ \A l \in Layer \ Decoder : Members(GroupOf[l]) = {l}

\* Each shape's walk stands at a layer of that shape, and at the layer on loan; a
\* shape of one layer is not walked at all.
WalksAreTheirOwn ==
  /\ \A g \in Group : lastGet[g] # NoLayer => lastGet[g] \in Members(g)
  /\ loan # NoLoan => lastGet[GroupOf[loan.layer]] = loan.layer
  /\ \A l \in Layer \ Decoder : direction[GroupOf[l]] = 1

\* A decoder layer is in the queue because the walk heads for it, or the walk has not
\* begun, or the get that is waiting demanded it; or the source has refused one.
QueueIsWanted ==
  \A i \in 1 .. Len(queue) : queue[i] \in Decoder =>
    \/ StillWanted(queue[i])
    \/ lastGet[GroupOf[queue[i]]] = NoLayer
    \/ getter = "waiting" /\ queue[i] = want
    \/ answer \in Refusals

RefusedIsOver == answer \in Refusals => getter = "idle"

WindowInv == WalksAreTheirOwn /\ QueueIsWanted /\ RefusedIsOver

-----------------------------------------------------------------------------
\* The first n numbers.
LEMMA FirstNumbers ==
  ASSUME NEW n \in Nat \ {0}
  PROVE  IsFiniteSet(0 .. n - 1) /\ Cardinality(0 .. n - 1) = n
<1>1. 0 \in Int /\ n - 1 \in Int /\ ~(0 > n - 1) /\ n - 1 - 0 + 1 = n
  OBVIOUS
<1> QED BY <1>1, FS_Interval

\* The slots of a shape, in rotation, are as many as its window has layers: when each of
\* them holds a layer of the window, there is no other such layer.
LEMMA FullWindow ==
  ASSUME TypeInv, NEW g \in Group,
         \A o \in 0 .. Span(g) - 1 :
            \E l \in Layer : GroupOf[l] = g /\ StillWanted(l) /\ slotOf[l] = SlotAt(g, o),
         NEW idx \in Layer, GroupOf[idx] = g, StillWanted(idx)
  PROVE  \E o \in 0 .. Span(g) - 1 : slotOf[idx] = SlotAt(g, o)
<1> SUFFICES ASSUME \A o \in 0 .. Span(g) - 1 : slotOf[idx] # SlotAt(g, o)
             PROVE  FALSE
  OBVIOUS
<1> DEFINE S == 0 .. Span(g) - 1
           Step(l) == (l - lastGet[g]) * direction[g]
           held == [o \in S |-> CHOOSE l \in Layer :
                      GroupOf[l] = g /\ StillWanted(l) /\ slotOf[l] = SlotAt(g, o)]
           T == S \ {Step(idx)}
           f == [o \in S |-> Step(held[o])]
<1>1. Span(g) \in Nat \ {0} /\ nextSlot[g] \in Nat /\ Layer \subseteq Int
  BY SpanIsPositive, SourceAssumption DEF Layer, TypeInv, TypeOK
<1>2. lastGet[g] \in Layer /\ direction[g] \in {-1, 1}
  BY DEF StillWanted, TypeInv, TypeOK
<1>3. \A l \in Layer : StillWanted(l) /\ GroupOf[l] = g => Step(l) \in S
  <2> SUFFICES ASSUME NEW l \in Layer, StillWanted(l), GroupOf[l] = g PROVE Step(l) \in S
    OBVIOUS
  <2>1. Step(l) \in Int
    <3>1. PICK a \in Int, d \in {-1, 1} : a = lastGet[g] /\ d = direction[g]
      BY <1>1, <1>2
    <3>2. (l - a) * d \in Int
      BY <1>1
    <3> QED BY <3>1, <3>2
  <2>2. 0 <= Step(l) /\ Step(l) < Span(g)
    BY DEF StillWanted
  <2> QED BY <1>1, <2>1, <2>2
<1>4. \A o \in S : /\ held[o] \in Layer /\ GroupOf[held[o]] = g
                   /\ StillWanted(held[o]) /\ slotOf[held[o]] = SlotAt(g, o)
  OBVIOUS
<1>5. \A l, m \in Layer : Step(l) = Step(m) => l = m
  <2>1. lastGet[g] \in Int /\ direction[g] \in {-1, 1}
    BY <1>1, <1>2
  <2>2. PICK a \in Int, d \in {-1, 1} : a = lastGet[g] /\ d = direction[g]
    BY <2>1
  <2>3. ASSUME NEW l \in Int, NEW m \in Int, (l - a) * d = (m - a) * d
        PROVE  l = m
    <3>1. CASE d = 1
      BY <2>3, <3>1
    <3>2. CASE d = -1
      BY <2>3, <3>2
    <3> QED BY <3>1, <3>2
  <2> QED BY <1>1, <2>2, <2>3
<1>6. Step(idx) \in S
  BY <1>3
<1>7. \A o \in S : Step(held[o]) \in T
  <2> SUFFICES ASSUME NEW o \in S PROVE Step(held[o]) \in S /\ Step(held[o]) # Step(idx)
    OBVIOUS
  <2>1. Step(held[o]) \in S
    BY <1>4, <1>3
  <2>2. held[o] # idx
    BY <1>4
  <2> QED BY <1>4, <1>5, <2>1, <2>2
<1>8. f \in [S -> T]
  BY <1>7
<1>9. IsFiniteSet(S) /\ Cardinality(S) = Span(g)
  <2>1. PICK n \in Nat \ {0} : n = Span(g)
    BY <1>1
  <2>2. IsFiniteSet(0 .. n - 1) /\ Cardinality(0 .. n - 1) = n
    BY FirstNumbers
  <2> QED BY <2>1, <2>2
<1>10. IsFiniteSet(T) /\ Cardinality(T) = Span(g) - 1
  <2>1. PICK x \in S : x = Step(idx)
    BY <1>6
  <2> HIDE DEF S
  <2>2. IsFiniteSet(S \ {x}) /\ Cardinality(S \ {x}) = Cardinality(S) - 1
    BY <1>9, FS_RemoveElement
  <2>3. S \ {x} = T
    BY <2>1
  <2> QED BY <1>9, <2>2, <2>3
<1>11. \A o, p \in S : f[o] = f[p] => held[o] = held[p]
  BY <1>4, <1>5
<1> HIDE DEF f, T, S, held
<1>12. PICK o \in S, p \in S : o # p /\ f[o] = f[p]
  BY <1>1, <1>8, <1>9, <1>10, FS_PigeonHole
<1>13. SlotAt(g, o) = SlotAt(g, p)
  BY <1>4, <1>11, <1>12
<1>14. (nextSlot[g] + o) % Span(g) = (nextSlot[g] + p) % Span(g)
  BY <1>13 DEF SlotAt
<1>15. o \in 0 .. Span(g) - 1 /\ p \in 0 .. Span(g) - 1 /\ (o < p \/ p < o)
  BY <1>1, <1>12 DEF S
<1> QED BY <1>1, <1>14, <1>15, PlacesDiffer

-----------------------------------------------------------------------------
\* A target a walk through the decoder has room for lies in the window of that walk.
LEMMA TargetsAreInTheWindow ==
  ASSUME OneShape, NEW idx \in Decoder, NEW d \in {-1, 1}, NEW l \in Targets(idx, d), l \in Decoder
  PROVE  (l - idx) * d \in 0 .. Span(GroupOf[idx]) - 1
<1> DEFINE g == GroupOf[idx]
<1>1. ReadAhead \in Nat /\ Decoder \subseteq Layer /\ NDecoder \in Nat
  BY SourceAssumption, StreamAssumption, DecoderLayersAreLayers
<1>2. Span(g) \in Nat \ {0}
  <2>1. GroupOf[idx] \in Group
    BY <1>1, SourceAssumption
  <2> QED BY <2>1, SpanIsPositive
<1>3. PICK k \in 1 .. ReadAhead : l = idx + d * k /\ RoomyStep(idx, d, k)
  BY <1>1 DEF Targets
<1>4. GroupOf[idx + d * k] = g
  BY <1>3 DEF OneShape
<1>5. Cardinality({m \in 0 .. k : GroupOf[idx + d * m] = g}) <= Span(g)
  BY <1>3, <1>4 DEF RoomyStep
<1>6. \A m \in 0 .. k : idx + d * m \in Decoder
  <2>1. idx \in 0 .. NDecoder - 1 /\ idx + d * k \in 0 .. NDecoder - 1 /\ k \in Nat
    BY <1>1, <1>3 DEF Decoder
  <2>2. CASE d = 1
    BY <1>1, <2>1, <2>2 DEF Decoder
  <2>3. CASE d = -1
    BY <1>1, <2>1, <2>3 DEF Decoder
  <2> QED BY <2>2, <2>3
<1>7. \A m \in 0 .. k : GroupOf[idx + d * m] = g
  BY <1>6 DEF OneShape
<1>8. {m \in 0 .. k : GroupOf[idx + d * m] = g} = 0 .. k
  BY <1>7
<1>9. Cardinality(0 .. k) = k + 1
  <2>1. k + 1 \in Nat \ {0} /\ (k + 1) - 1 = k
    BY <1>1, <1>3
  <2> QED BY <2>1, FirstNumbers
<1>10. k + 1 <= Span(g) /\ k \in Nat
  <2>1. Cardinality(0 .. k) <= Span(g)
    BY <1>5, <1>8, Zenon
  <2> QED BY <1>1, <1>9, <2>1
<1>11. (l - idx) * d = k
  <2>1. idx \in Int /\ l = idx + d * k
    BY <1>1, <1>3 DEF Decoder
  <2>2. CASE d = 1
    BY <1>10, <2>1, <2>2
  <2>3. CASE d = -1
    BY <1>10, <2>1, <2>3
  <2> QED BY <2>2, <2>3
<1> QED BY <1>2, <1>10, <1>11

\* A vocabulary weight is walked upwards, where no decoder layer is.
LEMMA VocabularyPlansNoDecoder ==
  ASSUME OneShape, TypeInv, WalksAreTheirOwn, NEW idx \in Layer \ Decoder
  PROVE  /\ NotedDirection(idx) = 1
         /\ \A l \in Targets(idx, 1) : l \notin Decoder
<1> DEFINE g == GroupOf[idx]
<1>1. g \in Group /\ Members(g) = {idx} /\ direction[g] = 1
  BY SourceAssumption DEF OneShape, WalksAreTheirOwn
<1>2. Low(g) = idx /\ High(g) = idx /\ idx \in Int
  BY <1>1, SourceAssumption DEF Low, High, Layer
<1>3. lastGet[g] \in {NoLayer, idx}
  BY <1>1 DEF WalksAreTheirOwn
<1>4. ~(Low(g) < High(g))
  BY <1>2
<1>5. NotedDirection(idx) = 1
  BY <1>1, <1>3, <1>4 DEF NotedDirection
<1>6. ASSUME NEW l \in Targets(idx, 1) PROVE l \notin Decoder
  <2>1. PICK k \in 1 .. ReadAhead : l = idx + 1 * k
    BY DEF Targets
  <2>2. idx >= NDecoder /\ ReadAhead \in Nat /\ NDecoder \in Nat
    BY SourceAssumption, StreamAssumption, <1>2 DEF Layer, Decoder
  <2> QED BY <1>2, <2>1, <2>2 DEF Decoder
<1> QED BY <1>5, <1>6

\* A get that is served plans decoder layers only in its own walk's window.
LEMMA ServePlansTheWindow ==
  ASSUME OneShape, TypeInv, WalksAreTheirOwn, GetServe
  PROVE  WalksAreTheirOwn' /\ QueueIsWanted'
<1> DEFINE g == GroupOf[want]
           d == NotedDirection(want)
<1>1. want \in Layer /\ g \in Group /\ d \in {-1, 1}
  BY SourceAssumption, DirectionIsEither DEF GetServe, InLoop, TypeInv, TypeOK, AskedForALayer
<1>2. /\ lastGet' = [lastGet EXCEPT ![g] = want]
      /\ direction' = [direction EXCEPT ![g] = d]
      /\ queue' = PlanQueue(want, d)
      /\ loan' = [layer |-> want, slot |-> slotOf[want]]
  BY DEF GetServe
<1> HIDE DEF d
<1>3. lastGet \in [Group -> Layer \cup {NoLayer}] /\ direction \in [Group -> {-1, 1}]
  BY DEF TypeInv, TypeOK
<1>4. ASSUME NEW h \in Group, lastGet'[h] # NoLayer PROVE lastGet'[h] \in Members(h)
  BY <1>1, <1>2, <1>3, <1>4 DEF WalksAreTheirOwn, Members
<1>5. lastGet'[GroupOf[loan'.layer]] = loan'.layer
  BY <1>1, <1>2, <1>3
<1>6. ASSUME NEW l \in Layer \ Decoder PROVE direction'[GroupOf[l]] = 1
  <2>1. CASE GroupOf[l] = g
    <3>1. want \in Members(GroupOf[l])
      BY <1>1, <2>1 DEF Members
    <3>2. want = l
      BY <3>1 DEF OneShape
    <3>3. d = 1
      BY <3>2, VocabularyPlansNoDecoder DEF d
    <3> QED BY <1>1, <1>2, <1>3, <2>1, <3>3
  <2>2. CASE GroupOf[l] # g
    <3>1. GroupOf[l] \in Group
      BY SourceAssumption
    <3> QED BY <1>1, <1>2, <1>3, <2>2, <3>1 DEF WalksAreTheirOwn
  <2> QED BY <2>1, <2>2
<1>7. WalksAreTheirOwn'
  BY <1>4, <1>5, <1>6 DEF WalksAreTheirOwn
<1>8. ASSUME NEW i \in 1 .. Len(queue'), queue'[i] \in Decoder PROVE StillWanted(queue[i])'
  <2>1. PICK l \in Targets(want, d) : l = queue'[i]
    BY <1>1, <1>2, <1>8, PlanIsTargets
  <2>2. want \in Decoder
    BY <1>1, <1>8, <2>1, VocabularyPlansNoDecoder DEF d
  <2>3. (l - want) * d \in 0 .. Span(g) - 1
    BY <1>1, <1>8, <2>1, <2>2, TargetsAreInTheWindow
  <2>4. GroupOf[l] = g
    BY <1>8, <2>1, <2>2 DEF OneShape
  <2>5. lastGet'[g] = want /\ direction'[g] = d /\ want # NoLayer
    BY <1>1, <1>2, <1>3, SourceAssumption DEF Layer, NoLayer
  <2>6. Span(g) \in Nat
    BY <1>1, SpanIsPositive
  <2> QED BY <2>1, <2>3, <2>4, <2>5, <2>6 DEF StillWanted
<1> QED BY <1>7, <1>8 DEF QueueIsWanted

\* Steps that leave the walks alone, and the queue or its tail.
LEMMA WindowIsLeft ==
  ASSUME TypeInv, WindowInv, UNCHANGED <<lastGet, direction>>,
         queue' = queue \/ (queue # <<>> /\ queue' = Tail(queue)),
         loan' \in {loan, NoLoan},
         answer' \notin Refusals => answer \notin Refusals,
         getter = "waiting" /\ answer' \notin Refusals => getter' = "waiting" /\ want' = want,
         answer' \in Refusals => getter' = "idle"
  PROVE  WindowInv'
<1> USE DEF WindowInv
<1>1. WalksAreTheirOwn' /\ RefusedIsOver'
  BY DEF WalksAreTheirOwn, RefusedIsOver
<1>2. ASSUME NEW i \in 1 .. Len(queue')
      PROVE  \E j \in 1 .. Len(queue) : queue'[i] = queue[j]
  <2>1. queue \in Seq(Layer)
    BY DEF TypeInv, TypeOK
  <2>2. CASE queue' = queue
    BY <1>2, <2>2
  <2>3. CASE queue # <<>> /\ queue' = Tail(queue)
    <3>1. i + 1 \in 1 .. Len(queue) /\ queue'[i] = queue[i + 1]
      BY <1>2, <2>1, <2>3
    <3> QED BY <3>1
  <2> QED BY <2>2, <2>3
<1>3. ASSUME NEW i \in 1 .. Len(queue'), queue'[i] \in Decoder
      PROVE  \/ StillWanted(queue[i])'
             \/ lastGet'[GroupOf[queue'[i]]] = NoLayer
             \/ getter' = "waiting" /\ queue'[i] = want'
             \/ answer' \in Refusals
  <2>1. PICK j \in 1 .. Len(queue) : queue'[i] = queue[j]
    BY <1>2
  <2>2. StillWanted(queue[i])' <=> StillWanted(queue[j])
    BY <2>1 DEF StillWanted
  <2> QED BY <1>3, <2>1, <2>2 DEF QueueIsWanted
<1>4. QueueIsWanted'
  BY <1>3 DEF QueueIsWanted
<1> QED BY <1>1, <1>4

\* The demand of a get, or the queue as it was.
LEMMA MissKeepsTheWindow ==
  ASSUME TypeInv, WindowInv, GetMiss \/ GetRestartsReader
  PROVE  WindowInv'
<1> USE DEF WindowInv
<1>1. /\ UNCHANGED <<lastGet, direction, loan, answer, want>>
      /\ getter' = "waiting" /\ answer \notin Refusals
      /\ queue' \in {queue, <<want>>}
  BY DEF GetMiss, GetRestartsReader, consumerVars, RefusedIsOver, InLoop
<1>2. CASE queue' = queue
  <2>1. QueueIsWanted'
    BY <1>1, <1>2 DEF QueueIsWanted, StillWanted
  <2> QED BY <1>1, <2>1 DEF WalksAreTheirOwn, RefusedIsOver
<1>3. CASE queue' = <<want>>
  <2>1. \A i \in 1 .. Len(queue') : queue'[i] = want
    BY <1>3
  <2>2. QueueIsWanted'
    BY <1>1, <2>1 DEF QueueIsWanted
  <2> QED BY <1>1, <2>2 DEF WalksAreTheirOwn, RefusedIsOver
<1> QED BY <1>1, <1>2, <1>3

LEMMA WindowKept ==
  ASSUME OneShape, SafetyInv, LoadsAreLayers, WindowInv, [LSNext]_streamVars
  PROVE  WindowInv'
<1> DEFINE Left == /\ UNCHANGED <<lastGet, direction>>
                   /\ queue' = queue \/ (queue # <<>> /\ queue' = Tail(queue))
                   /\ loan' \in {loan, NoLoan}
                   /\ answer' \notin Refusals => answer \notin Refusals
                   /\ getter = "waiting" /\ answer' \notin Refusals =>
                        getter' = "waiting" /\ want' = want
                   /\ answer' \in Refusals => getter' = "idle"
<1> USE DEF SafetyInv
<1>1. Left => WindowInv'
  BY WindowIsLeft
<1>2. answer \in Refusals => getter = "idle"
  BY DEF WindowInv, RefusedIsOver
<1>3. CASE GetServe
  <2>1. WalksAreTheirOwn' /\ QueueIsWanted'
    BY <1>3, ServePlansTheWindow DEF WindowInv
  <2>2. RefusedIsOver'
    BY <1>3 DEF GetServe, GetEnds, RefusedIsOver
  <2> QED BY <2>1, <2>2 DEF WindowInv
<1>4. CASE GetMiss \/ GetRestartsReader
  BY <1>4, MissKeepsTheWindow
<1>5. CASE GetOnLoan \/ GetRaisesError \/ GetRaisesClosed \/ GetReaderGivenUp \/ GetReadWedged
  <2>1. UNCHANGED <<lastGet, direction, queue, loan>> /\ getter' = "idle" /\ answer' \in Refusals
    BY <1>5 DEF GetOnLoan, GetRaisesError, GetRaisesClosed, GetReaderGivenUp, GetReadWedged,
         GetEnds, sourceVars, Refusals
  <2> QED BY <1>1, <2>1
<1>6. CASE ReaderStep \/ DriveStep \/ ReadGoesOverdue
  <2>1. /\ UNCHANGED <<lastGet, direction, loan, getter, want, answer>>
        /\ queue' = queue \/ (queue # <<>> /\ queue' = Tail(queue))
    BY <1>6 DEF ReaderStep, DriveStep, ReaderEnter, ReaderDiesUnborn, ReaderSleep, ReaderExit,
         ReaderSkip, ReaderClaim, ReaderBeginRead, ReaderEndRead, ReaderReadFails,
         ReaderPublish, ReaderFail, ReadGoesOverdue, sourceVars, consumerVars
  <2> QED BY <1>1, <1>2, <2>1
<1>7. CASE LoadAsks
  <2>1. /\ UNCHANGED <<lastGet, direction, queue>> /\ loan' \in {loan, NoLoan}
        /\ answer \notin Refusals /\ answer' = "none" /\ getter = "idle"
    BY <1>7 DEF LoadAsks, Ask, sourceVars
  <2>2. "none" \notin Refusals
    BY DEF Refusals
  <2> QED BY <1>1, <2>1, <2>2
<1>8. CASE \/ LoadFails \/ LoadCopies \/ LoadReleases \/ LayerWaits \/ Advances \/ LayerComputes
           \/ PassStep \/ SideExecutes \/ KernelExecutes \/ RuntimeCloses \/ UNCHANGED streamVars
  <2>1. UNCHANGED <<lastGet, direction, queue, getter, want, answer>> /\ loan' \in {loan, NoLoan}
    BY <1>8 DEF LoadFails, LoadCopies, EnqueueCopy, LoadReleases, Release, LayerWaits, Advances,
         LayerComputes, PassStep, BeginForward, BeginBackward, SideExecutes, CopyExecutes,
         KernelExecutes, RuntimeCloses, CloseBegins, CloseEnds, vars, sourceVars, consumerVars,
         streamVars
  <2> QED BY <1>1, <1>2, <2>1
<1> QED BY <1>3, <1>4, <1>5, <1>6, <1>7, <1>8 DEF LSNext, HostStep, SourceStep, GetStep

\* The slot of a shape's loan holds the layer its walk stands at.
LEMMA LoansAreWanted ==
  ASSUME SafetyInv, OneLoadAtATime, SlotsFit, WalksAreTheirOwn, closer # "closed",
         NEW s \in Slot, live[s]
  PROVE  \E l \in Layer : GroupOf[l] = s[1] /\ StillWanted(l) /\ slotOf[l] = s
<1>1. loan # NoLoan /\ loan.slot = s
  BY DEF OneLoadAtATime
<1>2. loan.layer \in Layer /\ slotOf[loan.layer] = s
  BY <1>1 DEF SafetyInv, StagingInv, ReleaseFindsItsLayer, TypeInv, TypeOK, Loan
<1>3. PICK l \in Layer : l = loan.layer
  BY <1>2
<1>4. GroupOf[l] = s[1] /\ GroupOf[l] \in Group
  BY <1>2, <1>3, NoSlotIsNoSlot, SourceAssumption DEF SlotsFit, Resident
<1>5. lastGet[GroupOf[l]] = l
  BY <1>1, <1>3 DEF WalksAreTheirOwn
<1>6. direction[GroupOf[l]] \in {-1, 1} /\ l \in Nat
  BY <1>4, SourceAssumption DEF SafetyInv, TypeInv, TypeOK, Layer
<1>7. Span(GroupOf[l]) \in Nat \ {0}
  BY <1>4, SpanIsPositive
<1>8. (l - lastGet[GroupOf[l]]) * direction[GroupOf[l]] = 0
  BY <1>5, <1>6
<1>9. StillWanted(l)
  BY <1>5, <1>6, <1>7, <1>8 DEF StillWanted, NoLayer
<1> QED BY <1>2, <1>3, <1>4, <1>9

\* Some slot of a shape has no layer of the window as long as the window has a layer
\* without a slot.
LEMMA WindowHasASlot ==
  ASSUME SafetyInv, OneLoadAtATime, SlotsFit, WalksAreTheirOwn, closer # "closed",
         NEW idx \in Layer, StillWanted(idx), ~Resident(idx)
  PROVE  DoneWith(GroupOf[idx]) # {}
<1> SUFFICES ASSUME DoneWith(GroupOf[idx]) = {} PROVE FALSE
  OBVIOUS
<1>1. PICK g \in Group : g = GroupOf[idx]
  BY SourceAssumption
<1>2. Span(g) \in Nat \ {0} /\ nextSlot \in [Group -> Nat]
  BY SpanIsPositive DEF SafetyInv, TypeInv, TypeOK
<1>3. ASSUME NEW o \in 0 .. Span(g) - 1
      PROVE  \E l \in Layer : GroupOf[l] = g /\ StillWanted(l) /\ slotOf[l] = SlotAt(g, o)
  <2>1. PICK s \in Slot : s = SlotAt(g, o)
    BY <1>2, <1>3, SlotAtIsSlot
  <2>2. s[1] = g
    BY <2>1 DEF SlotAt
  <2>3. CASE live[s]
    BY <2>1, <2>2, <2>3, LoansAreWanted
  <2>4. CASE ~live[s]
    <3>1. o \in Takeable(g) /\ o \notin DoneWith(g)
      BY <1>1, <1>3, <2>1, <2>4 DEF Takeable
    <3>2. PICK l \in Layer : slotOf[l] = s /\ StillWanted(l)
      BY <2>1, <3>1 DEF DoneWith
    <3>3. GroupOf[l] = g
      BY <2>2, <3>2, NoSlotIsNoSlot DEF SlotsFit, Resident
    <3> QED BY <2>1, <3>2, <3>3
  <2> QED BY <2>3, <2>4
<1>4. PICK o \in 0 .. Span(g) - 1 : slotOf[idx] = SlotAt(g, o)
  BY <1>1, <1>3, FullWindow DEF SafetyInv
<1>5. SlotAt(g, o) \in Slot
  BY <1>2, SlotAtIsSlot
<1> QED BY <1>4, <1>5, NoSlotIsNoSlot DEF Resident

\* _claim_slot takes a slot the walk is done with, when there is one.
LEMMA ClaimTakesOneDoneWith ==
  ASSUME NEW g \in Group, DoneWith(g) # {}
  PROVE  ClaimOffset(g) \in DoneWith(g)
<1>1. DoneWith(g) \subseteq Nat
  BY SpanIsPositive DEF DoneWith, Takeable
<1>2. \E o \in DoneWith(g) : \A p \in DoneWith(g) : o <= p
  BY <1>1, LeastExists
<1> QED BY <1>2 DEF ClaimOffset

\* What a claim evicts.
LEMMA ClaimSparesTheWindow ==
  ASSUME OneShape, SafetyInv, OneLoadAtATime, SlotsFit, WindowInv, ReaderClaim,
         NEW l \in Layer, Resident(l), slotOf'[l] = NoSlot, ReadingAhead'
  PROVE  ~StillWanted(l)
<1> DEFINE idx == Head(queue)
           g == GroupOf[idx]
           slot == SlotAt(g, ClaimOffset(g))
<1>1. /\ queue # <<>> /\ ~closed /\ ~Resident(idx) /\ Takeable(g) # {}
      /\ slotOf' = Evicting(slot) /\ inFlight' = idx
      /\ UNCHANGED <<want, answer, getter>>
  BY DEF ReaderClaim, consumerVars
<1>2. idx = queue[1] /\ 1 \in 1 .. Len(queue) /\ idx \in Layer
  BY <1>1 DEF SafetyInv, TypeInv, TypeOK
<1>3. g \in Group /\ ClaimOffset(g) \in Takeable(g) /\ ClaimOffset(g) \in Nat
  BY <1>1, <1>2, SourceAssumption, ClaimTakesATakeableSlot
<1>4. slotOf[l] = slot
  BY <1>1 DEF Evicting, Resident
<1>5. slot[1] = g
  BY DEF SlotAt
<1>6. GroupOf[l] = g
  BY <1>4, <1>5 DEF SlotsFit
<1>7. closer # "closed"
  BY <1>1 DEF SafetyInv, StagingInv, ClosingInStep
<1> HIDE DEF idx, g, slot
<1>8. CASE idx \notin Decoder
  <2>1. Members(g) = {idx} /\ l \in Members(g)
    BY <1>2, <1>6, <1>8 DEF OneShape, Members, g
  <2> QED BY <1>1, <2>1
<1>9. CASE idx \in Decoder
  <2>1. \/ StillWanted(idx)
        \/ lastGet[g] = NoLayer
        \/ getter = "waiting" /\ idx = want
        \/ answer \in Refusals
    BY <1>2, <1>9 DEF WindowInv, QueueIsWanted, g
  <2>2. idx # want /\ answer \notin Refusals
    BY <1>1 DEF ReadingAhead
  <2>3. CASE lastGet[g] = NoLayer
    BY <1>6, <2>3 DEF StillWanted
  <2>4. CASE StillWanted(idx)
    <3>1. DoneWith(g) # {}
      BY <1>1, <1>2, <1>7, <2>4, WindowHasASlot DEF WindowInv, g
    <3>2. ClaimOffset(g) \in DoneWith(g)
      BY <3>1, ClaimTakesOneDoneWith, <1>3
    <3> QED BY <1>4, <3>2 DEF DoneWith, slot
  <2> QED BY <2>1, <2>2, <2>3, <2>4
<1> QED BY <1>8, <1>9

\* While it reads ahead the reader throws away no layer that is still ahead in the window
\* of its walk (_claim_slot, _still_wanted): in a model whose decoder layers are of one shape,
\* whatever the depth, at turnarounds and from one pass to the next.
THEOREM ReadAheadSparesTheWindow == OneShape => (LSSpec => ReadAheadEvictsNothingWanted)
<1> SUFFICES ASSUME OneShape PROVE LSSpec => ReadAheadEvictsNothingWanted
  OBVIOUS
<1> DEFINE A == SafetyInv /\ LoadsAreLayers /\ OneLoadAtATime
<1>1. LSSpec => []A
  BY StreamBasics, PTL
<1>2. LSSpec => []SlotsFit
  <2>1. RoomInv => SlotsFit
    BY DEF RoomInv
  <2> QED BY <2>1, RoomAlways, RuntimeIsASourceClient, PTL
<1>3. LSInit => WindowInv
  <2> SUFFICES ASSUME LSInit PROVE WindowInv
    OBVIOUS
  <2>1. /\ queue = <<0>> /\ loan = NoLoan /\ answer = "none"
        /\ lastGet = [g \in Group |-> NoLayer] /\ direction = [g \in Group |-> 1]
    BY DEF LSInit, Init
  <2>2. \A l \in Layer : GroupOf[l] \in Group
    BY SourceAssumption
  <2>3. WalksAreTheirOwn
    BY <2>1, <2>2 DEF WalksAreTheirOwn
  <2>4. \A i \in 1 .. Len(queue) : queue[i] = 0
    BY <2>1
  <2>5. QueueIsWanted
    BY <2>1, <2>2, <2>4, DecoderLayersAreLayers DEF QueueIsWanted
  <2> QED BY <2>1, <2>3, <2>5 DEF WindowInv, RefusedIsOver, Refusals
<1>4. A /\ WindowInv /\ [LSNext]_streamVars => WindowInv'
  BY WindowKept
<1>5. LSSpec => []WindowInv
  BY <1>1, <1>3, <1>4, PTL DEF LSSpec
<1>6. A /\ SlotsFit /\ WindowInv /\ [LSNext]_streamVars
      => [\A l \in Layer :
            Resident(l) /\ slotOf'[l] = NoSlot /\ ReadingAhead' => ~StillWanted(l)]_vars
  <2> SUFFICES ASSUME A, SlotsFit, WindowInv, [LSNext]_streamVars, vars' # vars,
                      NEW l \in Layer, Resident(l), slotOf'[l] = NoSlot, ReadingAhead'
               PROVE  ~StillWanted(l)
    OBVIOUS
  <2>1. [Next]_vars
    BY StreamStepIsSourceStep
  <2>2. slotOf' # slotOf
    BY DEF Resident
  <2>3. CASE ReaderClaim
    BY <2>3, ClaimSparesTheWindow
  <2>4. CASE ReaderPublish
    <3>1. /\ slotOf' \in {slotOf, [slotOf EXCEPT ![reader.layer] = reader.slot]}
          /\ reader.pc = "loaded"
      BY <2>4 DEF ReaderPublish, Publishing
    <3>2. reader.slot \in Slot /\ slotOf[reader.layer] = NoSlot
      BY <3>1 DEF SafetyInv, StagingInv, ReaderHasItsSlot, Busy
    <3> QED BY <3>1, <3>2, NoSlotIsNoSlot DEF Resident, SafetyInv, TypeInv, TypeOK
  <2>5. CASE CloseEnds
    <3>1. closed /\ closed' = closed
      BY <2>5 DEF CloseEnds, SafetyInv, StagingInv, ClosingInStep
    <3> QED BY <3>1 DEF ReadingAhead
  <2>6. ~(ReaderClaim \/ ReaderPublish \/ CloseEnds) => slotOf' = slotOf
    BY <2>1 DEF Next, ReaderStep, ReaderEnter, ReaderDiesUnborn, ReaderSleep, ReaderExit,
       ReaderSkip, ReaderBeginRead, ReaderFail, DriveStep, ReaderEndRead, ReaderReadFails,
       ReadGoesOverdue, GetStep, GetServe, GetMiss, GetOnLoan, GetRaisesError, GetRaisesClosed,
       GetRestartsReader, GetReaderGivenUp, GetReadWedged, ClientStep, Ask, EnqueueCopy, Release,
       CopyExecutes, CloseBegins, sourceVars, vars
  <2> QED BY <2>2, <2>3, <2>4, <2>5, <2>6
<1> QED BY <1>1, <1>2, <1>5, <1>6, PTL DEF LSSpec, ReadAheadEvictsNothingWanted
=============================================================================
