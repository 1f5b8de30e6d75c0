---------------------------- MODULE GracefulSave ----------------------------
(***************************************************************************)
(* The SIGINT handler of utils/graceful_save.py.  Python runs a handler in *)
(* the main thread, between any two steps of what that thread is doing, so *)
(* the handler is a frame on top of the frames it interrupted, and these   *)
(* wait for it: for a handler that interrupted another, or an install, a   *)
(* restore or an attach_state.  All four take the same lock.               *)
(***************************************************************************)
EXTENDS Integers, Sequences, SequencesExt

CONSTANT Signals   \* bound: SIGINTs sent

ASSUME SignalsAssumption == Signals \in Nat

VARIABLES
  stack,      \* the main thread's frames, the innermost last
  lock,       \* the depth of the frame that holds _lock, 0 for none
  installed,  \* _installed: the handler is ours
  attached,   \* state is not None
  count,      \* sigint_count
  shouldSave, \* should_save
  shouldStop, \* should_training_stop
  outcome,    \* how the training has ended: by the flag or a KeyboardInterrupt
  signals,    \* SIGINTs sent
  \* history:
  caught      \* one arrived while the lock was held

graceVars ==
  <<stack, lock, installed, attached, count, shouldSave, shouldStop, outcome, signals, caught>>

Op == {"attach_state", "install", "restore"}
Handler == "_handle_sigint"
Frame == [op : Op \cup {Handler}, pc : {"acquire", "locked", "release", "act"},
          count : 0 .. Signals, attached : BOOLEAN]

GTypeOK ==
  /\ Len(stack) <= Signals + 1 /\ \A i \in DOMAIN stack : stack[i] \in Frame
  /\ lock \in 0 .. Len(stack)
  /\ count \in 0 .. Signals /\ signals \in 0 .. Signals
  /\ {installed, attached, shouldSave, shouldStop, caught} \subseteq BOOLEAN
  /\ outcome \in {"running", "stopped", "interrupted"}

GraceInit ==
  /\ stack = <<>> /\ lock = 0
  /\ installed = FALSE /\ attached = FALSE
  /\ count = 0 /\ shouldSave = FALSE /\ shouldStop = FALSE
  /\ outcome = "running"
  /\ signals = 0 /\ caught = FALSE

-----------------------------------------------------------------------------
GoesOn == outcome = "running"
Inner == Len(stack)
InnerAt(pc) == GoesOn /\ stack # <<>> /\ stack[Inner].pc = pc
Frames(op) == Append(stack, [op |-> op, pc |-> "acquire", count |-> 0, attached |-> FALSE])
GoesTo(pc) == stack' = [stack EXCEPT ![Inner].pc = pc]

\* The exception leaves every frame, and with them the lock.
Interrupted == outcome' = "interrupted" /\ stack' = <<>> /\ lock' = 0

OpCalled(op) ==
  /\ GoesOn /\ stack = <<>>
  /\ stack' = Frames(op)
  /\ UNCHANGED <<lock, installed, attached, count, shouldSave, shouldStop, outcome, signals,
                 caught>>

\* Python's own handler raises KeyboardInterrupt.
Sigint ==
  /\ GoesOn /\ signals < Signals
  /\ signals' = signals + 1
  /\ caught' = (caught \/ lock # 0)
  /\ IF installed
       THEN stack' = Frames(Handler) /\ UNCHANGED <<lock, outcome>>
       ELSE Interrupted
  /\ UNCHANGED <<installed, attached, count, shouldSave, shouldStop>>

\* The lock is not reentrant.
Acquires ==
  /\ InnerAt("acquire") /\ lock = 0
  /\ lock' = Inner
  /\ GoesTo("locked")
  /\ UNCHANGED <<installed, attached, count, shouldSave, shouldStop, outcome, signals, caught>>

\* What the three methods do with the lock; install and restore are idempotent.
Sets ==
  /\ InnerAt("locked") /\ stack[Inner].op # Handler
  /\ attached' = (attached \/ stack[Inner].op = "attach_state")
  /\ installed' = CASE stack[Inner].op = "install" -> TRUE
                    [] stack[Inner].op = "restore" -> FALSE
                    [] OTHER -> installed
  /\ GoesTo("release")
  /\ UNCHANGED <<lock, count, shouldSave, shouldStop, outcome, signals, caught>>

NewCount == count + 1

\* The handler counts the signal and takes count and state with it.
Counts ==
  /\ InnerAt("locked") /\ stack[Inner].op = Handler
  /\ count' = NewCount
  /\ stack' = [stack EXCEPT ![Inner].pc = "release", ![Inner].count = NewCount,
                            ![Inner].attached = attached]
  /\ UNCHANGED <<lock, installed, attached, shouldSave, shouldStop, outcome, signals, caught>>

Releases ==
  /\ InnerAt("release")
  /\ lock' = 0
  /\ IF stack[Inner].op = Handler THEN GoesTo("act") ELSE stack' = Front(stack)
  /\ UNCHANGED <<installed, attached, count, shouldSave, shouldStop, outcome, signals, caught>>

\* Mutant of OnlySaves: every signal only saves.
OnlySavesAlways(f) == f.attached

OnlySaves(f) == f.count = 1 /\ f.attached

Acts ==
  /\ InnerAt("act")
  /\ LET f == stack[Inner] IN
       IF f.attached
         THEN /\ shouldSave' = TRUE
              /\ shouldStop' = (shouldStop \/ ~OnlySaves(f))
              /\ stack' = Front(stack)
              /\ UNCHANGED <<lock, outcome>>
         ELSE Interrupted /\ UNCHANGED <<shouldSave, shouldStop>>
  /\ UNCHANGED <<installed, attached, count, signals, caught>>

\* The trainer, at the end of a step: saves, and ends if it has been told to.
TrainerSteps ==
  /\ GoesOn /\ stack = <<>> /\ attached
  /\ shouldSave \/ shouldStop
  /\ shouldSave' = FALSE
  /\ outcome' = IF shouldStop THEN "stopped" ELSE outcome
  /\ UNCHANGED <<stack, lock, installed, attached, count, shouldStop, signals, caught>>

MainThread == Acquires \/ Sets \/ Counts \/ Releases \/ Acts \/ TrainerSteps

GraceNext == (\E op \in Op : OpCalled(op)) \/ Sigint \/ MainThread

\* The main thread goes on, but for frames that wait for one above them; between two of
\* its calls the trainer comes to the end of a step.
GraceFairness == WF_graceVars(MainThread) /\ SF_graceVars(TrainerSteps)

GraceSpec == GraceInit /\ [][GraceNext]_graceVars /\ GraceFairness

-----------------------------------------------------------------------------
(* Properties.                                                             *)

\* One SIGINT, however it falls, does not end a training that has a state attached.
OneSigintDoesNotStop == shouldStop => count >= 2

\* Two that find the lock free do: the training ends.
TwoSigintsEnd == count = 2 ~> (~GoesOn \/ caught)

\* The first SIGINT saves, the second one stops.
SigintsAreHeeded == []OneSigintDoesNotStop /\ TwoSigintsEnd
=============================================================================
