------------------------------ MODULE TrainLog ------------------------------
(***************************************************************************)
(* The training log of the web UI (ui/app.py).  A training is a subprocess *)
(* that prints into a pipe; a thread drains the pipe into a bounded buffer *)
(* from which any number of SSE readers take, each at its own pace.  A     *)
(* reader whose connection broke comes back with the id of the last line   *)
(* it got.  Each training has a pipe, a thread and a buffer of its own;    *)
(* what is global is which training is the current one.                    *)
(***************************************************************************)
EXTENDS Integers, Sequences, FiniteSets, SequencesExt

CONSTANTS
  Reader,
  Trainings, \* bound: trainings started
  Lines,     \* bound: lines a training prints
  PipeLines, \* what the pipe holds
  MaxLen     \* what the buffer holds

Training == 1 .. Trainings

ASSUME TrainLogAssumption ==
  {Trainings, Lines, PipeLines, MaxLen} \subseteq Nat \ {0}

VARIABLES
  current, \* the training _train_process and _train_log_buffer belong to, 0 for none
  proc,    \* each training's process
  printed, \* how many lines it has printed
  buffer,  \* its TrainLogBuffer: lines (by their ids), total_emitted, done
  reader,  \* the connections
  \* history:
  got,     \* the lines each reader got of the training it is connected to, by id
  stranger \* readers that came back with the id of another training's line

trainings == <<current, proc, printed, buffer>>
trainLogVars == <<current, proc, printed, buffer, reader, got, stranger>>

Id == 0 .. Lines - 1
NoLine == -1
NoReader ==
  [pc |-> "away", training |-> 0, next |-> 0, batch |-> <<>>, done |-> FALSE, last |-> NoLine]

LogTypeOK ==
  /\ current \in 0 .. Trainings
  /\ proc \in [Training -> {"none", "running", "told", "exited"}]
  /\ printed \in [Training -> 0 .. Lines]
  /\ \A t \in Training :
       /\ buffer[t].lines \in BoundedSeq(Id, MaxLen)
       /\ buffer[t].emitted \in 0 .. printed[t]
       /\ buffer[t].done \in BOOLEAN
  /\ \A r \in Reader :
       /\ reader[r].pc \in {"away", "waiting", "sending", "draining", "finished"}
       /\ reader[r].training \in 0 .. current
       /\ {reader[r].next, reader[r].last + 1} \subseteq 0 .. Lines
       /\ reader[r].batch \in BoundedSeq(Id, MaxLen) /\ reader[r].done \in BOOLEAN
       /\ got[r] \subseteq Id
  /\ stranger \subseteq Reader

LogInit ==
  /\ current = 0
  /\ proc = [t \in Training |-> "none"]
  /\ printed = [t \in Training |-> 0]
  /\ buffer = [t \in Training |-> [lines |-> <<>>, emitted |-> 0, done |-> FALSE]]
  /\ reader = [r \in Reader |-> NoReader]
  /\ got = [r \in Reader |-> {}] /\ stranger = {}

-----------------------------------------------------------------------------
(* The training.                                                           *)

Runs(t) == proc[t] \in {"running", "told"}

\* POST /api/train/start, refused while the process of the last one runs.
Start ==
  /\ current < Trainings
  /\ \A t \in Training : t = current => ~Runs(t)
  /\ current' = current + 1
  /\ proc' = [proc EXCEPT ![current + 1] = "running"]
  /\ UNCHANGED <<printed, buffer, reader, got, stranger>>

\* POST /api/train/stop: the process is asked to terminate.
Stop ==
  /\ current # 0 /\ Runs(current)
  /\ proc' = [proc EXCEPT ![current] = "told"]
  /\ UNCHANGED <<current, printed, buffer, reader, got, stranger>>

\* The process blocks while the pipe is full.
Prints(t) ==
  /\ Runs(t)
  /\ printed[t] < Lines
  /\ printed[t] - buffer[t].emitted < PipeLines
  /\ printed' = [printed EXCEPT ![t] = @ + 1]
  /\ UNCHANGED <<current, proc, buffer, reader, got, stranger>>

Exits(t) ==
  /\ Runs(t)
  /\ proc' = [proc EXCEPT ![t] = "exited"]
  /\ UNCHANGED <<current, printed, buffer, reader, got, stranger>>

-----------------------------------------------------------------------------
(* The buffer and the thread that fills it.                                *)

\* TrainLogBuffer.append: the oldest line goes when the buffer is full.
Appended(b) ==
  LET lines == Append(b.lines, b.emitted) IN
  IF Len(lines) > MaxLen THEN Tail(lines) ELSE lines

InPipe(t) == buffer[t].emitted < printed[t]

\* One line of the pipe.
Drains(t) ==
  /\ proc[t] # "none" /\ ~buffer[t].done
  /\ InPipe(t)
  /\ buffer' = [buffer EXCEPT ![t] =
       [lines |-> Appended(@), emitted |-> @.emitted + 1, done |-> FALSE]]
  /\ UNCHANGED <<current, proc, printed, reader, got, stranger>>

\* The pipe is empty and nobody can print into it any more.
AtEof(t) == proc[t] = "exited" /\ buffer[t].emitted = printed[t]

MarksDone(t) ==
  /\ ~buffer[t].done
  /\ AtEof(t)
  /\ buffer' = [buffer EXCEPT ![t].done = TRUE]
  /\ UNCHANGED <<current, proc, printed, reader, got, stranger>>

-----------------------------------------------------------------------------
(* GET /api/train/logs.                                                    *)

\* Lines from an id on, which wait_for_lines_or_done and get_lines_from return.  The ids
\* in the buffer ascend, so those that qualify are its end.
LinesFrom(t, next) ==
  LET lines == buffer[t].lines
      qualify == Cardinality({i \in DOMAIN lines : lines[i] >= next})
  IN  SubSeq(lines, Len(lines) - qualify + 1, Len(lines))

Becomes(r, new) == reader' = [reader EXCEPT ![r] = new]

\* With Last-Event-ID, if the reader has got a line: in the generator the buffer is the
\* current one, whichever the line came from.
Connects(r) ==
  LET old == reader[r] IN
  /\ old.pc = "away"
  /\ IF current = 0
       THEN Becomes(r, [old EXCEPT !.pc = "finished"]) /\ UNCHANGED <<got, stranger>>
       ELSE /\ Becomes(r, [old EXCEPT !.pc = "waiting", !.training = current,
                                       !.next = old.last + 1])
            /\ got' = IF old.training = current THEN got ELSE [got EXCEPT ![r] = {}]
            /\ stranger' = IF old.training # current /\ old.last # NoLine
                              THEN stranger \cup {r} ELSE stranger
  /\ UNCHANGED trainings

\* Mutant of ReaderWakes: only a line ends the wait.
ReaderWakesForLines(batch, done) == batch # <<>>

ReaderWakes(batch, done) == batch # <<>> \/ done

\* wait_for_lines_or_done returns something; a timeout with nothing changes nothing.
Takes(r) ==
  LET me == reader[r] IN
  /\ me.pc = "waiting"
  /\ LET batch == LinesFrom(me.training, me.next)
         done == buffer[me.training].done
     IN  /\ ReaderWakes(batch, done)
         /\ Becomes(r, [me EXCEPT !.pc = "sending", !.batch = batch, !.done = done])
  /\ UNCHANGED <<trainings, got, stranger>>

\* Mutant of NextAfter: the line itself.
NextAfterAgain(id) == id

NextAfter(id) == id + 1

\* One frame, which the reader receives.
Sends(r) ==
  LET me == reader[r] IN
  /\ me.pc \in {"sending", "draining"}
  /\ me.batch # <<>>
  /\ LET id == Head(me.batch) IN
       /\ Becomes(r, [me EXCEPT !.batch = Tail(@), !.next = NextAfter(id), !.last = id])
       /\ got' = [got EXCEPT ![r] = @ \cup {id}]
  /\ UNCHANGED <<trainings, stranger>>

\* The batch is sent: wait again or, if the training was done when it was taken, look
\* once more and send what is left.
LooksAgain(r) ==
  LET me == reader[r] IN
  /\ me.pc = "sending" /\ me.batch = <<>>
  /\ Becomes(r, IF me.done
                  THEN [me EXCEPT !.pc = "draining", !.batch = LinesFrom(me.training, me.next)]
                  ELSE [me EXCEPT !.pc = "waiting"])
  /\ UNCHANGED <<trainings, got, stranger>>

\* event: done
Finishes(r) ==
  /\ reader[r].pc = "draining" /\ reader[r].batch = <<>>
  /\ Becomes(r, [reader[r] EXCEPT !.pc = "finished", !.done = FALSE])
  /\ UNCHANGED <<trainings, got, stranger>>

\* The connection breaks, with whatever was under way in it.
Breaks(r) ==
  /\ reader[r].pc \in {"waiting", "sending", "draining"}
  /\ Becomes(r, [reader[r] EXCEPT !.pc = "away", !.batch = <<>>, !.done = FALSE])
  /\ UNCHANGED <<trainings, got, stranger>>

\* A new page, which has got nothing yet.
Reloads(r) ==
  /\ reader[r].pc \in {"away", "finished"}
  /\ Becomes(r, NoReader)
  /\ got' = [got EXCEPT ![r] = {}]
  /\ stranger' = stranger \ {r}
  /\ UNCHANGED trainings

-----------------------------------------------------------------------------
Worker(t) == Drains(t) \/ MarksDone(t)
Serves(r) == Takes(r) \/ Sends(r) \/ LooksAgain(r) \/ Finishes(r)

LogNext ==
  \/ Start \/ Stop
  \/ \E t \in Training : Prints(t) \/ Exits(t) \/ Worker(t)
  \/ \E r \in Reader : Connects(r) \/ Serves(r) \/ Breaks(r) \/ Reloads(r)

\* The thread runs whether or not anybody reads; a generator runs while its client takes.
LogFairness ==
  /\ \A t \in Training : WF_trainLogVars(Worker(t))
  /\ \A r \in Reader : WF_trainLogVars(Serves(r))

LogSpec == LogInit /\ [][LogNext]_trainLogVars /\ LogFairness

-----------------------------------------------------------------------------
(* Properties.                                                             *)

Connected(r) == reader[r].pc \in {"waiting", "sending", "draining"}

\* A reader has got every line before the one it is at, but for lines that had to make
\* room in the buffer: none is skipped when it is slow, breaks off or comes back.
NothingSkipped ==
  \A r \in Reader \ stranger : Connected(r) =>
    LET b == buffer[reader[r].training] IN
    \A id \in 0 .. reader[r].next - 1 : id \in got[r] \/ id < b.emitted - MaxLen

\* event: done is sent when the reader has got all the lines the training printed, as
\* far as the buffer holds them (mark_done after the last line, the second look).
DoneMeansAll ==
  \A r \in Reader \ stranger :
    LET t == reader[r].training IN
    reader[r].pc = "finished" /\ t # 0 =>
      /\ buffer[t].done
      /\ \A id \in 0 .. printed[t] - 1 : id \in got[r] \/ id < printed[t] - MaxLen

\* No line is sent twice to a page, however often it has to connect.
NoLineTwice ==
  [][\A r \in Reader : Sends(r) => Head(reader[r].batch) \notin got[r]]_trainLogVars

\* A training whose output nobody reads goes on: the pipe does not stay full (#688).
PipeIsDrained ==
  \A t \in Training : printed[t] - buffer[t].emitted = PipeLines
                        ~> printed[t] - buffer[t].emitted < PipeLines

\* A reader that stays is told that the training is over.
ReadersAreReleased ==
  \A r \in Reader : \A t \in Training :
    (reader[r].training = t /\ Connected(r) /\ proc[t] = "exited")
      ~> (reader[r].pc \in {"away", "finished"})

\* What a page may rely on to show the whole output once.
LinesArriveOnce == []NothingSkipped /\ []DoneMeansAll /\ NoLineTwice

\* Neither side waits for the other for ever.
NobodyIsStuck == PipeIsDrained /\ ReadersAreReleased
=============================================================================
