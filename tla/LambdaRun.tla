------------------------------ MODULE LambdaRun ------------------------------
(***************************************************************************)
(* `soup train --cloud lambda --cloud-submit` (cloud/lambda_labs.py): the  *)
(* soup process spawns a controller and waits for it; the controller, the  *)
(* program the module renders, launches a paid instance, trains on it,     *)
(* copies the output back and terminates it in a `finally` block.  Ctrl+C  *)
(* is a SIGINT to both processes; each takes it, as KeyboardInterrupt,     *)
(* between two steps of its own.                                           *)
(***************************************************************************)
EXTENDS Naturals

CONSTANT Presses   \* bound: Ctrl+C pressed

ASSUME PressesAssumption == Presses \in Nat

VARIABLES
  parent,     \* where submit_lambda_run is
  parentRc,   \* what it returned
  pending,    \* the processes with a SIGINT not yet raised
  ctrl,       \* where the controller is
  known,      \* instance_id is not None
  rc,         \* main's rc
  unwinding,  \* a KeyboardInterrupt is on its way out of main
  instance,   \* the provider's: what has become of the instance
  copied,     \* the checkpoints are in the local output directory
  presses,
  \* history:
  struck,     \* where the controller was when an interrupt was raised in it
  refused     \* the requests the API failed

parentVars == <<parent, parentRc>>
ctrlVars == <<ctrl, known, rc, unwinding, copied>>
lambdaHistory == <<struck, refused>>
lambdaVars == <<parentVars, pending, ctrlVars, instance, presses, lambdaHistory>>

\* Exit statuses 0, 1 and 2, and that of a process KeyboardInterrupt ended.
Statuses == {"success", "failure", "misconfigured", "interrupt"}
InTry == {"launching", "booting", "training", "copying"}
InFinally == {"terminating", "confirming"}
Running == {"starting"} \cup InTry \cup InFinally

LambdaTypeOK ==
  /\ parent \in {"spawning", "forked", "waiting", "handling", "notifying", "returned", "raised"}
  /\ parentRc \in Statuses \cup {"none"} /\ (parentRc = "none" <=> parent # "returned")
  /\ pending \subseteq {"parent", "controller"}
  /\ ctrl \in {"none", "gone"} \cup Running
  /\ {known, unwinding, copied} \subseteq BOOLEAN
  /\ rc \in Statuses
  /\ instance \in {"none", "active", "stopping", "terminated"}
  /\ presses \in 0 .. Presses
  /\ struck \subseteq Running /\ refused \subseteq {"launch", "terminate", "confirm"}

LambdaInit ==
  /\ parent = "spawning" /\ parentRc = "none"
  /\ pending = {} /\ presses = 0
  /\ ctrl = "none" /\ known = FALSE /\ rc = "failure" /\ unwinding = FALSE /\ copied = FALSE
  /\ instance = "none"
  /\ struck = {} /\ refused = {}

-----------------------------------------------------------------------------
(* The terminal.                                                           *)

\* To the foreground group; a second signal of a process that has one pending is lost.
CtrlC ==
  /\ presses < Presses
  /\ parent \notin {"returned", "raised"} \/ ctrl \in Running
  /\ presses' = presses + 1
  /\ pending' = pending \cup {p \in {"parent", "controller"} :
                                IF p = "parent" THEN parent \notin {"returned", "raised"}
                                                ELSE ctrl \in Running}
  /\ UNCHANGED <<parentVars, ctrlVars, instance, lambdaHistory>>

-----------------------------------------------------------------------------
(* submit_lambda_run.                                                      *)

ParentGoes(from, to) ==
  /\ parent = from
  /\ parent' = to
  /\ UNCHANGED <<parentRc, pending, instance, presses, lambdaHistory>>

\* Inside Popen the controller exists; proc is still None.
Forks ==
  /\ ParentGoes("spawning", "forked")
  /\ ctrl' = "starting"
  /\ UNCHANGED <<known, rc, unwinding, copied>>

Assigns == ParentGoes("forked", "waiting") /\ UNCHANGED ctrlVars

\* The except clause, but for the notice, and the jump back are outside every try.
Notifies == ParentGoes("handling", "notifying") /\ UNCHANGED ctrlVars
WaitsAgain == ParentGoes("notifying", "waiting") /\ UNCHANGED ctrlVars

ExitStatus == IF unwinding THEN "interrupt" ELSE rc

SubmitReturns ==
  /\ parent = "waiting" /\ ctrl = "gone"
  /\ parent' = "returned" /\ parentRc' = ExitStatus
  /\ UNCHANGED <<pending, ctrlVars, instance, presses, lambdaHistory>>

\* Mutant of AfterInterrupt: an interrupt ends the wait.
AfterInterruptReturns == IF parent = "waiting" THEN "returned" ELSE "raised"

\* What an interrupt makes of the parent: proc.wait() raises it into the handler, the
\* notice swallows it, everything else lets it out.
AfterInterrupt ==
  CASE parent = "waiting"   -> "handling"
    [] parent = "notifying" -> "waiting"
    [] OTHER                -> "raised"

ParentInterrupted ==
  /\ "parent" \in pending /\ parent \notin {"returned", "raised"}
  /\ pending' = pending \ {"parent"}
  /\ parent' = AfterInterrupt
  /\ UNCHANGED <<parentRc, ctrlVars, instance, presses, lambdaHistory>>

-----------------------------------------------------------------------------
(* The controller: main.                                                   *)

At(pc) == ctrl = pc /\ UNCHANGED <<parentVars, pending, presses>>

\* A missing key or credential, before anything is launched.
Declines ==
  /\ At("starting")
  /\ ctrl' = "gone" /\ rc' = "misconfigured"
  /\ UNCHANGED <<known, unwinding, copied, instance, lambdaHistory>>

LaunchRequested ==
  /\ At("starting")
  /\ ctrl' = "launching"
  /\ UNCHANGED <<known, rc, unwinding, copied, instance, lambdaHistory>>

\* The provider takes the request, and may do so whatever becomes of the answer.
ProviderLaunches ==
  /\ At("launching") /\ instance = "none"
  /\ instance' = "active"
  /\ UNCHANGED <<ctrlVars, lambdaHistory>>

LaunchAnswered ==
  /\ At("launching") /\ instance # "none"
  /\ known' = TRUE /\ ctrl' = "booting"
  /\ UNCHANGED <<rc, unwinding, copied, instance, lambdaHistory>>

\* An HTTP error, a timeout or an answer without exactly one id.
LaunchFails ==
  /\ At("launching")
  /\ ctrl' = "gone" /\ refused' = refused \cup {"launch"}
  /\ UNCHANGED <<known, rc, unwinding, copied, instance, struck>>

Boots ==
  /\ At("booting") /\ instance = "active"
  /\ ctrl' = "training"
  /\ UNCHANGED <<known, rc, unwinding, copied, instance, lambdaHistory>>

RemoteTrains ==
  /\ At("training") /\ instance = "active"
  /\ ctrl' = "copying"
  /\ UNCHANGED <<known, rc, unwinding, copied, instance, lambdaHistory>>

Copies ==
  /\ At("copying") /\ instance = "active"
  /\ copied' = TRUE /\ rc' = "success" /\ ctrl' = "terminating"
  /\ UNCHANGED <<known, unwinding, instance, lambdaHistory>>

\* Mutant of AfterFailure: the exception leaves main.
AfterFailureGone == "gone"

\* Any exception after the launch leads through `finally`.
AfterFailure == "terminating"

\* No IP in time, a training that failed, no exit status or a failed copy.
RemoteFails ==
  /\ \E pc \in {"booting", "training", "copying"} : At(pc)
  /\ ctrl' = AfterFailure
  /\ UNCHANGED <<known, rc, unwinding, copied, instance, lambdaHistory>>

\* The terminate request, where the provider takes it.
Stopped(i) == IF i = "active" THEN "stopping" ELSE i

Terminates ==
  /\ At("terminating")
  /\ instance' = Stopped(instance)
  /\ ctrl' = "confirming"
  /\ UNCHANGED <<known, rc, unwinding, copied, lambdaHistory>>

\* Printed as CRITICAL.
RcOfFailure == "failure"

TerminateFails ==
  /\ At("terminating")
  /\ instance' \in {instance, Stopped(instance)}
  /\ ctrl' = "gone" /\ rc' = RcOfFailure
  /\ refused' = refused \cup {"terminate"}
  /\ UNCHANGED <<known, unwinding, copied, struck>>

\* _wait_for_termination: the API says terminated, or does not know the instance.
Confirms == instance = "terminated"

Confirmed ==
  /\ At("confirming") /\ Confirms
  /\ ctrl' = "gone"
  /\ UNCHANGED <<known, rc, unwinding, copied, instance, lambdaHistory>>

\* Not confirmed in five minutes, or an error of the API.
ConfirmFails ==
  /\ At("confirming")
  /\ ctrl' = "gone" /\ rc' = RcOfFailure
  /\ refused' = refused \cup {"confirm"}
  /\ UNCHANGED <<known, unwinding, copied, instance, struck>>

\* KeyboardInterrupt is no Exception: no except clause takes it, and within `finally` it
\* ends that too, with the request on its way or not.
ControllerInterrupted ==
  /\ "controller" \in pending /\ ctrl \in Running
  /\ pending' = pending \ {"controller"}
  /\ ctrl' = IF known /\ ctrl \in InTry THEN AfterFailure ELSE "gone"
  /\ unwinding' = TRUE
  /\ struck' = struck \cup {ctrl}
  /\ instance' \in {instance} \cup (IF ctrl = "terminating" THEN {Stopped(instance)} ELSE {})
  /\ UNCHANGED <<parentVars, known, rc, copied, presses, refused>>

-----------------------------------------------------------------------------
(* The provider.                                                           *)

ProviderStops ==
  /\ instance = "stopping"
  /\ instance' = "terminated"
  /\ UNCHANGED <<parentVars, pending, ctrlVars, presses, lambdaHistory>>

\* The instance becomes unhealthy, or is taken back.
InstanceDies ==
  /\ instance = "active"
  /\ instance' = "terminated"
  /\ UNCHANGED <<parentVars, pending, ctrlVars, presses, lambdaHistory>>

Parent == Forks \/ Assigns \/ Notifies \/ WaitsAgain \/ SubmitReturns
Controller ==
  \/ Declines \/ LaunchRequested \/ LaunchAnswered \/ LaunchFails
  \/ Boots \/ RemoteTrains \/ Copies \/ RemoteFails
  \/ Terminates \/ TerminateFails \/ Confirmed \/ ConfirmFails
Provider == ProviderLaunches \/ ProviderStops

LambdaNext == CtrlC \/ Parent \/ ParentInterrupted \/ Controller \/ ControllerInterrupted
          \/ Provider \/ InstanceDies

\* Both processes go on: every request and wait has a timeout; the copy, which has none,
\* is taken to end.
LambdaSpec == LambdaInit /\ [][LambdaNext]_lambdaVars
          /\ WF_lambdaVars(Parent) /\ WF_lambdaVars(Controller) /\ WF_lambdaVars(Provider)

-----------------------------------------------------------------------------
(* Properties.                                                             *)

\* soup reports success only of a run whose checkpoints are here and whose instance is
\* gone, whatever was interrupted on the way.
SuccessIsWhole == parentRc = "success" => copied /\ instance = "terminated"

\* A run that soup reports on is over: no controller is still at work on it, and its
\* status is the one soup returns.
ReportedIsOver == parent = "returned" => ctrl = "gone" /\ parentRc = ExitStatus

\* What soup returns is what became of the run.
StatusIsTrue == SuccessIsWhole /\ ReportedIsOver

\* The controller leaves no instance behind but where the API failed it or an interrupt
\* met it in the launch request or in its cleanup: interrupts and failures of the
\* training itself never do.
CleanedUnlessExcused ==
  ctrl = "gone" /\ instance = "active" =>
    refused \cap {"launch", "terminate"} # {} \/ struck \cap {"launching", "terminating"} # {}

\* An instance the controller knows of does not run for ever, with the same exceptions.
InstancesEnd ==
  known ~> (instance = "terminated" \/ "terminate" \in refused \/ "terminating" \in struck)

(* What comments and documentation say and the code does not do.           *)

\* Ctrl+C never skips the controller's cleanup of an instance it knows of.
InterruptsKeepCleanup == ctrl = "gone" /\ known /\ refused = {} => instance # "active"
=============================================================================
