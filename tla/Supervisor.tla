------------------------------ MODULE Supervisor ------------------------------
(***************************************************************************)
(* TokioProcessSupervisor (crates/scala-engine/src/supervisor.rs): the     *)
(* table of managed engine processes and one actor task per child.         *)
(*                                                                         *)
(* A process is a number: the n-th child this server ever spawned, which   *)
(* stands for the fresh supervisor_id.  `status' is what the exit watch    *)
(* channel shows (live: no exit published; stopped: an exit with           *)
(* expected = true; crashed: expected = false), `tracked' whether the      *)
(* table still has the entry, `terminate' whether a Terminate command has  *)
(* been sent to the child's actor.                                         *)
(*                                                                         *)
(* Log tails, temporary launch files and the graceful-then-forced signal   *)
(* sequence are left out.                                                  *)
(***************************************************************************)
EXTENDS Naturals

CONSTANTS
  MaxProcesses,   \* bound on the children one behaviour spawns
  TimeOuts        \* may a termination exceed its timeout

ASSUME SupervisorAssumption == MaxProcesses \in Nat /\ TimeOuts \in BOOLEAN

VARIABLE process        \* the children, spawned and not yet spawned

Process == 1..MaxProcesses

\* Option<ProcessDescriptor>::None
NoProcess == 0

ProcessRecord ==
  [status : {"unborn", "live", "stopped", "crashed"}, tracked : BOOLEAN, terminate : BOOLEAN]

SupervisorTypeOK == process \in [Process -> ProcessRecord]

SupervisorInit ==
  process = [x \in Process |-> [status |-> "unborn", tracked |-> FALSE, terminate |-> FALSE]]

Exited(x) == process[x].status \in {"stopped", "crashed"}

Live(x) == process[x].status = "live"

\* The retain() at the head of `spawn': entries whose exit has been
\* published leave the table.
Retained(x) == [process[x] EXCEPT !.tracked = @ /\ ~Exited(x)]

(***************************************************************************)
(* spawn: prunes the table, then inserts the new child and starts its      *)
(* actor.                                                                  *)
(***************************************************************************)
Spawn(x) ==
  /\ process[x].status = "unborn"
  /\ \A y \in Process : y < x => process[y].status # "unborn"
  /\ process' = [y \in Process |->
                   IF y = x THEN [status |-> "live", tracked |-> TRUE, terminate |-> FALSE]
                   ELSE Retained(y)]

(***************************************************************************)
(* terminate, in parts.  A process that is not in the table is an error,   *)
(* even if it exited long ago; one whose exit is published is Ok at once;  *)
(* otherwise a command is sent and the caller waits for the exit, which    *)
(* may take longer than the timeout.                                       *)
(***************************************************************************)
TerminateRefused(x) == ~process[x].tracked

TerminateDone(x) == process[x].tracked /\ Exited(x)

TerminateTimesOut(x) == TimeOuts /\ Live(x) /\ process[x].terminate

SendTerminate(x) ==
  /\ process[x].tracked
  /\ Live(x)
  /\ process' = [process EXCEPT ![x].terminate = TRUE]

(***************************************************************************)
(* run_child_actor: whichever of the command and the exit comes first.     *)
(***************************************************************************)
ChildTerminated(x) ==
  /\ Live(x)
  /\ process[x].terminate
  /\ process' = [process EXCEPT ![x].status = "stopped"]

ChildExits(x) ==
  /\ Live(x)
  /\ process' = [process EXCEPT ![x].status = "crashed"]

(***************************************************************************)
(* shutdown: every tracked child is terminated in turn, an error is only   *)
(* logged, then the table is cleared.                                      *)
(***************************************************************************)
SupervisorShutdownBegins ==
  process' = [x \in Process |->
                [process[x] EXCEPT !.terminate = @ \/ (process[x].tracked /\ Live(x))]]

SupervisorShutdownEnds ==
  /\ \A x \in Process : process[x].tracked => Exited(x) \/ TerminateTimesOut(x)
  /\ process' = [x \in Process |-> [process[x] EXCEPT !.tracked = FALSE]]

=============================================================================
