--------------------------- MODULE BenchmarkHistory ---------------------------
(* What the benchmark history promises: a run is worked on at most once, its *)
(* record gets a final status only after the run has stopped working, and a *)
(* final status never changes.  A run that lost its server is finished as   *)
(* interrupted by whoever owns the history next.                            *)
EXTENDS Naturals

CONSTANTS Runs, Final

VARIABLES
  phase,    \* phase[r]: "waiting", "executing", "concluding" or "over"
  record    \* record[r]: "none", "running" (a checkpoint) or a final status

Init ==
  /\ phase = [r \in Runs |-> "waiting"]
  /\ record = [r \in Runs |-> "none"]

Move(r, from, to) == phase[r] \in from /\ phase' = [phase EXCEPT ![r] = to]

Admit(r) == Move(r, {"waiting"}, "executing") /\ UNCHANGED record

\* The run's own work is over, whatever came of it.
StopWork(r) == Move(r, {"executing"}, "concluding") /\ UNCHANGED record

\* The server lets go of the run, or is killed.
Leave(r) == Move(r, {"executing", "concluding"}, "over") /\ UNCHANGED record

\* A killed server's run is over for everybody at once.
LeaveAll(rs) ==
  /\ phase' = [r \in Runs |-> IF r \in rs THEN "over" ELSE phase[r]]
  /\ \A r \in rs : phase[r] \in {"executing", "concluding"}
  /\ UNCHANGED record

\* A checkpoint preserves evidence; one that was on its way may land late.
Checkpoint(r) ==
  /\ phase[r] # "waiting" /\ record[r] = "none"
  /\ record' = [record EXCEPT ![r] = "running"]
  /\ UNCHANGED phase

Conclude(r, status) ==
  /\ phase[r] = "concluding" \/ phase[r] = "over"
  /\ record[r] \in {"none", "running"}
  /\ record' = [record EXCEPT ![r] = status]
  /\ UNCHANGED phase

Next ==
  \/ \E r \in Runs : \/ Admit(r) \/ StopWork(r) \/ Leave(r) \/ Checkpoint(r)
                     \/ \E s \in Final : Conclude(r, s)
  \/ \E rs \in SUBSET Runs : LeaveAll(rs)

Spec == Init /\ [][Next]_<<phase, record>>
=============================================================================
