------------------------------ MODULE Benchmark ------------------------------
(* The benchmark service of a server: the claim of the benchmark history,   *)
(* the reservation that keeps other work away from an admitted run, the     *)
(* run's task with its measurements and its two-stage clean-up, and the     *)
(* record store that several processes share through advisory locks.        *)
(*                                                                         *)
(* Only the process that owns the history serves, so the in-memory state    *)
(* below is the owner's; a crash empties it.  Store operations are blocking *)
(* jobs: a future that is dropped stops listening to its job, not the job.  *)
EXTENDS Naturals, FiniteSets

CONSTANTS
  Procs,    \* operating system processes that may become the server
  Runs,     \* run identities, each used once (a bound)
  Clients,  \* callers of inference, load and unload
  Tasks,    \* measurements of a run after the warm-up (a bound)
  Reaper,   \* the idle reaper
  NoOne

ASSUME BenchmarkAssumption ==
  /\ Tasks \in Nat
  /\ NoOne \notin Procs \cup Runs \cup Clients \cup {Reaper}
  /\ Reaper \notin Clients
  /\ "run" \notin Clients \cup {Reaper, NoOne}    \* the run is an actor too

Final == {"completed", "cancelled", "failed", "incomplete", "interrupted"}

Actors == Clients \cup {Reaper, "run"}

VARIABLES
  \* the store
  active,       \* active[r]: the checkpoint file exists
  terminal,     \* terminal[r]: status in the terminal record, or "none"
  summary,      \* summary[r]: status in the summary file, or "none"
  jobs,         \* store operations on blocking threads
  owner,        \* the process that locks the .owner file
  \* processes
  server,       \* server[p]: how far process p is
  \* memory of the owner
  used,         \* the run identities handed out
  run,          \* the run that holds the reservation
  pc,           \* pc[a]: what an actor is doing
  stopper,      \* stopper[a]: the spawned unload task of an actor
  operation,    \* holder of the operation mutex
  packs,        \* holder of the runtime packs mutex
  load,         \* the load task of the backend
  backend,      \* the benchmarked profile's entry and its process
  orphan,       \* a request the run dropped, as the backend sees it
  quarantined

store == <<active, terminal, summary>>
manager == <<pc, stopper, operation, load, backend>>
vars == <<active, terminal, summary, jobs, owner, server, used, run, pc, stopper,
          operation, packs, load, backend, orphan, quarantined>>

(***************************************************************************)
(* The record store.                                                       *)
(***************************************************************************)
\* A job waits for the directory lock, holds it while it writes, and ends "ok"
\* or "err".  "recover" is the status of the owner's recovery job.
Job(p, r, status) ==
  [proc |-> p, run |-> r, status |-> status, pc |-> "lock", heard |-> TRUE]

Holding == {"write", "summary", "remove", "scan"}

LockFree == \A j \in jobs : j.pc \notin Holding

\* A job nobody listens to any more leaves no result behind.
Advance(j, next) ==
  jobs' = (jobs \ {j}) \cup
            (IF next \in {"ok", "err"} /\ ~j.heard THEN {} ELSE {[j EXCEPT !.pc = next]})

\* Mutant: a final record may be written again.
MUT_SaveLocks(j) ==
  /\ j.status # "recover" /\ j.pc = "lock" /\ LockFree
  /\ Advance(j, "write")
  /\ UNCHANGED store

\* Terminal records are immutable.
SaveLocks(j) ==
  /\ j.status # "recover" /\ j.pc = "lock" /\ LockFree
  /\ Advance(j, IF terminal[j.run] # "none" THEN "err" ELSE "write")
  /\ UNCHANGED store

SaveWrites(j) ==
  /\ j.status # "recover" /\ j.pc = "write"
  /\ IF j.status = "running"
     THEN active' = [active EXCEPT ![j.run] = TRUE] /\ UNCHANGED terminal
     ELSE terminal' = [terminal EXCEPT ![j.run] = j.status] /\ UNCHANGED active
  /\ Advance(j, "summary")
  /\ UNCHANGED summary

\* The checkpoint is removed last, so that an interruption leaves it to recovery.
SaveSummarises(j) ==
  /\ j.status # "recover" /\ j.pc = "summary"
  /\ summary' = [summary EXCEPT ![j.run] = j.status]
  /\ Advance(j, IF j.status # "running" /\ active[j.run] THEN "remove" ELSE "ok")
  /\ UNCHANGED <<active, terminal>>

SaveRemoves(j) ==
  /\ j.status # "recover" /\ j.pc = "remove"
  /\ active' = [active EXCEPT ![j.run] = FALSE]
  /\ Advance(j, "ok")
  /\ UNCHANGED <<terminal, summary>>

\* Any step may meet an I/O error; the record of a finished run is also refused
\* when its deadline has passed.
JobFails(j) ==
  /\ j.pc \in Holding
  /\ Advance(j, "err")
  /\ UNCHANGED store

RecoverLocks(j) ==
  /\ j.status = "recover" /\ j.pc = "lock" /\ LockFree
  /\ Advance(j, "scan")
  /\ UNCHANGED store

\* Mutant: a record that is final already gets no summary.
MUT_RecoverWrites(j, r) ==
  /\ j.status = "recover" /\ j.pc = "scan" /\ active[r]
  /\ terminal' = [terminal EXCEPT ![r] = IF @ = "none" THEN "interrupted" ELSE @]
  /\ jobs' = (jobs \ {j}) \cup
               {[j EXCEPT !.pc = IF terminal[r] = "none" THEN "summary" ELSE "remove", !.run = r]}
  /\ UNCHANGED <<active, summary>>

\* One checkpoint at a time: the terminal record, its summary, the removal.
RecoverWrites(j, r) ==
  /\ j.status = "recover" /\ j.pc = "scan" /\ active[r]
  /\ terminal' = [terminal EXCEPT ![r] = IF @ = "none" THEN "interrupted" ELSE @]
  /\ jobs' = (jobs \ {j}) \cup {[j EXCEPT !.pc = "summary", !.run = r]}
  /\ UNCHANGED <<active, summary>>

RecoverSummarises(j) ==
  /\ j.status = "recover" /\ j.pc = "summary"
  /\ summary' = [summary EXCEPT ![j.run] = terminal[j.run]]
  /\ Advance(j, "remove")
  /\ UNCHANGED <<active, terminal>>

RecoverRemoves(j) ==
  /\ j.status = "recover" /\ j.pc = "remove"
  /\ active' = [active EXCEPT ![j.run] = FALSE]
  /\ Advance(j, "scan")
  /\ UNCHANGED <<terminal, summary>>

RecoverEnds(j) ==
  /\ j.status = "recover" /\ j.pc = "scan" /\ \A r \in Runs : ~active[r]
  /\ Advance(j, "ok")
  /\ UNCHANGED store

StoreStep ==
  /\ \E j \in jobs :
       \/ SaveLocks(j) \/ SaveWrites(j) \/ SaveSummarises(j) \/ SaveRemoves(j)
       \/ JobFails(j) \/ RecoverLocks(j) \/ RecoverSummarises(j)
       \/ RecoverRemoves(j) \/ RecoverEnds(j)
       \/ \E r \in Runs : RecoverWrites(j, r)
  /\ UNCHANGED <<owner, server, used, run, manager, packs, orphan, quarantined>>

(***************************************************************************)
(* The memory of a server.                                                 *)
(***************************************************************************)
NoRun == [id |-> NoOne, pc |-> "none", then |-> "none", status |-> "running",
          cancel |-> FALSE, pinned |-> "none", task |-> 0, request |-> "none",
          observed |-> FALSE]

NoLoad == [by |-> NoOne, stage |-> "none"]

\* A "retiring" entry is a loading one whose caller has left.
Loading == {"loading", "retiring"}

NoBackend == [life |-> "none", process |-> "none"]

EmptyMemory ==
  /\ run' = NoRun
  /\ pc' = [a \in Actors |-> "idle"]
  /\ stopper' = [a \in Actors |-> "none"]
  /\ operation' = NoOne /\ packs' = NoOne
  /\ load' = NoLoad /\ backend' = NoBackend
  /\ orphan' = "none" /\ quarantined' = FALSE

Init ==
  /\ active = [r \in Runs |-> FALSE]
  /\ terminal = [r \in Runs |-> "none"] /\ summary = [r \in Runs |-> "none"]
  /\ jobs = {} /\ owner = NoOne
  /\ server = [p \in Procs |-> "down"]
  /\ used = {} /\ run = NoRun
  /\ pc = [a \in Actors |-> "idle"] /\ stopper = [a \in Actors |-> "none"]
  /\ operation = NoOne /\ packs = NoOne
  /\ load = NoLoad /\ backend = NoBackend
  /\ orphan = "none" /\ quarantined = FALSE

Executing == {"saving", "load", "loading", "build", "measure", "confirm", "verify", "end"}

Cleaning == {"stop", "kill", "unload", "unloading", "finish", "finalize"}

Serving == owner # NoOne /\ server[owner] \in {"serving", "draining", "closing"}

ShuttingDown == owner # NoOne /\ server[owner] \in {"draining", "closing"}

\* Callers between their admission and the end of what they hold the gate for.
Readers == {a \in Clients \cup {Reaper} : pc[a] \in {"asking", "jit", "unload"}}

\* Requests that have their target: the gate is free again, the lease is held.
Users == {c \in Clients : pc[c] = "using"}

\* Clients pass while no run holds the gate and nothing is quarantined.
Admission == Serving /\ ~quarantined /\ run.pc = "none"

(***************************************************************************)
(* Clients, the reaper and unloads.                                        *)
(***************************************************************************)
\* pc: "asking" (inference admitted, no target yet), "jit" (its own load),
\* "using" (leased), "manual" (a manual load admitted), "unload" (waits for its
\* stopper), "idle".
Ask(c) ==
  /\ Admission /\ ~ShuttingDown /\ pc[c] = "idle"
  /\ pc' = [pc EXCEPT ![c] = "asking"]
  /\ UNCHANGED <<stopper, operation, load, backend>>

\* The fast path, or the same answer under the operation mutex.
Target(c) ==
  /\ pc[c] = "asking" /\ backend.life = "running"
  /\ pc' = [pc EXCEPT ![c] = "using"]
  /\ UNCHANGED <<stopper, operation, load, backend>>

Refused(c) ==
  /\ pc[c] = "asking"
  /\ \/ operation = NoOne /\ backend.life \in Loading \cup {"stopping"}
     \/ TRUE    \* the caller disconnects
  /\ pc' = [pc EXCEPT ![c] = "idle"]
  /\ UNCHANGED <<stopper, operation, load, backend>>

StartLoad(by) ==
  /\ operation' = by
  /\ load' = [by |-> by, stage |-> IF by = "run" THEN "prepare" ELSE "ready"]
  /\ backend' = [life |-> "loading", process |-> IF by = "run" THEN "none" ELSE "live"]

JitLoad(c) ==
  /\ pc[c] = "asking" /\ operation = NoOne /\ backend.life = "none"
  /\ pc' = [pc EXCEPT ![c] = "jit"] /\ StartLoad(c)
  /\ UNCHANGED stopper

\* A manual load may replace a running backend nobody uses; its task owns the
\* operation mutex, the caller's gate is free again once it is admitted.
ManualLoad(c) ==
  /\ Admission /\ ~ShuttingDown /\ pc[c] = "idle" /\ operation = NoOne
  /\ backend.life \in {"none", "running"} /\ Users = {}
  /\ pc' = [pc EXCEPT ![c] = "manual"] /\ StartLoad(c)
  /\ UNCHANGED stopper

\* The load of a client ends: ready, failed or cancelled by an unload.
ClientLoadEnds(c) ==
  /\ load.by = c
  /\ \/ /\ backend.life = "loading"
        /\ backend' = [life |-> "running", process |-> "live"]
        /\ pc' = [pc EXCEPT ![c] = IF @ = "jit" THEN "using" ELSE "idle"]
     \/ /\ backend' = NoBackend
        /\ pc' = [pc EXCEPT ![c] = "idle"]
  /\ load' = NoLoad /\ operation' = NoOne
  /\ UNCHANGED stopper

\* A JIT caller disconnects: its guard spawns the retirement of the load.
JitDropped(c) ==
  /\ pc[c] = "jit" /\ stopper[c] = "none"
  /\ pc' = [pc EXCEPT ![c] = "idle"]
  /\ stopper' = [stopper EXCEPT ![c] = "retire"]
  /\ load' = NoLoad /\ operation' = NoOne
  /\ backend' = [backend EXCEPT !.life = IF @ = "loading" THEN "retiring" ELSE @]

\* It removes the entry unless an unload has got hold of it before.
Retire(c) ==
  /\ stopper[c] = "retire" /\ operation = NoOne
  /\ stopper' = [stopper EXCEPT ![c] = "none"]
  /\ backend' = IF backend.life = "retiring" THEN NoBackend ELSE backend
  /\ UNCHANGED <<pc, operation, load>>

FinishUse(c) ==
  /\ pc[c] = "using"
  /\ pc' = [pc EXCEPT ![c] = "idle"]
  /\ UNCHANGED <<stopper, operation, load, backend>>

\* The gate is held by the caller of an unload, the work is done by a task.
Unload(c) ==
  /\ Admission /\ pc[c] = "idle" /\ stopper[c] = "none"
  /\ pc' = [pc EXCEPT ![c] = "unload"]
  /\ stopper' = [stopper EXCEPT ![c] = "cancel"]
  /\ UNCHANGED <<operation, load, backend>>

UnloadDropped(c) ==
  /\ pc[c] = "unload"
  /\ pc' = [pc EXCEPT ![c] = "idle"]
  /\ UNCHANGED <<stopper, operation, load, backend>>

\* The reaper gives up when it cannot have the mutex at once.
Reap ==
  /\ Admission /\ pc[Reaper] = "idle" /\ operation = NoOne
  /\ backend.life = "running" /\ Users = {}
  /\ pc' = [pc EXCEPT ![Reaper] = "unload"]
  /\ stopper' = [stopper EXCEPT ![Reaper] = "drain"]
  /\ operation' = Reaper /\ backend' = [backend EXCEPT !.life = "stopping"]
  /\ UNCHANGED load

StopperCancels(a) ==
  /\ stopper[a] = "cancel"
  /\ stopper' = [stopper EXCEPT ![a] = "lock"]
  /\ backend' = [backend EXCEPT !.life = IF @ \in Loading THEN "stopping" ELSE @]
  /\ UNCHANGED <<pc, operation, load>>

StopperLocks(a) ==
  /\ stopper[a] = "lock" /\ operation = NoOne
  /\ operation' = a
  /\ stopper' = [stopper EXCEPT ![a] = "drain"]
  /\ backend' = [backend EXCEPT !.life = IF @ = "none" THEN @ ELSE "stopping"]
  /\ UNCHANGED <<pc, load>>

\* The process is terminated once every lease, the run's too, has been returned.
StopperStops(a) ==
  /\ stopper[a] = "drain" /\ Users = {} /\ run.request = "none"
  /\ stopper' = [stopper EXCEPT ![a] = "none"]
  /\ pc' = [pc EXCEPT ![a] = IF @ = "unload" THEN "idle" ELSE @]
  /\ operation' = NoOne /\ backend' = NoBackend
  /\ UNCHANGED load

ClientStep ==
  /\ \/ \E c \in Clients :
          \/ Ask(c) \/ Target(c) \/ Refused(c) \/ JitLoad(c) \/ ManualLoad(c)
          \/ ClientLoadEnds(c) \/ JitDropped(c) \/ Retire(c) \/ FinishUse(c)
          \/ Unload(c) \/ UnloadDropped(c)
     \/ Reap
     \/ \E a \in Actors : StopperCancels(a) \/ StopperLocks(a) \/ StopperStops(a)
  /\ run' = [run EXCEPT !.pinned =
               IF @ = "same" /\ backend' = NoBackend THEN "other" ELSE @]
  /\ orphan' = IF backend' = NoBackend THEN "none" ELSE orphan
  /\ UNCHANGED <<store, jobs, owner, server, used, packs, quarantined>>

\* The backend dies on its own.
BackendExits ==
  /\ backend.life = "running"
  /\ backend' = NoBackend /\ orphan' = "none"
  /\ run' = [run EXCEPT !.pinned = IF @ = "same" THEN "other" ELSE @]
  /\ UNCHANGED <<store, jobs, owner, server, used, pc, stopper, operation, packs,
                 load, quarantined>>

\* An installation, removal or selection of runtimes by the same server.
PackOperation ==
  /\ Serving
  /\ packs' = IF packs = NoOne THEN "packs" ELSE NoOne
  /\ packs # "run"
  /\ UNCHANGED <<store, jobs, owner, server, used, run, manager, orphan, quarantined>>

(***************************************************************************)
(* Admission of a run.                                                     *)
(***************************************************************************)
\* start_benchmark takes the gate and both mutexes without waiting.
StartRun(r) ==
  /\ Admission /\ ~ShuttingDown /\ r \notin used
  /\ Readers = {} /\ operation = NoOne /\ packs = NoOne
  /\ run' = [NoRun EXCEPT !.id = r, !.pc = "checking"]
  /\ operation' = "run" /\ packs' = "run"
  /\ UNCHANGED <<store, jobs, owner, server, used, pc, stopper, load, backend, orphan,
                 quarantined>>

\* Mutant: requests that already have their target are not seen.
MUT_Conflict == backend.life \in Loading \cup {"stopping"}

\* A request that has its target no longer holds the gate: only its lease shows.
Conflict == Users # {} \/ backend.life \in Loading \cup {"stopping"}

\* Busy, or the caller of the start disconnects before the task is spawned.
RefuseRun ==
  /\ run.pc = "checking"
  /\ run' = NoRun /\ operation' = NoOne /\ packs' = NoOne
  /\ UNCHANGED <<store, jobs, owner, server, used, pc, stopper, load, backend, orphan,
                 quarantined>>

Save(status) == jobs' = jobs \cup {Job(owner, run.id, status)}

AdmitRun ==
  /\ run.pc = "checking" /\ ~Conflict
  /\ used' = used \cup {run.id}
  /\ operation' = NoOne
  /\ run' = [run EXCEPT !.pc = "saving", !.then = "load"]
  /\ Save("running")
  /\ UNCHANGED <<store, owner, server, pc, stopper, packs, load, backend, orphan,
                 quarantined>>

(***************************************************************************)
(* The execution.                                                          *)
(***************************************************************************)
MyJob == {j \in jobs : j.proc = owner /\ j.run = run.id /\ j.heard /\ j.status # "recover"}

Outcome(reason) ==
  IF ShuttingDown THEN "interrupted"
  ELSE IF reason = "cancelled" THEN "cancelled"
  ELSE IF run.pinned = "none" THEN "failed" ELSE "incomplete"

\* The execution future ends or is dropped: a request it was streaming is left
\* to the backend, a save it awaited to its thread.
Abandon(reason) ==
  /\ run' = [run EXCEPT !.pc = "stop", !.then = "none", !.status = Outcome(reason),
                        !.request = "none"]
  /\ orphan' = IF run.request = "none" THEN orphan ELSE run.request

Deafen == {[j EXCEPT !.heard = IF j \in MyJob THEN FALSE ELSE @] : j \in jobs}

\* The cancel watch, the execution deadline or a panic.
Interrupt ==
  /\ run.pc \in Executing
  /\ \/ run.cancel /\ Abandon("cancelled")
     \/ Abandon("deadline")
  /\ jobs' = Deafen
  /\ UNCHANGED <<store, owner, server, used, manager, packs, quarantined>>

Saved ==
  /\ run.pc = "saving"
  /\ \E j \in MyJob :
       /\ j.pc \in {"ok", "err"} /\ jobs' = jobs \ {j}
       /\ IF j.pc = "ok"
          THEN run' = [run EXCEPT !.pc = run.then, !.then = "none"] /\ UNCHANGED orphan
          ELSE Abandon("store")
  /\ UNCHANGED <<store, owner, server, used, manager, packs, quarantined>>

\* Only the run's own futures pass the gate, and they too are refused by a
\* shutdown or by whoever has the operation mutex.  A running backend is reused
\* when it still matches its profile, else replaced.
RunLoad ==
  /\ run.pc = "load"
  /\ \/ /\ ShuttingDown \/ operation # NoOne \/ backend.life \in Loading \cup {"stopping"}
        /\ Abandon("busy")
        /\ UNCHANGED <<operation, load, backend, jobs>>
     \/ /\ ~ShuttingDown /\ operation = NoOne /\ backend.life \in {"none", "running"}
        /\ StartLoad("run")
        /\ run' = [run EXCEPT !.pc = "loading"]
        /\ UNCHANGED <<orphan, jobs>>
     \/ /\ ~ShuttingDown /\ operation = NoOne /\ backend.life = "running"
        /\ run' = [run EXCEPT !.pc = "saving", !.then = "build", !.pinned = "same"]
        /\ Save("running")
        /\ UNCHANGED <<operation, load, backend, orphan>>
  /\ UNCHANGED <<store, owner, server, used, pc, stopper, packs, quarantined>>

LoadSpawns ==
  /\ load = [by |-> "run", stage |-> "prepare"] /\ backend.life = "loading"
  /\ load' = [load EXCEPT !.stage = "spawn"]
  /\ backend' = [backend EXCEPT !.process = "unregistered"]
  /\ UNCHANGED <<store, jobs, owner, server, used, run, pc, stopper, operation, packs,
                 orphan, quarantined>>

\* Also a cancelled load registers the process it started.
LoadRegisters ==
  /\ load = [by |-> "run", stage |-> "spawn"]
  /\ load' = [load EXCEPT !.stage = "ready"]
  /\ backend' = [backend EXCEPT !.process = "live"]
  /\ UNCHANGED <<store, jobs, owner, server, used, run, pc, stopper, operation, packs,
                 orphan, quarantined>>

\* The load task ends, whoever still waits for it.
RunLoadEnds ==
  /\ load.by = "run"
  /\ \/ /\ load.stage = "ready" /\ backend.life = "loading"
        /\ backend' = [life |-> "running", process |-> "live"]
        /\ IF run.pc = "loading"
           THEN /\ run' = [run EXCEPT !.pc = "saving", !.then = "build", !.pinned = "same"]
                /\ Save("running")
           ELSE UNCHANGED <<run, jobs>>
        /\ UNCHANGED orphan
     \/ /\ load.stage # "spawn"
        /\ backend' = NoBackend
        /\ IF run.pc = "loading" THEN Abandon("load") ELSE UNCHANGED <<run, orphan>>
        /\ UNCHANGED jobs
  /\ load' = NoLoad /\ operation' = NoOne
  /\ UNCHANGED <<store, owner, server, used, pc, stopper, packs, quarantined>>

\* The request is built from the running entry, then the attempt is saved.
BuildRequest ==
  /\ run.pc = "build"
  /\ IF backend.life = "running"
     THEN /\ run' = [run EXCEPT !.pc = "saving", !.then = "measure", !.observed = FALSE]
          /\ Save("running")
          /\ UNCHANGED orphan
     ELSE Abandon("missing") /\ UNCHANGED jobs
  /\ UNCHANGED <<store, owner, server, used, manager, packs, quarantined>>

\* Inference of the run takes the backend as it is, never a JIT load.
Submit ==
  /\ run.pc = "measure" /\ run.request = "none"
  /\ IF backend.life = "running"
     THEN run' = [run EXCEPT !.request = "submitted"] /\ UNCHANGED orphan
     ELSE Abandon("target")
  /\ UNCHANGED <<store, jobs, owner, server, used, manager, packs, quarantined>>

\* The backend takes the request up; the run learns of it from the first event.
Arrives ==
  /\ run.request = "submitted" /\ backend.process = "live"
  /\ run' = [run EXCEPT !.request = "running"]
  /\ UNCHANGED <<store, jobs, owner, server, used, manager, packs, orphan, quarantined>>

Observe ==
  /\ run.request = "running" /\ ~run.observed /\ backend.process = "live"
  /\ run' = [run EXCEPT !.observed = TRUE]
  /\ UNCHANGED <<store, jobs, owner, server, used, manager, packs, orphan, quarantined>>

\* Completed, or refused by the backend before any work.
Measured ==
  /\ run.pc = "measure" /\ run.request # "none" /\ backend.process = "live"
  /\ run.observed \/ run.request = "submitted"
  /\ run' = [run EXCEPT !.pc = "saving", !.then = "verify", !.request = "none"]
  /\ Save("running")
  /\ UNCHANGED <<store, owner, server, used, manager, packs, orphan, quarantined>>

\* An infrastructure error of the stream ends the run.
MeasureFails ==
  /\ run.pc = "measure" /\ run.request # "none"
  /\ Abandon("infrastructure")
  /\ UNCHANGED <<store, jobs, owner, server, used, manager, packs, quarantined>>

\* The task deadline or an evidence limit: the stream is dropped.
TaskTimesOut ==
  /\ run.pc = "measure"
  /\ run' = [run EXCEPT !.pc = "confirm", !.request = "none"]
  /\ orphan' = IF run.request = "none" THEN orphan ELSE run.request
  /\ UNCHANGED <<store, jobs, owner, server, used, manager, packs, quarantined>>

\* The backend takes up a late submission, or notices that its caller left.
OrphanMoves ==
  /\ orphan # "none" /\ backend.process = "live"
  /\ orphan' \in {"running", "none"} \ {orphan}
  /\ UNCHANGED <<store, jobs, owner, server, used, run, manager, packs, quarantined>>

\* Mutant: a submitted request is not waited for.
MUT_StopProven == backend.life = "running" /\ orphan # "running"

\* An idle backend proves that the request has stopped only if it had started.
StopProven == run.observed /\ backend.life = "running" /\ orphan # "running"

Confirm ==
  /\ run.pc = "confirm" /\ StopProven /\ run.pinned = "same"
  /\ run' = [run EXCEPT !.pc = "saving", !.then = "verify"]
  /\ Save("running")
  /\ UNCHANGED <<store, owner, server, used, manager, packs, orphan, quarantined>>

\* No event seen, the confirmation timed out, or the pinned runtime is not there.
ConfirmFails ==
  /\ run.pc = "confirm"
  /\ Abandon("unverified")
  /\ UNCHANGED <<store, jobs, owner, server, used, manager, packs, quarantined>>

MoreTasks == run.task < Tasks

\* verify_pinned before each task and once at the end; somebody may have edited
\* the configuration meanwhile.
Verify ==
  /\ run.pc = "verify"
  /\ \/ /\ backend.life = "running" /\ run.pinned = "same"
        /\ IF MoreTasks
           THEN run' = [run EXCEPT !.pc = "build", !.task = @ + 1] /\ UNCHANGED jobs
           ELSE run' = [run EXCEPT !.pc = "saving", !.then = "end"] /\ Save("running")
        /\ UNCHANGED orphan
     \/ Abandon("changed") /\ UNCHANGED jobs
  /\ UNCHANGED <<store, owner, server, used, manager, packs, quarantined>>

Complete ==
  /\ run.pc = "end"
  /\ run' = [run EXCEPT !.pc = "finish", !.status = "completed"]
  /\ UNCHANGED <<store, jobs, owner, server, used, manager, packs, orphan, quarantined>>


(***************************************************************************)
(* The clean-up.                                                           *)
(***************************************************************************)
\* A load is aborted under the hand-off lock it holds from the spawn of its
\* process until it has registered it.
MayAbort == load.stage # "spawn"

StopAborts ==
  /\ run.pc = "stop" /\ MayAbort
  /\ run' = [run EXCEPT !.pc = "kill"]
  /\ IF load.by = "run" THEN load' = NoLoad /\ operation' = NoOne
                        ELSE UNCHANGED <<load, operation>>
  /\ UNCHANGED <<store, jobs, owner, server, used, pc, stopper, packs, backend, orphan,
                 quarantined>>

\* The process is killed without a drain, and a load entry is cancelled.
StopKills ==
  /\ run.pc = "kill"
  /\ run' = [run EXCEPT !.pc = "unloading",
                        !.pinned = IF @ = "same" THEN "other" ELSE @]
  /\ backend' = [life |-> IF backend.life \in Loading THEN "stopping" ELSE backend.life,
                 process |-> IF backend.process = "live" THEN "none" ELSE backend.process]
  /\ orphan' = "none"
  /\ stopper' = [stopper EXCEPT !["run"] = "cancel"]
  /\ UNCHANGED <<store, jobs, owner, server, used, pc, operation, packs, load,
                 quarantined>>

StopEnds ==
  /\ run.pc = "unloading" /\ stopper["run"] = "none"
  /\ run' = [run EXCEPT !.pc = "finish"]
  /\ UNCHANGED <<store, jobs, owner, server, used, manager, packs, orphan, quarantined>>

\* The clean-up deadline passes or the termination fails: what the run left
\* behind is unknown, so nothing is admitted until the server restarts.
StopFails ==
  /\ run.pc \in {"stop", "kill", "unloading"}
  /\ run' = [run EXCEPT !.pc = "finish"]
  /\ quarantined' = TRUE
  /\ UNCHANGED <<store, jobs, owner, server, used, manager, packs, orphan>>

Finish ==
  /\ run.pc = "finish"
  /\ run' = [run EXCEPT !.pc = "finalize"]
  /\ Save(run.status)
  /\ UNCHANGED <<store, owner, server, used, manager, packs, orphan, quarantined>>

\* The reservation is released when the final record is saved, refused or late.
Finalized ==
  /\ run.pc = "finalize"
  /\ \/ \E j \in MyJob : j.pc \in {"ok", "err"} /\ jobs' = jobs \ {j}
     \/ jobs' = Deafen
  /\ run' = NoRun /\ packs' = NoOne
  /\ UNCHANGED <<store, owner, server, used, manager, orphan, quarantined>>

RunStep ==
  \/ \E r \in Runs : StartRun(r)
  \/ RefuseRun \/ AdmitRun \/ Interrupt \/ Saved \/ RunLoad
  \/ LoadSpawns \/ LoadRegisters \/ RunLoadEnds
  \/ BuildRequest \/ Submit \/ Arrives \/ Observe \/ Measured \/ MeasureFails
  \/ TaskTimesOut \/ OrphanMoves \/ Confirm \/ ConfirmFails \/ Verify \/ Complete
  \/ StopAborts \/ StopKills \/ StopEnds \/ StopFails \/ Finish \/ Finalized

(***************************************************************************)
(* Processes.                                                              *)
(***************************************************************************)
Boot(p) ==
  /\ server[p] = "down" /\ server' = [server EXCEPT ![p] = "claiming"]
  /\ UNCHANGED <<store, jobs, owner, used, run, manager, packs, orphan, quarantined>>

\* One server owns the history of a data directory.  The claim takes the
\* directory lock; a server that cannot have the history does not start.
Claim(p) ==
  /\ server[p] = "claiming" /\ LockFree
  /\ IF owner = NoOne
     THEN /\ owner' = p
          /\ server' = [server EXCEPT ![p] = "recovering"]
          /\ jobs' = jobs \cup {Job(p, NoOne, "recover")}
     ELSE server' = [server EXCEPT ![p] = "down"] /\ UNCHANGED <<jobs, owner>>
  /\ UNCHANGED <<store, used, run, manager, packs, orphan, quarantined>>

\* Recovery precedes the first request; when it fails the claim is dropped.
Recovered(p) ==
  /\ server[p] = "recovering"
  /\ \E j \in jobs :
       /\ j.proc = p /\ j.status = "recover" /\ j.pc \in {"ok", "err"}
       /\ jobs' = jobs \ {j}
       /\ server' = [server EXCEPT ![p] = IF j.pc = "ok" THEN "serving" ELSE "down"]
       /\ owner' = IF j.pc = "ok" THEN owner ELSE NoOne
  /\ UNCHANGED <<store, used, run, manager, packs, orphan, quarantined>>

\* BenchmarkRequest::Cancel, from any control client.
CancelRun ==
  /\ run.pc \in Executing \cup Cleaning /\ ~run.cancel
  /\ run' = [run EXCEPT !.cancel = TRUE]
  /\ UNCHANGED <<store, jobs, owner, server, used, manager, packs, orphan, quarantined>>

\* A run that is only being admitted is not seen by the cancellation.
Shutdown(p) ==
  /\ server[p] = "serving" /\ server' = [server EXCEPT ![p] = "draining"]
  /\ run' = [run EXCEPT !.cancel = @ \/ run.pc \in Executing \cup Cleaning]
  /\ UNCHANGED <<store, jobs, owner, used, manager, packs, orphan, quarantined>>

\* The gate is waited for, so evidence is preserved before anything is stopped.
ShutdownGate(p) ==
  /\ server[p] = "draining" /\ run.pc = "none" /\ Readers = {}
  /\ server' = [server EXCEPT ![p] = "closing"]
  /\ UNCHANGED <<store, jobs, owner, used, run, manager, packs, orphan, quarantined>>

\* Every backend is stopped, then the history is given up.
ShutdownEnds(p) ==
  /\ server[p] = "closing" /\ operation = NoOne /\ Users = {}
  /\ server' = [server EXCEPT ![p] = "exiting"]
  /\ owner' = NoOne
  /\ EmptyMemory
  /\ UNCHANGED <<store, jobs, used>>

\* The runtime of an exiting process waits for its blocking threads.
Exit(p) ==
  /\ server[p] = "exiting" /\ \A j \in jobs : j.proc # p
  /\ server' = [server EXCEPT ![p] = "down"]
  /\ UNCHANGED <<store, jobs, owner, used, run, manager, packs, orphan, quarantined>>

\* The process is killed: locks, threads and memory are gone at once.
Crash(p) ==
  /\ server[p] \notin {"down", "claiming"}
  /\ server' = [server EXCEPT ![p] = "down"]
  /\ jobs' = {j \in jobs : j.proc # p}
  /\ IF owner = p THEN owner' = NoOne /\ EmptyMemory
                  ELSE UNCHANGED <<owner, run, manager, packs, orphan, quarantined>>
  /\ UNCHANGED <<store, used>>

ProcessStep ==
  \E p \in Procs :
    \/ Boot(p) \/ Claim(p) \/ Recovered(p) \/ Shutdown(p) \/ ShutdownGate(p)
    \/ ShutdownEnds(p) \/ Exit(p) \/ Crash(p)

Next == StoreStep \/ ClientStep \/ BackendExits \/ PackOperation \/ RunStep \/ CancelRun
        \/ ProcessStep

Spec == Init /\ [][Next]_vars

(***************************************************************************)
(* Properties.                                                             *)
(***************************************************************************)
Statuses == Final \cup {"running", "none"}

\* start_benchmark, benchmark_admission: from its admission until its record is
\* final, a run shares the server with no other inference, load or reclaim.  The
\* gate alone does not give it: it is free again once a request has its target or
\* a load its task.  Only the stop task of an unload whose caller has left may
\* still be under way.
ReservationExclusive ==
  run.pc \in Executing \cup Cleaning =>
    /\ \A a \in Clients \cup {Reaper} : pc[a] = "idle" /\ load.by # a
    /\ stopper[Reaper] = "none"

\* confirm_benchmark_request_stopped, verify_pinned, stop_benchmark_work: a
\* measured request has the pinned backend for itself, no earlier request of the
\* run is still coming or running; and what a run leaves behind when it releases
\* the reservation is nothing, or quarantined.
SoundMeasurement ==
  /\ run.pc = "measure" => orphan = "none"
  /\ run.pc = "measure" /\ run.request # "none" /\ backend.life # "none" =>
       run.pinned = "same"
  /\ run.pc \in {"none", "checking"} /\ ~quarantined =>
       /\ orphan = "none"
       /\ backend.process # "unregistered"
       /\ backend.process = "live" => backend.life # "none"

\* save_before, recover: once a run has its terminal record and no job works on
\* it, the summary the history shows is that of the record, or is missing when the
\* run never got a checkpoint.  While the two disagree the checkpoint is there for
\* recovery to find.
SummaryFollowsRecord ==
  \A r \in Runs :
    terminal[r] # "none" /\ ~active[r] /\ (\A j \in jobs : j.run # r \/ j.pc \notin Holding) =>
      summary[r] \in {terminal[r], "none"}

History == INSTANCE BenchmarkHistory WITH
  phase <- [r \in Runs |->
              IF r \notin used THEN "waiting"
              ELSE IF run.id # r THEN "over"
              ELSE IF run.pc \in Executing THEN "executing" ELSE "concluding"],
  record <- [r \in Runs |->
               IF terminal[r] # "none" THEN terminal[r]
               ELSE IF active[r] THEN "running" ELSE "none"]

\* Store, run_benchmark and initialize_benchmark_server together keep the promise
\* of BenchmarkHistory: no record is concluded while its run works, whichever
\* process recovers it, and no conclusion is ever replaced.
KeepsHistory == History!Spec
=============================================================================
